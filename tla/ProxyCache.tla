----------------------------- MODULE ProxyCache ------------------------------
(***************************************************************************)
(* The object cache of the proxy (proxylab/proxy.c): MAX_CACHE_COUNT slots *)
(* that are filled in turn, and the two functions that search and fill     *)
(* them.  A response is a sequence of bytes of which only NUL matters: the *)
(* cache keeps its length but copies it as a string.                       *)
(***************************************************************************)
EXTENDS Integers, Sequences, FiniteSets, FiniteSetsExt

CONSTANTS URL,              \* the URLs that are asked for
          hash_code,        \* their hash codes; two URLs may have the same
          MAX_CACHE_COUNT,  \* slots
          MAX_CACHE_OBJECT  \* bytes in a slot

NoUrl  == ""                \* the URL of a slot that was never filled
NoSlot == -1                \* cache_get's NULL
Nul    == 0
Byte   == Nat
Slots  == 0 .. MAX_CACHE_COUNT - 1
Buffer == [1 .. MAX_CACHE_OBJECT -> Byte]

ASSUME UrlAssumption  == NoUrl \notin URL
ASSUME HashAssumption == hash_code \in [URL -> Int]
ASSUME SizeAssumption == {MAX_CACHE_COUNT, MAX_CACHE_OBJECT} \subseteq Nat \ {0}

Cache == [next : Slots,
          hash : [Slots -> Int],
          len  : [Slots -> Nat],
          url  : [Slots -> URL \union {NoUrl}],
          data : [Slots -> Buffer]]

cache_init == [next |-> 0,
               hash |-> [i \in Slots |-> -1],
               len  |-> [i \in Slots |-> 0],
               url  |-> [i \in Slots |-> NoUrl],
               data |-> [i \in Slots |-> [k \in 1 .. MAX_CACHE_OBJECT |-> Nul]]]

\* i is at or before the first NUL of string.
InString(string, i) == \A k \in 1 .. i - 1 : string[k] # Nul

\* string is copied up to its first NUL; what follows in buffer stays.
strcpy(buffer, string) ==
  [i \in DOMAIN buffer |-> IF InString(string, i) THEN string[i] ELSE buffer[i]]

\* Fill the slot next.
cache_put(c, url, buf, len) ==
  [next |-> (c.next + 1) % MAX_CACHE_COUNT,
   hash |-> [c.hash EXCEPT ![c.next] = hash_code[url]],
   len  |-> [c.len EXCEPT ![c.next] = len],
   url  |-> [c.url EXCEPT ![c.next] = url],
   data |-> [c.data EXCEPT ![c.next] = strcpy(@, buf)]]

\* Mutant: the search leaves out slot 0.
cache_get_FromOne(c, url) ==
  LET found == {i \in Slots \ {0} : c.hash[i] = hash_code[url] /\ c.url[i] = url}
  IN  IF found = {} THEN NoSlot ELSE Min(found)

\* The first slot that holds url.
cache_get(c, url) ==
  LET found == {i \in Slots : c.hash[i] = hash_code[url] /\ c.url[i] = url}
  IN  IF found = {} THEN NoSlot ELSE Min(found)
==============================================================================
