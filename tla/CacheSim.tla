------------------------------ MODULE CacheSim -------------------------------
(***************************************************************************)
(* The cache simulator (cachelab/csim.c).  Every set keeps its lines and a *)
(* head in a doubly linked ring: the line after the head is replaced next, *)
(* and a line that is used moves to the place before the head.  set_init   *)
(* computes the predecessor of line 0 as (i-1)%E with an unsigned operand, *)
(* so it is line E-1 only if E divides 2^64.                               *)
(***************************************************************************)
EXTENDS Integers, Sequences, FiniteSets

CONSTANTS s, b, E,    \* set index bits, block offset bits, lines per set
          SizeMax,    \* the largest size_t
          Address,    \* the addresses in the trace
          MaxAccess   \* bound: the number of accesses that are simulated

ASSUME GeometryAssumption == {s, b, E} \subseteq Nat \ {0}
ASSUME SizeAssumption     == SizeMax \in Nat /\ E <= SizeMax
ASSUME AddressAssumption  == Address \subseteq Nat

VARIABLES ring,       \* for each set, the links next and prev of its nodes
          line,       \* for each set and line, its tag, NoTag if not valid
          again,      \* main: the address an M has yet to access a second time
          hits, misses, evictions

vars == <<ring, line, again, hits, misses, evictions>>

SetIndex == 0 .. 2^s - 1
Lines    == 0 .. E - 1
SetHead     == E
Nodes    == 0 .. E
NoTag    == -1
NoAddr   == -1

addr_set(addr) == (addr \div 2^b) % 2^s
addr_tag(addr) == addr \div 2^(s + b)

Tags  == {addr_tag(addr) : addr \in Address}
Rings == [next : [Nodes -> Nodes], prev : [Nodes -> Nodes]]

TypeOK ==
  /\ ring \in [SetIndex -> Rings]
  /\ line \in [SetIndex -> [Lines -> Tags \union {NoTag}]]
  /\ again \in Address \union {NoAddr}
  /\ hits \in Nat /\ misses \in Nat /\ evictions \in Nat

------------------------------------------------------------------------------
(***************************************************************************)
(* The ring.                                                               *)
(***************************************************************************)
\* Put node le after node li.
list_add(r, li, le) ==
  LET after == r.next[li]
  IN  [next |-> [r.next EXCEPT ![le] = after, ![li] = le],
       prev |-> [r.prev EXCEPT ![after] = le, ![le] = li]]

list_add_before(r, li, le) == list_add(r, r.prev[li], le)

\* Mutant: the successor keeps its link back to the node that is taken out.
list_remove_OneLink(r, le) ==
  [next |-> [r.next EXCEPT ![r.prev[le]] = r.next[le], ![le] = le],
   prev |-> [r.prev EXCEPT ![le] = le]]

\* Take node le out; its own links lead to itself.
list_remove(r, le) ==
  [next |-> [r.next EXCEPT ![r.prev[le]] = r.next[le], ![le] = le],
   prev |-> [r.prev EXCEPT ![r.next[le]] = r.prev[le], ![le] = le]]

\* (i-1)%E with i-1 converted to size_t.
PrevIndex(i) == (IF i = 0 THEN SizeMax ELSE i - 1) % E

set_init ==
  LET r == [next |-> [n \in Nodes |-> IF n = SetHead THEN SetHead ELSE (n + 1) % E],
            prev |-> [n \in Nodes |-> IF n = SetHead THEN SetHead ELSE PrevIndex(n)]]
  IN  list_add_before(r, 0, SetHead)

\* Mutant: a line that is used becomes the next to be replaced.
MoveToTail_First(r, i) == list_add(list_remove(r, i), SetHead, i)

MoveToTail(r, i) == list_add_before(list_remove(r, i), SetHead, i)

------------------------------------------------------------------------------
Init ==
  /\ ring = [k \in SetIndex |-> set_init]
  /\ line = [k \in SetIndex |-> [i \in Lines |-> NoTag]]
  /\ again = NoAddr
  /\ hits = 0
  /\ misses = 0
  /\ evictions = 0

\* Mutant: the search misses the last line.
Holding_ShortLoop(k, tag) == {i \in 0 .. E - 2 : line[k][i] = tag}

\* The valid lines of a set that hold a tag.
Holding(k, tag) == {i \in Lines : line[k][i] = tag}

Hit(k, tag) ==
  /\ \E i \in Holding(k, tag) :
       /\ \A j \in Holding(k, tag) : i <= j
       /\ ring' = [ring EXCEPT ![k] = MoveToTail(@, i)]
  /\ hits' = hits + 1
  /\ UNCHANGED <<line, misses, evictions>>

\* Mutant: every miss counts as an eviction.
Miss_AlwaysEvicts(k, tag) ==
  LET i == ring[k].next[SetHead]
  IN  /\ Holding(k, tag) = {}
      /\ line' = [line EXCEPT ![k][i] = tag]
      /\ ring' = [ring EXCEPT ![k] = MoveToTail(@, i)]
      /\ misses' = misses + 1
      /\ evictions' = evictions + 1
      /\ UNCHANGED hits

Miss(k, tag) ==
  LET i == ring[k].next[SetHead]
  IN  /\ Holding(k, tag) = {}
      /\ line' = [line EXCEPT ![k][i] = tag]
      /\ ring' = [ring EXCEPT ![k] = MoveToTail(@, i)]
      /\ misses' = misses + 1
      /\ evictions' = evictions + IF line[k][i] # NoTag THEN 1 ELSE 0
      /\ UNCHANGED hits

\* set_access, in the set and with the tag of an address.
cache_access(addr) == \/ Hit(addr_set(addr), addr_tag(addr))
                      \/ Miss(addr_set(addr), addr_tag(addr))

\* L and S access the cache once, M falls through to a second access.
LoadOrStore(addr) ==
  /\ again = NoAddr
  /\ hits + misses < MaxAccess
  /\ cache_access(addr)
  /\ UNCHANGED again

Modify(addr) ==
  /\ again = NoAddr
  /\ hits + misses < MaxAccess
  /\ cache_access(addr)
  /\ again' = addr

ModifyAgain ==
  /\ again # NoAddr
  /\ cache_access(again)
  /\ again' = NoAddr

Next == \/ \E addr \in Address : LoadOrStore(addr) \/ Modify(addr)
        \/ ModifyAgain

Spec == Init /\ [][Next]_vars

------------------------------------------------------------------------------
(***************************************************************************)
(* What holds.                                                             *)
(***************************************************************************)
\* The links next form one ring: they lead to different nodes, and a set of
\* nodes that holds the head and is never left along next holds every line.
OneRing(r) ==
  /\ \A m, n \in Nodes : r.next[m] = r.next[n] => m = n
  /\ \A S \in SUBSET Nodes :
       SetHead \in S /\ (\A n \in S : r.next[n] \in S) => S = Nodes

\* Every set is one ring, and prev leads back along it.  Only the link back from
\* line 0 may be wrong, the one that set_init computes, and only until line 0 is
\* used; nobody follows it before, for it is right when line 0 comes first.
RingIntact ==
  \A k \in SetIndex :
    /\ OneRing(ring[k])
    /\ \A n \in Nodes :
         \/ ring[k].next[ring[k].prev[n]] = n
         \/ n = 0 /\ line[k][0] = NoTag /\ ring[k].next[SetHead] # 0

\* No block is in two lines, so the first line that matches is the only one.
OneLinePerBlock ==
  \A k \in SetIndex : \A i, j \in Lines :
    line[k][i] = line[k][j] /\ line[k][i] # NoTag => i = j

\* The counters agree with the contents: what was missed and not evicted is
\* in the cache.
CountersAgree ==
  misses - evictions =
    Cardinality({ki \in SetIndex \X Lines : line[ki[1]][ki[2]] # NoTag})

\* The second access of an M hits.
ModifyHits == [][again # NoAddr => hits' = hits + 1]_vars

\* The nodes of a ring, from the head on.
Order(r) == LET nth[n \in 0 .. E] == IF n = 0 THEN SetHead ELSE r.next[nth[n - 1]]
            IN  nth

\* The blocks of a set from the line that is replaced next on, the lines that
\* are not valid coming first.
Free(k)   == {i \in Lines : line[k][i] = NoTag}
Blocks(k) ==
  LET c == Cardinality(Free(k))
  IN  [n \in 1 .. E - c |-> line[k][Order(ring[k])[c + n]] * 2^s + k]

\* The simulator counts what an LRU cache does, whatever set_init computed.
L == INSTANCE LRU WITH recent <- [k \in SetIndex |-> Blocks(k)]
LRUSpec == L!Spec
==============================================================================
