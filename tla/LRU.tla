-------------------------------- MODULE LRU ----------------------------------
(***************************************************************************)
(* What the cache simulator (cachelab/csim.c) is to count: the hits,       *)
(* misses and evictions of a cache of 2^s sets of E lines each, with       *)
(* blocks of 2^b bytes, that replaces the least recently used block of a   *)
(* set.                                                                    *)
(***************************************************************************)
EXTENDS Integers, Sequences, SequencesExt

CONSTANTS s, b, E,    \* set index bits, block offset bits, lines per set
          Address     \* the addresses a trace may hold

VARIABLES recent,     \* for each set, its blocks, least recently used first
          hits, misses, evictions

SetIndex    == 0 .. 2^s - 1
Block(addr) == addr \div 2^b

Init ==
  /\ recent = [k \in SetIndex |-> <<>>]
  /\ hits = 0
  /\ misses = 0
  /\ evictions = 0

Cached(k, blk) == \E i \in DOMAIN recent[k] : recent[k][i] = blk

\* The set holds the rest, and last the block that is used.
Use(k, rest, blk) == recent' = [recent EXCEPT ![k] = Append(rest, blk)]

Hit(k, blk) ==
  /\ \E i \in DOMAIN recent[k] :
       recent[k][i] = blk /\ Use(k, RemoveAt(recent[k], i), blk)
  /\ hits' = hits + 1
  /\ UNCHANGED <<misses, evictions>>

Fill(k, blk) ==
  /\ ~Cached(k, blk)
  /\ Len(recent[k]) < E
  /\ Use(k, recent[k], blk)
  /\ misses' = misses + 1
  /\ UNCHANGED <<hits, evictions>>

Replace(k, blk) ==
  /\ ~Cached(k, blk)
  /\ Len(recent[k]) = E
  /\ Use(k, Tail(recent[k]), blk)
  /\ misses' = misses + 1
  /\ evictions' = evictions + 1
  /\ UNCHANGED hits

Access(addr) ==
  LET blk == Block(addr)
      k   == blk % 2^s
  IN  Hit(k, blk) \/ Fill(k, blk) \/ Replace(k, blk)

Next == \E addr \in Address : Access(addr)

Spec == Init /\ [][Next]_<<recent, hits, misses, evictions>>
==============================================================================
