------------------------------ MODULE Allocator ------------------------------
(***************************************************************************)
(* What a malloc package promises its user: each block in use has an       *)
(* aligned area of the heap to itself, and what was written there stays    *)
(* until it is freed, also when it is resized and moved.                   *)
(***************************************************************************)
EXTENDS Integers, Sequences

CONSTANTS Ids, Sizes, Limit

VARIABLES area,   \* for each block its area, of size 0 when it is not in use
          data    \* what is written there

vars == <<area, data>>

NoArea       == [lo |-> 0, size |-> 0]
Extent(a)    == a.lo .. a.lo + a.size - 1
Usable(i, a) == /\ a.lo % 2 = 0 /\ Extent(a) \subseteq 0 .. Limit - 1
                /\ \A j \in Ids \ {i} : Extent(a) \intersect Extent(area[j]) = {}

Init == /\ area = [i \in Ids |-> NoArea]
        /\ data = [i \in Ids |-> <<>>]

\* A block that is new, or resized, gets some usable area. Its user writes i there.
Give(i, size) ==
  /\ area'[i] \in [lo : Nat, size : {size}] /\ Usable(i, area'[i])
  /\ area' = [area EXCEPT ![i] = area'[i]]
  /\ data' = [data EXCEPT ![i] = [k \in 1 .. size |-> i]]

Free(i) ==
  /\ area[i].size > 0
  /\ area' = [area EXCEPT ![i] = NoArea]
  /\ data' = [data EXCEPT ![i] = <<>>]

Restart == area' = [i \in Ids |-> NoArea] /\ data' = [i \in Ids |-> <<>>]

Next == \/ \E i \in Ids, size \in Sizes : Give(i, size)
        \/ \E i \in Ids : Free(i)
        \/ Restart

Spec == Init /\ [][Next]_vars
==============================================================================
