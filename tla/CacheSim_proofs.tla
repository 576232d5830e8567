--------------------------- MODULE CacheSim_proofs ---------------------------
(***************************************************************************)
(* The rings of the cache simulator, for every number of sets and lines,   *)
(* every block size and every value set_init may compute for the link back *)
(* from line 0.                                                            *)
(***************************************************************************)
EXTENDS CacheSim, FiniteSetTheorems, SequenceTheorems, WellFoundedInduction, TLAPS

------------------------------------------------------------------------------
(***************************************************************************)
(* Arithmetic.                                                             *)
(***************************************************************************)
\* A nonempty set of naturals has a least element.
LEMMA NatLeast ==
  ASSUME NEW S \in SUBSET Nat, S # {}
  PROVE  \E m \in S : \A k \in S : m <= k
<1> DEFINE R == OpToRel(<, Nat)
<1>1. \E m \in S : \A k \in S : ~(<<k, m>> \in R)
  BY NatLessThanWellFounded, WFMin
<1>2. \A m, k \in Nat : k < m => <<k, m>> \in R
  BY DEF OpToRel
<1> HIDE DEF R
<1>3. \A m, k \in S : ~(<<k, m>> \in R) => m <= k
  BY <1>2
<1> QED
  BY <1>1, <1>3

\* A set that holds lo, and with each number below hi the next one, holds all
\* numbers from lo to hi.
LEMMA UpTo ==
  ASSUME NEW S, NEW lo \in Nat, NEW hi \in Nat, lo \in S,
         \A n \in lo .. hi - 1 : n \in S => n + 1 \in S
  PROVE  \A n \in lo .. hi : n \in S
<1> DEFINE Bad == {n \in lo .. hi : n \notin S}
<1>1. SUFFICES ASSUME Bad # {} PROVE FALSE
  OBVIOUS
<1>2. PICK m \in Bad : \A n \in Bad : m <= n
  <2>1. Bad \in SUBSET Nat
    OBVIOUS
  <2> HIDE DEF Bad
  <2> QED
    BY <1>1, <2>1, NatLeast
<1>3. m \in lo .. hi /\ m # lo /\ m - 1 \in lo .. hi - 1 /\ m - 1 \notin Bad
  BY <1>2
<1> QED
  BY <1>2, <1>3

\* A power of two counts the subsets of a set.
LEMMA PowerPositive ==
  ASSUME NEW n \in Nat
  PROVE  2^n \in Nat \ {0}
<1>1. IsFiniteSet(1 .. n) /\ Cardinality(1 .. n) = n
  BY FS_Interval
<1>2. IsFiniteSet(SUBSET (1 .. n)) /\ Cardinality(SUBSET (1 .. n)) = 2^n
  BY <1>1, FS_SUBSET
<1>3. SUBSET (1 .. n) # {}
  OBVIOUS
<1> QED
  BY <1>2, <1>3, FS_CardinalityType, FS_EmptySet

LEMMA Geometry == s \in Nat \ {0} /\ b \in Nat \ {0} /\ E \in Nat \ {0}
  BY GeometryAssumption

LEMMA ModNext == ASSUME NEW n \in Lines
                 PROVE  (n + 1) % E = IF n + 1 = E THEN 0 ELSE n + 1
  BY Geometry DEF Lines

LEMMA ModPrev == ASSUME NEW n \in Lines, n # 0 PROVE (n - 1) % E = n - 1
  BY Geometry DEF Lines

\* Every address has a set and a tag.
LEMMA AddressParts ==
  ASSUME NEW addr \in Address
  PROVE  addr_set(addr) \in SetIndex /\ addr_tag(addr) \in Tags /\ addr_tag(addr) # NoTag
<1>1. addr \in Nat /\ 2^b \in Nat \ {0} /\ 2^s \in Nat \ {0} /\ 2^(s + b) \in Nat \ {0}
  BY PowerPositive, Geometry, AddressAssumption
<1>2. ASSUME NEW x \in Nat, NEW y \in Nat \ {0}
      PROVE  x \div y \in Nat /\ x % y \in 0 .. y - 1
  OBVIOUS
<1>3. addr \div 2^b \in Nat /\ addr \div 2^(s + b) \in Nat
  BY <1>1, <1>2
<1>4. (addr \div 2^b) % 2^s \in 0 .. 2^s - 1
  BY <1>1, <1>2, <1>3
<1> QED
  BY <1>3, <1>4 DEF addr_set, addr_tag, SetIndex, Tags, NoTag

------------------------------------------------------------------------------
(***************************************************************************)
(* One ring.                                                               *)
(***************************************************************************)
\* A ring whose line 0 holds a tag or NoTag.
GoodRing(r, tag) ==
  /\ r \in Rings
  /\ OneRing(r)
  /\ \A n \in Nodes : \/ r.next[r.prev[n]] = n
                      \/ n = 0 /\ tag = NoTag /\ r.next[SetHead] # 0

\* No node follows itself, so the head is followed by a line.
LEMMA Onward ==
  ASSUME NEW r \in Rings, OneRing(r)
  PROVE  (\A n \in Nodes : r.next[n] # n) /\ r.next[SetHead] \in Lines
<1>1. ASSUME NEW n \in Lines, r.next[n] = n PROVE FALSE
  <2>1. SetHead \in Nodes \ {n} /\ n \in Nodes
    BY Geometry DEF SetHead, Nodes, Lines
  <2>2. \A m \in Nodes \ {n} : r.next[m] \in Nodes \ {n}
    BY <1>1, <2>1 DEF OneRing, Rings
  <2> QED
    BY <2>1, <2>2 DEF OneRing
<1>2. ASSUME r.next[SetHead] = SetHead PROVE FALSE
  <2>1. {SetHead} \in SUBSET Nodes /\ 0 \in Nodes /\ 0 # SetHead
    BY Geometry DEF SetHead, Nodes
  <2>2. \A n \in {SetHead} : r.next[n] \in {SetHead}
    BY <1>2
  <2>3. {SetHead} = Nodes
    BY <2>1, <2>2 DEF OneRing
  <2> QED
    BY <2>1, <2>3
<1>3. Nodes = Lines \union {SetHead} /\ SetHead \notin Lines
  BY Geometry DEF SetHead, Nodes, Lines
<1>4. r.next[SetHead] \in Nodes
  BY <1>3 DEF Rings
<1> QED
  BY <1>1, <1>2, <1>3, <1>4

\* The links after line i has moved to the tail: the nodes before and after it
\* are linked, and it comes between the former tail t and the head.
LEMMA MovedLinks ==
  ASSUME NEW r \in Rings, OneRing(r), NEW i \in Lines,
         r.next[r.prev[i]] = i, r.next[r.prev[SetHead]] = SetHead,
         NEW p, p = r.prev[i], NEW x, x = r.next[i], NEW t, t = r.prev[SetHead],
         NEW q, q = MoveToTail(r, i)
  PROVE  /\ p \in Nodes /\ x \in Nodes /\ t \in Nodes /\ p # i /\ x # i
         /\ q \in Rings
         /\ \/ /\ x = SetHead /\ t = i
               /\ q.next = r.next
               /\ q.prev[SetHead] = i /\ q.prev[i] = p
               /\ \A n \in Nodes : n \notin {i, SetHead} => q.prev[n] = r.prev[n]
            \/ /\ x # SetHead /\ t # i /\ t # p
               /\ q.next[p] = x /\ q.next[i] = SetHead /\ q.next[t] = i
               /\ \A n \in Nodes : n \notin {p, i, t} => q.next[n] = r.next[n]
               /\ q.prev[x] = p /\ q.prev[i] = t /\ q.prev[SetHead] = i
               /\ \A n \in Nodes : n \notin {x, i, SetHead} => q.prev[n] = r.prev[n]
<1>1. i \in Nodes /\ SetHead \in Nodes /\ i # SetHead
  BY Geometry DEF SetHead, Nodes, Lines
<1>2. p \in Nodes /\ x \in Nodes /\ t \in Nodes /\ p # i /\ x # i
  BY <1>1, Onward DEF Rings
<1>3. /\ r.next \in [Nodes -> Nodes] /\ r.prev \in [Nodes -> Nodes]
      /\ r.next[p] = i /\ r.next[t] = SetHead
  BY DEF Rings
<1> DEFINE r1 == list_remove(r, i)
           t1 == r1.prev[SetHead]
<1>4. /\ r1.next = [r.next EXCEPT ![p] = x, ![i] = i]
      /\ r1.prev = [r.prev EXCEPT ![x] = p, ![i] = i]
  BY DEF list_remove
<1>5. q = list_add(r1, t1, i)
  BY DEF MoveToTail, list_add_before
<1>6. /\ q.next = [r1.next EXCEPT ![i] = r1.next[t1], ![t1] = i]
      /\ q.prev = [r1.prev EXCEPT ![r1.next[t1]] = i, ![i] = t1]
  BY <1>5 DEF list_add
<1> HIDE DEF r1, t1
<1>7. t1 = r1.prev[SetHead]
  BY DEF t1
<1>8. CASE x = SetHead
  <2>1. t = i
    BY <1>1, <1>2, <1>3, <1>8 DEF OneRing
  <2>2. t1 = p /\ r1.next[t1] = SetHead
    BY <1>1, <1>2, <1>3, <1>4, <1>7, <1>8
  <2>3. q.next = r.next
    <3>1. q.next \in [Nodes -> Nodes]
      BY <1>1, <1>2, <1>3, <1>4, <1>6, <2>2
    <3>2. \A n \in Nodes : q.next[n] = r.next[n]
      BY <1>1, <1>2, <1>3, <1>4, <1>6, <1>8, <2>2
    <3> QED
      BY <1>3, <3>1, <3>2
  <2>4. /\ q.prev \in [Nodes -> Nodes]
        /\ q.prev[SetHead] = i /\ q.prev[i] = p
        /\ \A n \in Nodes : n \notin {i, SetHead} => q.prev[n] = r.prev[n]
    BY <1>1, <1>2, <1>3, <1>4, <1>6, <1>8, <2>2
  <2>5. q \in Rings
    BY <1>3, <1>5, <2>3, <2>4 DEF Rings, list_add
  <2> QED
    BY <1>2, <1>8, <2>1, <2>3, <2>4, <2>5
<1>9. CASE x # SetHead
  <2>1. t # i /\ t # p
    BY <1>1, <1>3, <1>9
  <2>2. t1 = t /\ r1.next[t1] = SetHead
    BY <1>1, <1>2, <1>3, <1>4, <1>7, <1>9, <2>1
  <2>3. /\ q.next \in [Nodes -> Nodes]
        /\ q.next[p] = x /\ q.next[i] = SetHead /\ q.next[t] = i
        /\ \A n \in Nodes : n \notin {p, i, t} => q.next[n] = r.next[n]
    <3>1. /\ q.next = [r1.next EXCEPT ![i] = SetHead, ![t] = i]
          /\ r1.next = [r.next EXCEPT ![p] = x, ![i] = i]
          /\ r.next \in [Nodes -> Nodes]
          /\ {SetHead, i, t, p, x} \subseteq Nodes /\ i # p
      BY <1>1, <1>2, <1>3, <1>4, <1>6, <2>2
    <3> QED
      BY <2>1, <3>1
  <2>4. /\ q.prev \in [Nodes -> Nodes]
        /\ q.prev[x] = p /\ q.prev[i] = t /\ q.prev[SetHead] = i
        /\ \A n \in Nodes : n \notin {x, i, SetHead} => q.prev[n] = r.prev[n]
    <3>1. /\ q.prev = [r1.prev EXCEPT ![SetHead] = i, ![i] = t]
          /\ r1.prev = [r.prev EXCEPT ![x] = p, ![i] = i]
          /\ r.prev \in [Nodes -> Nodes]
          /\ {SetHead, i, t, p, x} \subseteq Nodes /\ i # SetHead /\ x # i
      BY <1>1, <1>2, <1>3, <1>4, <1>6, <2>2
    <3> QED
      BY <1>9, <3>1
  <2>5. q \in Rings
    BY <1>5, <2>3, <2>4 DEF Rings, list_add
  <2> QED
    BY <1>2, <1>9, <2>1, <2>3, <2>4, <2>5
<1> QED
  BY <1>8, <1>9

\* Moving a line to the tail keeps the ring; if line 0 is moved, its link back
\* is right from then on.
LEMMA MoveKeepsRing ==
  ASSUME NEW old, NEW new, NEW r, GoodRing(r, old),
         NEW i \in Lines, r.next[r.prev[i]] = i, i # 0 => new = old
  PROVE  GoodRing(MoveToTail(r, i), new)
<1> DEFINE p == r.prev[i]
           x == r.next[i]
           t == r.prev[SetHead]
           q == MoveToTail(r, i)
<1>1. /\ r \in Rings /\ OneRing(r)
      /\ \A n \in Nodes : \/ r.next[r.prev[n]] = n
                          \/ n = 0 /\ old = NoTag /\ r.next[SetHead] # 0
  BY DEF GoodRing
<1>2. /\ i \in Nodes /\ SetHead \in Nodes /\ i # SetHead /\ 0 \in Nodes /\ SetHead # 0
      /\ r.next \in [Nodes -> Nodes] /\ r.prev \in [Nodes -> Nodes]
  <2>1. /\ i \in Nodes /\ SetHead \in Nodes /\ i # SetHead /\ 0 \in Nodes /\ SetHead # 0
    BY Geometry DEF SetHead, Nodes, Lines
  <2> QED
    BY <1>1, <2>1 DEF Rings
<1>3. r.next[p] = i /\ r.next[t] = SetHead
  BY <1>1, <1>2
<1>4. /\ p \in Nodes /\ x \in Nodes /\ t \in Nodes /\ p # i /\ x # i
      /\ q \in Rings
      /\ \/ /\ x = SetHead /\ t = i
            /\ q.next = r.next
            /\ q.prev[SetHead] = i /\ q.prev[i] = p
            /\ \A n \in Nodes : n \notin {i, SetHead} => q.prev[n] = r.prev[n]
         \/ /\ x # SetHead /\ t # i /\ t # p
            /\ q.next[p] = x /\ q.next[i] = SetHead /\ q.next[t] = i
            /\ \A n \in Nodes : n \notin {p, i, t} => q.next[n] = r.next[n]
            /\ q.prev[x] = p /\ q.prev[i] = t /\ q.prev[SetHead] = i
            /\ \A n \in Nodes : n \notin {x, i, SetHead} => q.prev[n] = r.prev[n]
  BY <1>1, <1>3, MovedLinks
<1>5. r.next[i] = x /\ r.prev[i] = p
  OBVIOUS
<1>6. \A m, n \in Nodes : r.next[m] = r.next[n] => m = n
  BY <1>1 DEF OneRing
<1>7. \A S \in SUBSET Nodes :
        SetHead \in S /\ (\A n \in S : r.next[n] \in S) => S = Nodes
  BY <1>1 DEF OneRing
<1> SUFFICES GoodRing(q, new)
  OBVIOUS
<1> HIDE DEF p, x, t, q
<1>8. CASE x = SetHead
  <2>1. /\ q.next = r.next
        /\ q.prev[SetHead] = i /\ q.prev[i] = p
        /\ \A n \in Nodes : n \notin {i, SetHead} => q.prev[n] = r.prev[n]
    BY <1>4, <1>8
  <2>2. OneRing(q)
    BY <1>1, <2>1 DEF OneRing
  <2>3. ASSUME NEW n \in Nodes
        PROVE  q.next[q.prev[n]] = n \/ (n = 0 /\ new = NoTag /\ q.next[SetHead] # 0)
    <3>1. q.next[i] = SetHead /\ q.next[p] = i
      BY <1>3, <1>5, <1>8, <2>1
    <3>2. CASE n = i \/ n = SetHead
      BY <2>1, <3>1, <3>2
    <3>3. CASE n # i /\ n # SetHead
      <4>1. q.prev[n] = r.prev[n]
        BY <2>1, <2>3, <3>3
      <4>2. CASE r.next[r.prev[n]] = n
        BY <2>1, <4>1, <4>2
      <4>3. CASE n = 0 /\ old = NoTag /\ r.next[SetHead] # 0
        BY <2>1, <3>3, <4>3
      <4> QED
        BY <1>1, <2>3, <4>2, <4>3
    <3> QED
      BY <3>2, <3>3
  <2> QED
    BY <1>4, <2>2, <2>3 DEF GoodRing
<1>9. CASE x # SetHead
  <2>1. /\ t # i /\ t # p
        /\ q.next[p] = x /\ q.next[i] = SetHead /\ q.next[t] = i
        /\ \A n \in Nodes : n \notin {p, i, t} => q.next[n] = r.next[n]
        /\ q.prev[x] = p /\ q.prev[i] = t /\ q.prev[SetHead] = i
        /\ \A n \in Nodes : n \notin {x, i, SetHead} => q.prev[n] = r.prev[n]
    BY <1>4, <1>9
  <2>2. ASSUME NEW m \in Nodes, NEW n \in Nodes, q.next[m] = q.next[n] PROVE m = n
    BY <1>2, <1>3, <1>4, <1>5, <1>6, <2>1, <2>2
  <2>3. ASSUME NEW S \in SUBSET Nodes, SetHead \in S, \A n \in S : q.next[n] \in S
        PROVE  S = Nodes
    <3>1. CASE p \in S
      <4>1. ASSUME NEW n \in S \union {i} PROVE r.next[n] \in S \union {i}
        <5>1. q.next[p] \in S
          BY <2>3, <3>1
        <5>2. CASE n \in {p, i, t}
          BY <1>3, <1>5, <2>1, <2>3, <5>1, <5>2
        <5>3. CASE n \notin {p, i, t}
          BY <2>1, <2>3, <4>1, <5>3
        <5> QED
          BY <5>2, <5>3
      <4>2. S \union {i} = Nodes
        <5> DEFINE T == S \union {i}
        <5>1. T \in SUBSET Nodes /\ SetHead \in T /\ \A n \in T : r.next[n] \in T
          BY <1>2, <2>3, <4>1
        <5> HIDE DEF T
        <5>2. T = Nodes
          BY <1>7, <5>1
        <5> QED
          BY <5>2 DEF T
      <4>3. i \in S
        BY <1>4, <2>1, <2>3, <4>2
      <4> QED
        BY <4>2, <4>3
    <3>2. CASE p \notin S
      <4>1. \A n \in S \ {i} : r.next[n] \in S \ {i}
        BY <1>2, <1>3, <1>4, <1>6, <2>1, <2>3, <3>2
      <4>2. S \ {i} = Nodes
        BY <1>2, <1>7, <2>3, <4>1
      <4> QED
        BY <1>2, <4>2
    <3> QED
      BY <3>1, <3>2
  <2>4. OneRing(q)
    BY <2>2, <2>3 DEF OneRing
  <2>5. ASSUME NEW n \in Nodes
        PROVE  q.next[q.prev[n]] = n \/ (n = 0 /\ new = NoTag /\ q.next[SetHead] # 0)
    <3>1. CASE n \in {x, i, SetHead}
      <4>1. q.next[q.prev[x]] = x /\ q.next[q.prev[i]] = i /\ q.next[q.prev[SetHead]] = SetHead
        BY <2>1
      <4> QED
        BY <3>1, <4>1
    <3>2. CASE n \notin {x, i, SetHead} /\ r.next[r.prev[n]] = n
      <4>1. r.prev[n] \in Nodes /\ q.prev[n] = r.prev[n]
        BY <1>2, <2>1, <2>5, <3>2
      <4>2. r.next[p] = i /\ r.next[i] = x /\ r.next[t] = SetHead
        BY <1>3, <1>5
      <4>3. r.prev[n] # p /\ r.prev[n] # i /\ r.prev[n] # t
        BY <3>2, <4>2
      <4> QED
        BY <2>1, <3>2, <4>1, <4>3
    <3>3. CASE n \notin {x, i, SetHead} /\ n = 0 /\ old = NoTag /\ r.next[SetHead] # 0
      <4>1. q.next[SetHead] # 0
        BY <1>2, <2>1, <3>3
      <4> QED
        BY <3>3, <4>1
    <3> QED
      BY <1>1, <2>5, <3>1, <3>2, <3>3
  <2> QED
    BY <1>4, <2>4, <2>5 DEF GoodRing
<1> QED
  BY <1>8, <1>9

\* set_init makes a ring, whichever line it takes for the one before line 0.
LEMMA InitialRing == GoodRing(set_init, NoTag)
<1> DEFINE k == SizeMax % E
           a == (k + 1) % E
           r == set_init
<1>1. k \in Lines /\ PrevIndex(0) = k
  BY Geometry, SizeAssumption DEF Lines, PrevIndex
<1>2. a = IF k + 1 = E THEN 0 ELSE k + 1
  BY <1>1, ModNext
<1>3. /\ 0 \in Lines /\ a \in Lines /\ Nodes = Lines \union {SetHead} /\ SetHead \notin Lines
  BY <1>1, <1>2, Geometry DEF Lines, Nodes, SetHead
<1>4. ASSUME NEW n \in Lines
      PROVE  /\ (n + 1) % E = IF n + 1 = E THEN 0 ELSE n + 1
             /\ (n + 1) % E \in Lines
             /\ PrevIndex(n) = IF n = 0 THEN k ELSE n - 1
             /\ PrevIndex(n) \in Lines
  <2>1. (n + 1) % E = (IF n + 1 = E THEN 0 ELSE n + 1) /\ (n + 1) % E \in Lines
    BY <1>4, ModNext, Geometry DEF Lines
  <2>2. PrevIndex(n) = IF n = 0 THEN k ELSE n - 1
    BY <1>1, <1>4, ModPrev DEF PrevIndex, Lines
  <2>3. PrevIndex(n) \in Lines
    BY <1>1, <1>4, <2>2, Geometry DEF Lines
  <2> QED
    BY <2>1, <2>2, <2>3
<1> HIDE DEF k, a
<1>5. /\ r.next = [n \in Nodes |-> IF n = SetHead THEN a ELSE
                                   IF n = k THEN SetHead ELSE (n + 1) % E]
      /\ r.prev = [n \in Nodes |-> IF n = SetHead THEN k ELSE
                                   IF n = a THEN SetHead ELSE PrevIndex(n)]
  BY <1>1, <1>3 DEF set_init, list_add_before, list_add, a, k
<1>6. r \in Rings
  BY ZenonT(60), <1>1, <1>3, <1>4, <1>5 DEF Rings, set_init, list_add_before, list_add
<1> HIDE DEF r
<1>7. ASSUME NEW m \in Nodes, NEW n \in Nodes, r.next[m] = r.next[n] PROVE m = n
  <2>1. ASSUME NEW l \in Lines, l # k
        PROVE  /\ r.next[l] = IF l + 1 = E THEN 0 ELSE l + 1
               /\ r.next[l] # a /\ r.next[l] # SetHead
    <3>1. r.next[l] = (l + 1) % E
      BY <1>3, <1>5, <2>1
    <3>2. r.next[l] = (IF l + 1 = E THEN 0 ELSE l + 1) /\ r.next[l] \in Lines
      BY <1>4, <2>1, <3>1
    <3>3. r.next[l] # a
      BY <1>1, <1>2, <2>1, <3>2, Geometry DEF Lines
    <3> QED
      BY <1>3, <3>2, <3>3
  <2>2. r.next[SetHead] = a /\ r.next[k] = SetHead /\ a # SetHead
    BY <1>1, <1>3, <1>5
  <2>3. CASE m \in {SetHead, k} \/ n \in {SetHead, k}
    BY <1>3, <1>7, <2>1, <2>2, <2>3
  <2>4. CASE m \notin {SetHead, k} /\ n \notin {SetHead, k}
    <3>1. m \in Lines /\ n \in Lines
      BY <1>3, <2>4
    <3> QED
      BY <1>7, <2>1, <2>4, <3>1, Geometry DEF Lines
  <2> QED
    BY <2>3, <2>4
<1>8. ASSUME NEW S \in SUBSET Nodes, SetHead \in S, \A n \in S : r.next[n] \in S
      PROVE  S = Nodes
  <2>1. a \in S
    BY ZenonT(60), <1>3, <1>5, <1>8
  <2>2. ASSUME NEW n \in Lines, n \in S, n # k, n + 1 # E PROVE n + 1 \in S
    <3>1. r.next[n] = n + 1
      <4>1. r.next[n] = (n + 1) % E
        BY <1>3, <1>5, <2>2
      <4> QED
        BY <1>4, <2>2, <4>1
    <3> QED
      BY <1>8, <2>2, <3>1
  <2>3. \A n \in k + 1 .. E - 1 : n \in S
    <3>1. CASE k + 1 = E
      BY <1>1, <3>1, Geometry DEF Lines
    <3>2. CASE k + 1 # E
      <4>1. k + 1 \in Nat /\ E - 1 \in Nat /\ k + 1 \in S
        BY <1>1, <1>2, <2>1, <3>2, Geometry DEF Lines
      <4>2. \A n \in k + 1 .. E - 1 - 1 : n \in S => n + 1 \in S
        BY <1>1, <2>2, Geometry DEF Lines
      <4> QED
        BY <4>1, <4>2, UpTo
    <3> QED
      BY <3>1, <3>2
  <2>4. 0 \in S
    <3>1. CASE k + 1 = E
      BY <1>2, <2>1, <3>1
    <3>2. CASE k + 1 # E
      <4>1. E - 1 \in S /\ E - 1 \in Lines /\ E - 1 # k
        BY <1>1, <2>3, <3>2, Geometry DEF Lines
      <4>2. (E - 1 + 1) % E = 0
        BY <1>4, <4>1, Geometry
      <4>3. r.next[E - 1] = 0
        BY <1>3, <1>5, <4>1, <4>2
      <4> QED
        BY <1>8, <4>1, <4>3
    <3> QED
      BY <3>1, <3>2
  <2>5. \A n \in 0 .. k : n \in S
    <3>1. k \in Nat /\ \A n \in 0 .. k - 1 : n \in S => n + 1 \in S
      BY <1>1, <2>2, Geometry DEF Lines
    <3> QED
      BY <2>4, <3>1, UpTo
  <2>6. \A n \in Lines : n \in S
    BY <1>1, <2>3, <2>5, Geometry DEF Lines
  <2> QED
    BY <1>3, <1>8, <2>6
<1>9. OneRing(r)
  BY <1>7, <1>8 DEF OneRing
<1>10. ASSUME NEW n \in Nodes
       PROVE  r.next[r.prev[n]] = n \/ (n = 0 /\ r.next[SetHead] # 0)
  <2>1. CASE n = SetHead
    <3>1. r.prev[SetHead] = k /\ r.next[k] = SetHead
      BY <1>1, <1>3, <1>5
    <3> QED
      BY <2>1, <3>1
  <2>2. CASE n = a
    <3>1. r.prev[a] = SetHead /\ r.next[SetHead] = a
      BY <1>3, <1>5
    <3> QED
      BY <2>2, <3>1
  <2>3. CASE n \in Lines /\ n # a /\ n # 0
    <3>1. r.prev[n] = n - 1 /\ n - 1 \in Lines /\ n - 1 # k
      BY <1>1, <1>2, <1>3, <1>4, <1>5, <2>3, Geometry DEF Lines
    <3>2. r.next[n - 1] = n
      <4>1. r.next[n - 1] = (n - 1 + 1) % E
        BY <1>3, <1>5, <3>1
      <4>2. (n - 1 + 1) % E = IF n - 1 + 1 = E THEN 0 ELSE n - 1 + 1
        BY <1>4, <3>1
      <4>3. n - 1 + 1 = n /\ n # E
        BY <2>3, Geometry DEF Lines
      <4> QED
        BY <4>1, <4>2, <4>3
    <3> QED
      BY <3>1, <3>2
  <2>4. CASE n = 0 /\ n # a
    BY <1>3, <1>5, <2>4
  <2> QED
    BY <1>3, <2>1, <2>2, <2>3, <2>4
<1> QED
  BY <1>6, <1>9, <1>10 DEF GoodRing, r

------------------------------------------------------------------------------
(***************************************************************************)
(* The invariant.                                                          *)
(***************************************************************************)
\* An M whose second access is due has its block in the cache.
AgainHeld ==
  again # NoAddr => Holding(addr_set(again), addr_tag(again)) # {}

IInv == TypeOK /\ RingIntact /\ OneLinePerBlock /\ AgainHeld

LEMMA Rings_Good ==
  ASSUME TypeOK
  PROVE  RingIntact <=> \A k \in SetIndex : GoodRing(ring[k], line[k][0])
  BY DEF TypeOK, RingIntact, GoodRing

LEMMA InitIInv == Init => IInv
<1> SUFFICES ASSUME Init PROVE IInv
  OBVIOUS
<1>1. set_init \in Rings /\ GoodRing(set_init, NoTag)
  BY InitialRing DEF GoodRing
<1>2. TypeOK
  BY <1>1 DEF Init, TypeOK
<1>3. RingIntact
  <2>1. ASSUME NEW k \in SetIndex PROVE ring[k] = set_init /\ line[k][0] = NoTag
    BY Geometry DEF Init, Lines
  <2> QED
    BY <1>1, <1>2, <2>1, Rings_Good
<1>4. OneLinePerBlock
  BY DEF Init, OneLinePerBlock
<1>5. AgainHeld
  BY DEF Init, AgainHeld
<1> QED
  BY <1>2, <1>3, <1>4, <1>5 DEF IInv

\* What an access does: the tag is in one line of its set, which moves to the
\* tail of the ring; no other line and no other set changes.
LEMMA AccessEffect ==
  ASSUME IInv, NEW addr \in Address, cache_access(addr),
         NEW k, k = addr_set(addr), NEW tag, tag = addr_tag(addr)
  PROVE  \E i \in Lines :
           /\ k \in SetIndex /\ tag \in Tags /\ tag # NoTag
           /\ ring' = [ring EXCEPT ![k] = MoveToTail(ring[k], i)]
           /\ line' = [line EXCEPT ![k][i] = tag]
           /\ \A j \in Lines : line[k][j] = tag => j = i
           /\ ring[k].next[ring[k].prev[i]] = i
           /\ \/ /\ line[k][i] = tag /\ hits' = hits + 1
                 /\ UNCHANGED <<misses, evictions>>
              \/ /\ Holding(k, tag) = {} /\ i = ring[k].next[SetHead]
                 /\ misses' = misses + 1 /\ UNCHANGED hits
                 /\ evictions' = evictions + IF line[k][i] # NoTag THEN 1 ELSE 0
<1>1. k \in SetIndex /\ tag \in Tags /\ tag # NoTag
  BY AddressParts
<1>2. GoodRing(ring[k], line[k][0]) /\ line \in [SetIndex -> [Lines -> Tags \union {NoTag}]]
  BY <1>1, Rings_Good DEF IInv, TypeOK
<1>3. CASE Hit(k, tag)
  <2>1. PICK i \in Holding(k, tag) : ring' = [ring EXCEPT ![k] = MoveToTail(ring[k], i)]
    BY <1>3 DEF Hit
  <2>2. i \in Lines /\ line[k][i] = tag
    BY <2>1 DEF Holding
  <2>3. line' = [line EXCEPT ![k][i] = tag]
    BY <1>1, <1>2, <1>3, <2>2 DEF Hit
  <2>4. \A j \in Lines : line[k][j] = tag => j = i
    BY <1>1, <2>2 DEF IInv, OneLinePerBlock
  <2>5. ring[k].next[ring[k].prev[i]] = i
    <3>1. i \in Nodes /\ (i = 0 => line[k][0] # NoTag)
      BY <1>1, <2>2, Geometry DEF Lines, Nodes
    <3> QED
      BY <1>2, <3>1 DEF GoodRing
  <2> QED
    BY <1>1, <1>3, <2>1, <2>2, <2>3, <2>4, <2>5 DEF Hit
<1>4. CASE Miss(k, tag)
  <2> DEFINE i == ring[k].next[SetHead]
  <2>1. i \in Lines
    BY <1>2, Onward DEF GoodRing
  <2>2. \A j \in Lines : line[k][j] # tag
    BY <1>4 DEF Miss, Holding
  <2>3. ring[k].next[ring[k].prev[i]] = i
    <3>1. i \in Nodes /\ (i = 0 => ring[k].next[SetHead] = 0)
      BY <2>1, Geometry DEF Lines, Nodes
    <3> QED
      BY <1>2, <3>1 DEF GoodRing
  <2> QED
    BY <1>1, <1>4, <2>1, <2>2, <2>3 DEF Miss
<1> QED
  BY <1>3, <1>4 DEF cache_access

\* An access keeps every part of the invariant, and leaves its block cached.
LEMMA AccessKeeps ==
  ASSUME IInv, NEW addr \in Address, cache_access(addr), again' \in {NoAddr, addr}
  PROVE  IInv'
<1> DEFINE k == addr_set(addr)
           tag == addr_tag(addr)
<1>1. PICK i \in Lines :
           /\ k \in SetIndex /\ tag \in Tags /\ tag # NoTag
           /\ ring' = [ring EXCEPT ![k] = MoveToTail(ring[k], i)]
           /\ line' = [line EXCEPT ![k][i] = tag]
           /\ \A j \in Lines : line[k][j] = tag => j = i
           /\ ring[k].next[ring[k].prev[i]] = i
           /\ \/ /\ line[k][i] = tag /\ hits' = hits + 1
                 /\ UNCHANGED <<misses, evictions>>
              \/ /\ Holding(k, tag) = {} /\ i = ring[k].next[SetHead]
                 /\ misses' = misses + 1 /\ UNCHANGED hits
                 /\ evictions' = evictions + IF line[k][i] # NoTag THEN 1 ELSE 0
  BY AccessEffect
<1> HIDE DEF k, tag
<1>2. /\ line \in [SetIndex -> [Lines -> Tags \union {NoTag}]]
      /\ ring \in [SetIndex -> Rings]
      /\ hits \in Nat /\ misses \in Nat /\ evictions \in Nat
      /\ \A l \in SetIndex : GoodRing(ring[l], line[l][0])
  BY Rings_Good DEF IInv, TypeOK
<1>3. /\ line' \in [SetIndex -> [Lines -> Tags \union {NoTag}]]
      /\ \A l \in SetIndex : l # k => line'[l] = line[l]
      /\ \A j \in Lines : line'[k][j] = IF j = i THEN tag ELSE line[k][j]
  BY <1>1, <1>2
<1>4. ASSUME NEW l \in SetIndex PROVE GoodRing(ring'[l], line'[l][0])
  <2>1. CASE l # k
    BY <1>1, <1>2, <1>3, <2>1
  <2>2. CASE l = k
    <3>1. i # 0 => line'[k][0] = line[k][0]
      BY <1>3, Geometry DEF Lines
    <3>2. GoodRing(MoveToTail(ring[k], i), line'[k][0])
      BY <1>1, <1>2, <3>1, MoveKeepsRing
    <3> QED
      BY <1>1, <1>2, <2>2, <3>2
  <2> QED
    BY <2>1, <2>2
<1>5. TypeOK'
  <2>1. ring' \in [SetIndex -> Rings]
    <3>1. MoveToTail(ring[k], i) \in Rings
      <4>1. ring'[k] = MoveToTail(ring[k], i)
        BY <1>1, <1>2
      <4> QED
        BY <1>1, <1>4, <4>1 DEF GoodRing
    <3> QED
      BY <1>1, <1>2, <3>1
  <2>2. hits' \in Nat /\ misses' \in Nat /\ evictions' \in Nat
    BY <1>1, <1>2
  <2> QED
    BY <1>3, <2>1, <2>2 DEF TypeOK
<1>6. RingIntact'
  <2>1. (RingIntact <=> \A l \in SetIndex : GoodRing(ring[l], line[l][0]))'
    BY <1>5 DEF TypeOK, RingIntact, GoodRing
  <2> QED
    BY <1>4, <2>1
<1>7. OneLinePerBlock'
  <2>1. ASSUME NEW l \in SetIndex, NEW m \in Lines, NEW n \in Lines,
               line'[l][m] = line'[l][n], line'[l][m] # NoTag
        PROVE  m = n
    <3>1. CASE l # k
      BY <1>3, <2>1, <3>1 DEF IInv, OneLinePerBlock
    <3>2. CASE l = k
      <4>1. CASE m = i \/ n = i
        BY <1>1, <1>3, <2>1, <3>2, <4>1
      <4>2. CASE m # i /\ n # i
        BY <1>3, <2>1, <3>2, <4>2 DEF IInv, OneLinePerBlock
      <4> QED
        BY <4>1, <4>2
    <3> QED
      BY <3>1, <3>2
  <2> QED
    BY <2>1 DEF OneLinePerBlock
<1>8. AgainHeld'
  <2>1. i \in Holding(k, tag)'
    BY <1>1, <1>3 DEF Holding
  <2> QED
    BY <2>1 DEF AgainHeld, k, tag
<1> QED
  BY <1>5, <1>6, <1>7, <1>8 DEF IInv

LEMMA NextIInv == IInv /\ [Next]_vars => IInv'
<1> SUFFICES ASSUME IInv, [Next]_vars PROVE IInv'
  OBVIOUS
<1>1. CASE Next
  <2>1. ASSUME NEW addr \in Address, LoadOrStore(addr) PROVE IInv'
    BY <2>1, AccessKeeps DEF LoadOrStore
  <2>2. ASSUME NEW addr \in Address, Modify(addr) PROVE IInv'
    BY <2>2, AccessKeeps DEF Modify
  <2>3. ASSUME ModifyAgain PROVE IInv'
    <3>1. again \in Address
      BY <2>3 DEF ModifyAgain, IInv, TypeOK
    <3> QED
      BY <2>3, <3>1, AccessKeeps DEF ModifyAgain
  <2> QED
    BY <1>1, <2>1, <2>2, <2>3 DEF Next
<1>2. CASE UNCHANGED vars
  BY <1>2 DEF vars, IInv, TypeOK, RingIntact, OneLinePerBlock, AgainHeld, Holding
<1> QED
  BY <1>1, <1>2

\* In every run of the simulator, whatever set_init has computed, the lines of
\* a set and its head form one ring that next and prev agree on.
THEOREM RingsStayIntact == Spec => [](TypeOK /\ RingIntact)
<1>1. IInv => TypeOK /\ RingIntact
  BY DEF IInv
<1> QED
  BY <1>1, InitIInv, NextIInv, PTL DEF Spec

\* No block is ever in two lines, for every geometry of the cache.
THEOREM BlocksInOneLine == Spec => []OneLinePerBlock
<1>1. IInv => OneLinePerBlock
  BY DEF IInv
<1> QED
  BY <1>1, InitIInv, NextIInv, PTL DEF Spec

\* The second access of an M is a hit, even in a cache of one line per set.
THEOREM SecondAccessHits == Spec => ModifyHits
<1> DEFINE A == again # NoAddr => hits' = hits + 1
<1>1. ASSUME IInv, [Next]_vars PROVE [A]_vars
  <2>1. ASSUME ModifyAgain PROVE A
    <3>1. again \in Address /\ Holding(addr_set(again), addr_tag(again)) # {}
      BY <1>1, <2>1 DEF ModifyAgain, IInv, TypeOK, AgainHeld
    <3> QED
      BY <2>1, <3>1 DEF ModifyAgain, cache_access, Hit, Miss
  <2>2. ASSUME NEW addr \in Address, LoadOrStore(addr) \/ Modify(addr) PROVE A
    BY <2>2 DEF LoadOrStore, Modify
  <2> HIDE DEF A
  <2> QED
    BY <1>1, <2>1, <2>2 DEF Next
<1> QED
  BY <1>1, InitIInv, NextIInv, PTL DEF Spec, ModifyHits

------------------------------------------------------------------------------
(***************************************************************************)
(* The counters.                                                           *)
(***************************************************************************)
Valid == {ki \in SetIndex \X Lines : line[ki[1]][ki[2]] # NoTag}

LEMMA ValidFinite == IsFiniteSet(Valid) /\ IsFiniteSet(Valid')
<1>1. 2^s \in Nat \ {0}
  BY PowerPositive, Geometry
<1>2. IsFiniteSet(SetIndex) /\ IsFiniteSet(Lines)
  BY <1>1, FS_Interval, Geometry DEF SetIndex, Lines
<1>3. IsFiniteSet(SetIndex \X Lines)
  BY <1>2, FS_Product
<1>4. Valid \subseteq SetIndex \X Lines /\ Valid' \subseteq SetIndex \X Lines
  BY DEF Valid
<1> QED
  BY <1>3, <1>4, FS_Subset

\* An access adds a valid line exactly if it counts a miss and no eviction.
LEMMA AccessCounts ==
  ASSUME IInv, CountersAgree, NEW addr \in Address, cache_access(addr)
  PROVE  CountersAgree'
<1> DEFINE k == addr_set(addr)
           tag == addr_tag(addr)
<1>1. PICK i \in Lines :
           /\ k \in SetIndex /\ tag \in Tags /\ tag # NoTag
           /\ ring' = [ring EXCEPT ![k] = MoveToTail(ring[k], i)]
           /\ line' = [line EXCEPT ![k][i] = tag]
           /\ \A j \in Lines : line[k][j] = tag => j = i
           /\ ring[k].next[ring[k].prev[i]] = i
           /\ \/ /\ line[k][i] = tag /\ hits' = hits + 1
                 /\ UNCHANGED <<misses, evictions>>
              \/ /\ Holding(k, tag) = {} /\ i = ring[k].next[SetHead]
                 /\ misses' = misses + 1 /\ UNCHANGED hits
                 /\ evictions' = evictions + IF line[k][i] # NoTag THEN 1 ELSE 0
  BY AccessEffect
<1> HIDE DEF k, tag
<1>2. /\ line \in [SetIndex -> [Lines -> Tags \union {NoTag}]]
      /\ misses \in Nat /\ evictions \in Nat
      /\ misses - evictions = Cardinality(Valid)
  BY DEF IInv, TypeOK, CountersAgree, Valid
<1>3. ASSUME NEW l \in SetIndex, NEW j \in Lines
      PROVE  line'[l][j] = IF l = k /\ j = i THEN tag ELSE line[l][j]
  BY <1>1, <1>2
<1>4. Valid' = Valid \union {<<k, i>>}
  <2>1. \A ki \in SetIndex \X Lines : ki \in Valid' <=> ki \in Valid \/ ki = <<k, i>>
    BY <1>1, <1>3 DEF Valid
  <2>2. Valid \subseteq SetIndex \X Lines /\ Valid' \subseteq SetIndex \X Lines
        /\ <<k, i>> \in SetIndex \X Lines
    BY <1>1 DEF Valid
  <2> QED
    BY <2>1, <2>2
<1>5. Cardinality(Valid) \in Nat
  BY ValidFinite, FS_CardinalityType
<1>6. CASE line[k][i] # NoTag
  <2>1. Valid' = Valid
    BY <1>1, <1>4, <1>6 DEF Valid
  <2>2. misses' - evictions' = misses - evictions
    BY <1>1, <1>2, <1>6
  <2> QED
    BY <1>2, <2>1, <2>2 DEF CountersAgree, Valid
<1>7. CASE line[k][i] = NoTag
  <2>1. <<k, i>> \notin Valid
    BY <1>7 DEF Valid
  <2>2. Cardinality(Valid') = Cardinality(Valid) + 1
    BY <1>4, <2>1, ValidFinite, FS_AddElement
  <2>3. misses' - evictions' = misses - evictions + 1
    BY <1>1, <1>2, <1>7
  <2> QED
    BY <1>2, <2>2, <2>3 DEF CountersAgree, Valid
<1> QED
  BY <1>6, <1>7

\* Misses less evictions is the number of blocks in the cache, at all times.
THEOREM CountersMatchContents == Spec => []CountersAgree
<1>1. Init => CountersAgree
  <2> SUFFICES ASSUME Init PROVE CountersAgree
    OBVIOUS
  <2>1. Valid = {}
    BY DEF Init, Valid
  <2> QED
    BY <2>1, FS_EmptySet DEF Init, CountersAgree, Valid
<1>2. IInv /\ CountersAgree /\ [Next]_vars => CountersAgree'
  <2> SUFFICES ASSUME IInv, CountersAgree, [Next]_vars PROVE CountersAgree'
    OBVIOUS
  <2>1. ASSUME NEW addr \in Address, LoadOrStore(addr) \/ Modify(addr) PROVE CountersAgree'
    BY <2>1, AccessCounts DEF LoadOrStore, Modify
  <2>2. ASSUME ModifyAgain PROVE CountersAgree'
    <3>1. again \in Address
      BY <2>2 DEF ModifyAgain, IInv, TypeOK
    <3> QED
      BY <2>2, <3>1, AccessCounts DEF ModifyAgain
  <2>3. CASE UNCHANGED vars
    BY <2>3 DEF vars, CountersAgree
  <2> QED
    BY <2>1, <2>2, <2>3 DEF Next
<1> QED
  BY <1>1, <1>2, InitIInv, NextIInv, PTL DEF Spec
------------------------------------------------------------------------------
(***************************************************************************)
(* The order of a ring.                                                    *)
(***************************************************************************)
\* A walk along the ring: nth is where n steps from the head lead.
Walk(r, nth, n) ==
  /\ nth \in [0 .. n -> Nodes]
  /\ nth[0] = SetHead
  /\ \A m \in 1 .. n : nth[m] = r.next[nth[m - 1]]

LEMMA WalkExists ==
  ASSUME NEW r \in Rings
  PROVE  \E nth : Walk(r, nth, E)
<1> DEFINE S == {n \in 0 .. E : \E nth : Walk(r, nth, n)}
<1>1. SetHead \in Nodes /\ r.next \in [Nodes -> Nodes]
  <2>1. SetHead \in Nodes
    BY Geometry DEF SetHead, Nodes
  <2> QED
    BY <2>1 DEF Rings
<1>2. 0 \in S
  <2>1. Walk(r, [n \in 0 .. 0 |-> SetHead], 0)
    BY <1>1 DEF Walk
  <2> QED
    BY <2>1, Geometry
<1>3. ASSUME NEW n \in 0 .. E - 1, n \in S PROVE n + 1 \in S
  <2>1. PICK nth : Walk(r, nth, n)
    BY <1>3
  <2> DEFINE f == [m \in 0 .. n + 1 |-> IF m = n + 1 THEN r.next[nth[n]] ELSE nth[m]]
  <2>2. \A m \in 0 .. n : f[m] = nth[m] /\ nth[m] \in Nodes
    BY <2>1 DEF Walk
  <2>3. f[n + 1] = r.next[nth[n]] /\ f[n + 1] \in Nodes
    BY <1>1, <2>2
  <2>4. f \in [0 .. n + 1 -> Nodes]
    <3>1. ASSUME NEW m \in 0 .. n + 1 PROVE f[m] \in Nodes
      <4>1. m \in 0 .. n \/ m = n + 1
        OBVIOUS
      <4> HIDE DEF f
      <4> QED
        BY <2>2, <2>3, <4>1
    <3>2. f = [m \in 0 .. n + 1 |-> f[m]]
      OBVIOUS
    <3> HIDE DEF f
    <3> QED
      BY <3>1, <3>2
  <2> HIDE DEF f
  <2>5. ASSUME NEW m \in 1 .. n + 1 PROVE f[m] = r.next[f[m - 1]]
    <3>1. CASE m = n + 1
      BY <2>2, <2>3, <3>1
    <3>2. CASE m # n + 1
      BY <2>1, <2>2, <3>2 DEF Walk
    <3> QED
      BY <3>1, <3>2
  <2>6. Walk(r, f, n + 1)
    BY <2>1, <2>2, <2>4, <2>5 DEF Walk
  <2> QED
    BY <2>6, Geometry
<1> HIDE DEF S
<1>4. E \in S
  BY <1>2, <1>3, UpTo, Geometry
<1> QED
  BY <1>4 DEF S

LEMMA WalkUnique ==
  ASSUME NEW r, NEW f, NEW g, Walk(r, f, E), Walk(r, g, E)
  PROVE  f = g
<1> DEFINE S == {n \in 0 .. E : f[n] = g[n]}
<1>1. 0 \in S
  BY Geometry DEF Walk
<1>2. ASSUME NEW n \in 0 .. E - 1, n \in S PROVE n + 1 \in S
  <2>1. n + 1 \in 1 .. E /\ n + 1 - 1 = n /\ f[n] = g[n]
    BY <1>2, Geometry
  <2>2. f[n + 1] = g[n + 1]
    BY <2>1 DEF Walk
  <2> QED
    BY <2>1, <2>2
<1> HIDE DEF S
<1>3. \A n \in 0 .. E : n \in S
  BY <1>1, <1>2, UpTo, Geometry
<1>4. f = [n \in 0 .. E |-> f[n]] /\ g = [n \in 0 .. E |-> g[n]]
  BY DEF Walk
<1>5. \A n \in 0 .. E : f[n] = g[n]
  BY <1>3 DEF S
<1> QED
  BY <1>4, <1>5

\* Order is the walk of E steps, and the only one.
LEMMA OrderWalks ==
  ASSUME NEW r \in Rings
  PROVE  Walk(r, Order(r), E) /\ \A f : Walk(r, f, E) => f = Order(r)
<1> DEFINE Is(f) == f = [n \in 0 .. E |-> IF n = 0 THEN SetHead ELSE r.next[f[n - 1]]]
<1>1. PICK nth : Walk(r, nth, E)
  BY WalkExists
<1>2. Is(nth)
  <2>1. \A n \in 0 .. E : nth[n] = IF n = 0 THEN SetHead ELSE r.next[nth[n - 1]]
    BY <1>1, Geometry DEF Walk
  <2> QED
    BY <1>1, <2>1 DEF Walk
<1>3. Order(r) = CHOOSE f : Is(f)
  BY DEF Order
<1>4. Is(Order(r))
  <2> HIDE DEF Is
  <2> QED
    BY <1>2, <1>3
<1>5. Walk(r, Order(r), E)
  <2> DEFINE g == Order(r)
             S == {n \in 0 .. E : g[n] = nth[n]}
  <2> HIDE DEF g
  <2>1. \A n \in 0 .. E : g[n] = IF n = 0 THEN SetHead ELSE r.next[g[n - 1]]
    BY <1>4 DEF g
  <2>2. 0 \in S
    BY <1>1, <2>1, Geometry DEF Walk
  <2>3. ASSUME NEW n \in 0 .. E - 1, n \in S PROVE n + 1 \in S
    <3>1. n + 1 \in 1 .. E /\ n + 1 - 1 = n /\ g[n] = nth[n]
      BY <2>3, Geometry
    <3>2. g[n + 1] = r.next[g[n]] /\ nth[n + 1] = r.next[nth[n]]
      BY <1>1, <2>1, <3>1 DEF Walk
    <3> QED
      BY <3>1, <3>2
  <2> HIDE DEF S
  <2>4. \A n \in 0 .. E : n \in S
    BY <2>2, <2>3, UpTo, Geometry
  <2>5. \A n \in 0 .. E : g[n] = nth[n]
    BY <2>4 DEF S
  <2>6. g = [n \in 0 .. E |-> g[n]]
    BY <1>4 DEF g
  <2>7. g = nth
    BY <1>1, <2>5, <2>6 DEF Walk
  <2> QED
    BY <1>1, <2>7 DEF g
<1> QED
  BY <1>5, WalkUnique

\* The walk meets every node once and then comes back to the head.
LEMMA OrderOnce ==
  ASSUME NEW r \in Rings, OneRing(r), NEW nth, Walk(r, nth, E)
  PROVE  /\ \A m, n \in 0 .. E : nth[m] = nth[n] => m = n
         /\ \A i \in Lines : \E m \in 1 .. E : nth[m] = i
         /\ r.next[nth[E]] = SetHead
<1>1. /\ nth \in [0 .. E -> Nodes] /\ nth[0] = SetHead
      /\ \A m \in 1 .. E : nth[m] = r.next[nth[m - 1]]
      /\ r.next \in [Nodes -> Nodes]
  BY DEF Walk, Rings
<1>2. IsFiniteSet(Nodes) /\ Cardinality(Nodes) = E + 1
  BY FS_Interval, Geometry DEF Nodes
<1>3. ASSUME NEW m \in 1 .. E, nth[m] = SetHead PROVE FALSE
  <2> DEFINE I == 0 .. m - 1
             f == [n \in I |-> nth[n]]
             T == {nth[n] : n \in I}
  <2>0. 0 \in I /\ \A n \in I : n \in 0 .. E /\ nth[n] \in Nodes
    <3>1. 0 \in I /\ \A n \in I : n \in 0 .. E
      BY Geometry
    <3>2. \A n \in 0 .. E : nth[n] \in Nodes
      <4> HIDE DEF I
      <4> QED
        BY <1>1
    <3> QED
      BY <3>1, <3>2
  <2>1. SetHead \in T /\ T \in SUBSET Nodes
    BY <1>1, <2>0
  <2>2. ASSUME NEW x \in T PROVE r.next[x] \in T
    <3>1. PICK n \in I : x = nth[n]
      BY <2>2
    <3>2. n + 1 \in 1 .. E /\ n + 1 - 1 = n
      BY <3>1, Geometry
    <3>3. r.next[x] = nth[n + 1]
      BY <1>1, <3>1, <3>2
    <3>4. CASE n + 1 = m
      BY <1>3, <2>1, <3>3, <3>4
    <3>5. CASE n + 1 # m
      <4>1. n + 1 \in I
        BY <3>1, <3>5
      <4> QED
        BY <3>3, <4>1
    <3> QED
      BY <3>4, <3>5
  <2>3. T = Nodes
    <3> HIDE DEF T
    <3> QED
      BY <2>1, <2>2 DEF OneRing
  <2>4. f \in Surjection(I, Nodes)
    <3>1. f \in [I -> Nodes]
      BY <2>0
    <3>2. \A x \in Nodes : \E n \in I : f[n] = x
      BY <2>3
    <3> HIDE DEF f, I
    <3> QED
      BY <3>1, <3>2 DEF Surjection
  <2>5. IsFiniteSet(I) /\ Cardinality(I) = m
    BY FS_Interval, Geometry
  <2> HIDE DEF f, I
  <2>6. Cardinality(Nodes) <= m
    BY <2>4, <2>5, FS_Surjection
  <2> QED
    BY <1>2, <2>6, Geometry
<1>4. ASSUME NEW m \in 0 .. E, NEW n \in 0 .. E, m < n PROVE nth[m] # nth[n]
  <2>1. SUFFICES ASSUME nth[m] = nth[n] PROVE FALSE
    OBVIOUS
  <2> DEFINE S == {d \in 0 .. m : nth[m - d] = nth[n - d]}
  <2>2. 0 \in S
    BY <2>1
  <2>3. ASSUME NEW d \in 0 .. m - 1, d \in S PROVE d + 1 \in S
    <3>1. /\ m - d \in 1 .. E /\ n - d \in 1 .. E
          /\ m - d - 1 = m - (d + 1) /\ n - d - 1 = n - (d + 1)
          /\ m - (d + 1) \in 0 .. E /\ n - (d + 1) \in 0 .. E
      BY <1>4, Geometry
    <3>2. r.next[nth[m - (d + 1)]] = r.next[nth[n - (d + 1)]]
      BY <1>1, <2>3, <3>1
    <3>3. nth[m - (d + 1)] = nth[n - (d + 1)]
      BY <1>1, <3>1, <3>2 DEF OneRing
    <3> QED
      BY <3>3
  <2> HIDE DEF S
  <2>4. m \in S
    BY <2>2, <2>3, UpTo
  <2>5. m - m = 0 /\ n - m \in 1 .. E
    BY <1>4, Geometry
  <2> QED
    BY <1>1, <1>3, <2>4, <2>5 DEF S
<1>5. \A m, n \in 0 .. E : nth[m] = nth[n] => m = n
  <2>1. ASSUME NEW m \in 0 .. E, NEW n \in 0 .. E, m # n PROVE m < n \/ n < m
    BY <2>1, Geometry
  <2> QED
    BY <1>4, <2>1
<1>6. \A x \in Nodes : \E m \in 0 .. E : nth[m] = x
  <2>1. nth \in Injection(0 .. E, Nodes)
    <3> DEFINE I == 0 .. E
    <3>1. nth \in [I -> Nodes] /\ \A m, n \in I : nth[m] = nth[n] => m = n
      BY <1>1, <1>5
    <3> HIDE DEF I
    <3>2. nth \in Injection(I, Nodes)
      BY <3>1 DEF Injection, IsInjective
    <3> QED
      BY <3>2 DEF I
  <2>2. Cardinality(0 .. E) = E + 1
    BY FS_Interval, Geometry
  <2>3. nth \in Surjection(0 .. E, Nodes)
    BY <1>2, <2>1, <2>2, FS_Injection
  <2> QED
    BY <2>3 DEF Surjection
<1>7. \A i \in Lines : \E m \in 1 .. E : nth[m] = i
  <2>1. \A i \in Lines : i \in Nodes /\ i # SetHead
    BY Geometry DEF Lines, Nodes, SetHead
  <2> QED
    BY <1>1, <1>6, <2>1
<1>8. r.next[nth[E]] = SetHead
  <2>1. nth[E] \in Nodes /\ r.next[nth[E]] \in Nodes
    BY <1>1, Geometry
  <2>2. PICK j \in 0 .. E : nth[j] = r.next[nth[E]]
    BY <1>6, <2>1
  <2>3. ASSUME j # 0 PROVE FALSE
    <3>1. j \in 1 .. E /\ j - 1 \in 0 .. E /\ E \in 0 .. E /\ j - 1 # E
      BY <2>3, Geometry
    <3>2. nth[j] = r.next[nth[j - 1]] /\ nth[j - 1] \in Nodes
      BY <1>1, <3>1
    <3>3. nth[j - 1] = nth[E]
      BY <2>1, <2>2, <3>2 DEF OneRing
    <3> QED
      BY <1>5, <3>1, <3>3
  <2> QED
    BY <1>1, <2>2, <2>3
<1> QED
  BY <1>5, <1>7, <1>8

\* A line moved to the tail comes last, the others as they came before.
LEMMA MovedOrder ==
  ASSUME NEW r \in Rings, OneRing(r), NEW i \in Lines,
         r.next[r.prev[i]] = i, r.next[r.prev[SetHead]] = SetHead,
         MoveToTail(r, i) \in Rings, NEW m \in 1 .. E, Order(r)[m] = i
  PROVE  \A n \in 1 .. E :
           Order(MoveToTail(r, i))[n] =
             IF n < m THEN Order(r)[n] ELSE IF n < E THEN Order(r)[n + 1] ELSE i
<1> DEFINE nth == Order(r)
           q == MoveToTail(r, i)
           p == r.prev[i]
           x == r.next[i]
           t == r.prev[SetHead]
           g == [n \in 0 .. E |-> IF n < m THEN nth[n] ELSE IF n < E THEN nth[n + 1] ELSE i]
<1>0. E \in Nat \ {0}
  BY Geometry
<1>1. Walk(r, nth, E)
  BY OrderWalks
<1>2. /\ \A k, n \in 0 .. E : nth[k] = nth[n] => k = n
      /\ r.next[nth[E]] = SetHead
  BY <1>1, OrderOnce
<1>3. /\ nth \in [0 .. E -> Nodes] /\ nth[0] = SetHead
      /\ \A n \in 1 .. E : nth[n] = r.next[nth[n - 1]]
  BY <1>1 DEF Walk
<1>4. /\ p \in Nodes /\ x \in Nodes /\ t \in Nodes /\ p # i /\ x # i
      /\ \/ x = SetHead /\ t = i /\ q.next = r.next
         \/ /\ x # SetHead /\ t # i /\ t # p
            /\ q.next[p] = x /\ q.next[i] = SetHead /\ q.next[t] = i
            /\ \A n \in Nodes : n \notin {p, i, t} => q.next[n] = r.next[n]
  BY MovedLinks
<1>5. \A a, c \in Nodes : r.next[a] = r.next[c] => a = c
  BY DEF OneRing
<1>6. nth[m - 1] = p /\ nth[E] = t
  <2>1. m - 1 \in 0 .. E /\ E \in 0 .. E
    BY <1>0
  <2>2. nth[m - 1] \in Nodes /\ nth[E] \in Nodes
    BY <1>3, <2>1
  <2>3. r.next[nth[m - 1]] = i
    BY <1>3
  <2> QED
    BY <1>2, <1>4, <1>5, <2>2, <2>3
<1>7. m < E => nth[m + 1] = x
  <2>1. ASSUME m < E PROVE m + 1 \in 1 .. E /\ m + 1 - 1 = m
    BY <1>0, <2>1
  <2> QED
    BY <1>3, <2>1
<1>8. m = E => x = SetHead
  BY <1>2
<1>9. g \in [0 .. E -> Nodes] /\ g[0] = SetHead
  <2>1. ASSUME NEW n \in 0 .. E
        PROVE  (IF n < m THEN nth[n] ELSE IF n < E THEN nth[n + 1] ELSE i) \in Nodes
    <3>1. n < E => n + 1 \in 0 .. E
      BY <1>0
    <3>2. i \in Nodes
      BY <1>0 DEF Lines, Nodes
    <3> QED
      BY <1>3, <3>1, <3>2
  <2>2. 0 \in 0 .. E /\ 0 < m
    BY <1>0
  <2> QED
    BY <1>3, <2>1, <2>2
<1> HIDE DEF q, p, x, t
<1>10. ASSUME NEW n \in 1 .. E PROVE g[n] = q.next[g[n - 1]]
  <2>1. /\ n - 1 \in 0 .. E /\ n \in 0 .. E /\ m \in 0 .. E /\ m - 1 \in 0 .. E /\ E \in 0 .. E
        /\ n - 1 + 1 = n
    BY <1>0
  <2>2. /\ g[n - 1] = IF n - 1 < m THEN nth[n - 1] ELSE nth[n]
        /\ g[n] = IF n < m THEN nth[n] ELSE IF n < E THEN nth[n + 1] ELSE i
    BY <1>0, <2>1
  <2> HIDE DEF g
  <2>3. ASSUME NEW k \in 0 .. E
        PROVE  /\ nth[k] \in Nodes
               /\ nth[k] = p => k = m - 1
               /\ nth[k] = i => k = m
               /\ nth[k] = t => k = E
    BY <1>2, <1>3, <1>6, <2>1, <2>3
  <2>4. x = SetHead => m = E
    <3>1. ASSUME m < E PROVE m + 1 \in 0 .. E /\ m + 1 # 0 /\ 0 \in 0 .. E
      BY <1>0, <3>1
    <3>2. ASSUME m < E PROVE x # SetHead
      BY <1>2, <1>3, <1>7, <3>1, <3>2
    <3> QED
      BY <1>0, <3>2
  <2>5. CASE n < m
    <3>1. nth[n] = r.next[nth[n - 1]] /\ g[n] = nth[n] /\ g[n - 1] = nth[n - 1]
      BY <1>3, <2>2, <2>5, <1>0
    <3>2. nth[n - 1] \notin {p, i, t}
      BY <1>0, <2>1, <2>3, <2>5
    <3>3. q.next[nth[n - 1]] = r.next[nth[n - 1]]
      BY <1>4, <2>1, <2>3, <3>2
    <3> QED
      BY <3>1, <3>3
  <2>6. CASE n = m /\ m < E
    <3>1. g[n] = x /\ g[n - 1] = p
      BY <1>0, <1>6, <1>7, <2>2, <2>6
    <3> QED
      BY <1>0, <1>4, <2>4, <2>6, <3>1
  <2>7. CASE n = m /\ m = E
    <3>1. g[n] = i /\ g[n - 1] = p /\ r.next[p] = i /\ q.next = r.next
      BY <1>0, <1>4, <1>6, <1>8, <2>2, <2>7 DEF p
    <3> QED
      BY <3>1
  <2>8. CASE m < n /\ n < E
    <3>1. g[n] = nth[n + 1] /\ g[n - 1] = nth[n] /\ n + 1 \in 1 .. E /\ n + 1 - 1 = n
      BY <1>0, <2>2, <2>8
    <3>2. nth[n] \notin {p, i, t}
      BY <1>0, <2>1, <2>3, <2>8
    <3>3. q.next[nth[n]] = r.next[nth[n]]
      BY <1>0, <1>4, <2>1, <2>3, <2>4, <2>8, <3>2
    <3>4. nth[n + 1] = r.next[nth[n]]
      BY <1>3, <3>1
    <3> QED
      BY <3>1, <3>3, <3>4
  <2>9. CASE m < n /\ n = E
    <3>1. g[n] = i /\ g[n - 1] = t
      BY <1>0, <1>6, <2>2, <2>9
    <3> QED
      BY <1>0, <1>4, <2>4, <2>9, <3>1
  <2> QED
    BY <1>0, <2>5, <2>6, <2>7, <2>8, <2>9
<1>11. Walk(q, g, E)
  <2> HIDE DEF g
  <2> QED
    BY <1>9, <1>10 DEF Walk
<1>12. g = Order(q)
  <2> HIDE DEF g
  <2> QED
    BY <1>11, OrderWalks DEF q
<1> HIDE DEF nth
<1> QED
  <2>1. \A n \in 1 .. E : n \in 0 .. E
    BY <1>0
  <2>2. \A n \in 1 .. E :
          g[n] = IF n < m THEN nth[n] ELSE IF n < E THEN nth[n + 1] ELSE i
    BY <2>1
  <2> QED
    BY <1>12, <2>2 DEF q, nth

------------------------------------------------------------------------------
(***************************************************************************)
(* The blocks of an address.                                               *)
(***************************************************************************)
\* The subsets of m + n numbers are the pairs of a subset of the first m and
\* one of the rest.
LEMMA PowerSum ==
  ASSUME NEW m \in Nat, NEW n \in Nat
  PROVE  2^(m + n) = 2^m * 2^n
<1> DEFINE A == 1 .. m
           B == m + 1 .. m + n
           P == (SUBSET A) \X (SUBSET B)
           W == SUBSET (A \union B)
           f == [T \in W |-> <<T \cap A, T \cap B>>]
<1>1. A \union B = 1 .. m + n /\ A \cap B = {}
  OBVIOUS
<1>2. /\ IsFiniteSet(A) /\ Cardinality(A) = m
      /\ IsFiniteSet(B) /\ Cardinality(B) = n
      /\ IsFiniteSet(A \union B) /\ Cardinality(A \union B) = m + n
  <2>1. IsFiniteSet(B) /\ Cardinality(B) = n
    <3>1. IsFiniteSet(B) /\ Cardinality(B) = IF m + 1 > m + n THEN 0 ELSE m + n - (m + 1) + 1
      BY FS_Interval
    <3> QED
      BY <3>1
  <2>2. \A k \in Nat : IsFiniteSet(1 .. k) /\ Cardinality(1 .. k) = k
    BY FS_Interval
  <2>3. m + n \in Nat
    OBVIOUS
  <2> QED
    BY <1>1, <2>1, <2>2, <2>3
<1> HIDE DEF A, B
<1>3. IsFiniteSet(SUBSET A) /\ IsFiniteSet(SUBSET B) /\ IsFiniteSet(W)
      /\ Cardinality(SUBSET A) = 2^m /\ Cardinality(SUBSET B) = 2^n
      /\ Cardinality(W) = 2^(m + n)
  BY <1>2, FS_SUBSET
<1>4. IsFiniteSet(P) /\ Cardinality(P) = 2^m * 2^n
  BY ZenonT(60), <1>3, FS_Product
<1>5. f \in [W -> P]
  OBVIOUS
<1>6. \A T, U \in W : f[T] = f[U] => T = U
  <2>1. ASSUME NEW T \in W, NEW U \in W, f[T] = f[U] PROVE T = U
    <3>1. T \cap A = U \cap A /\ T \cap B = U \cap B
      BY <2>1
    <3> QED
      BY <3>1
  <2> QED
    BY <2>1
<1>7. \A y \in P : \E T \in W : f[T] = y
  <2>1. ASSUME NEW y \in P PROVE \E T \in W : f[T] = y
    <3>1. y[1] \in SUBSET A /\ y[2] \in SUBSET B /\ y = <<y[1], y[2]>>
      OBVIOUS
    <3>2. (y[1] \union y[2]) \in W /\ (y[1] \union y[2]) \cap A = y[1]
          /\ (y[1] \union y[2]) \cap B = y[2]
      BY <1>1, <3>1 DEF A, B
    <3>3. f[y[1] \union y[2]] = <<(y[1] \union y[2]) \cap A, (y[1] \union y[2]) \cap B>>
      BY <3>2
    <3> QED
      BY <3>1, <3>2, <3>3
  <2> QED
    BY <2>1
<1> HIDE DEF f, W, P
<1>8. f \in Injection(W, P) /\ f \in Surjection(W, P)
  BY <1>5, <1>6, <1>7 DEF Injection, IsInjective, Surjection
<1>9. Cardinality(P) = Cardinality(W)
  BY <1>3, <1>8, FS_Surjection
<1> QED
  BY <1>3, <1>4, <1>9

\* Dividing twice is dividing once by the product.
LEMMA DivTwice ==
  ASSUME NEW a \in Nat, NEW x \in Nat \ {0}, NEW y \in Nat \ {0}
  PROVE  /\ (a \div x) \div y = a \div (y * x)
         /\ a \div x = (a \div (y * x)) * y + ((a \div x) % y)
<1> DEFINE q == a \div x
           t == q \div y
           k == q % y
           z == a % x
<1>1. q \in Nat /\ z \in 0 .. x - 1 /\ a = q * x + z
  OBVIOUS
<1> HIDE DEF q, z
<1>2. t \in Nat /\ k \in 0 .. y - 1 /\ q = t * y + k
  BY <1>1
<1> HIDE DEF t, k
<1>3. y * x \in Nat \ {0}
  OBVIOUS
<1>4. a = t * (y * x) + (k * x + z)
  BY <1>1, <1>2
<1>5. k * x + z \in 0 .. y * x - 1
  <2>1. k * x <= (y - 1) * x /\ k * x \in Nat
    BY <1>2
  <2>2. (y - 1) * x = y * x - x
    OBVIOUS
  <2> QED
    BY <1>1, <1>3, <2>1, <2>2
<1>6. a \div (y * x) = t
  <2>1. ASSUME NEW M \in Nat \ {0}, NEW w \in 0 .. M - 1, a = t * M + w PROVE a \div M = t
    BY <1>2, <2>1
  <2> QED
    BY <1>3, <1>4, <1>5, <2>1
<1>7. q \div y = a \div (y * x)
  BY <1>6 DEF t
<1>8. q = (a \div (y * x)) * y + (q % y)
  BY <1>2, <1>6 DEF k
<1> QED
  BY <1>7, <1>8 DEF q

\* The block of an address is its tag followed by its set index.
LEMMA BlockParts ==
  ASSUME NEW addr \in Address
  PROVE  /\ addr \div 2^b \in Nat
         /\ (addr \div 2^b) % 2^s = addr_set(addr)
         /\ addr \div 2^b = addr_tag(addr) * 2^s + addr_set(addr)
<1>1. addr \in Nat /\ 2^b \in Nat \ {0} /\ 2^s \in Nat \ {0} /\ 2^(s + b) = 2^s * 2^b
  BY PowerPositive, PowerSum, Geometry, AddressAssumption
<1>2. addr \div 2^b \in Nat
  BY <1>1
<1>3. ASSUME NEW x \in Nat \ {0}, NEW y \in Nat \ {0}
      PROVE  addr \div x = (addr \div (y * x)) * y + ((addr \div x) % y)
  BY ZenonT(60), <1>1, <1>3, DivTwice
<1>4. addr \div 2^b = (addr \div (2^s * 2^b)) * 2^s + ((addr \div 2^b) % 2^s)
  BY <1>1, <1>3
<1> QED
  BY <1>1, <1>2, <1>4 DEF addr_set, addr_tag

LEMMA TagsNat == Tags \subseteq Nat
<1>1. \A addr \in Address : addr \in Nat /\ 2^(s + b) \in Nat \ {0}
  BY PowerPositive, Geometry, AddressAssumption
<1>2. \A addr \in Address : addr \div 2^(s + b) \in Nat
  BY <1>1
<1> QED
  BY <1>2 DEF Tags, addr_tag

\* Two tags make the same block of a set only if they are the same.
LEMMA BlockInjective ==
  ASSUME NEW t \in Nat, NEW u \in Nat, NEW k \in Nat, t * 2^s + k = u * 2^s + k
  PROVE  t = u
<1>1. 2^s \in Nat \ {0}
  BY PowerPositive, Geometry
<1>2. ASSUME NEW x \in Nat \ {0}, t * x = u * x PROVE t = u
  BY <1>2
<1>3. t * 2^s \in Nat /\ u * 2^s \in Nat
  BY <1>1
<1> QED
  BY <1>1, <1>2, <1>3

------------------------------------------------------------------------------
(***************************************************************************)
(* The simulator counts what an LRU cache counts.                          *)
(***************************************************************************)
LEMMA RemoveAtIs ==
  ASSUME NEW S, NEW q \in Seq(S), NEW j \in 1 .. Len(q)
  PROVE  /\ L!RemoveAt(q, j) \in Seq(S)
         /\ Len(L!RemoveAt(q, j)) = Len(q) - 1
         /\ \A n \in 1 .. Len(q) - 1 :
              L!RemoveAt(q, j)[n] = IF n < j THEN q[n] ELSE q[n + 1]
<1>1. Len(q) \in Nat /\ \A n \in 1 .. Len(q) : q[n] \in S
  BY LenProperties, ElementOfSeq
<1> DEFINE u == SubSeq(q, 1, j - 1)
           w == SubSeq(q, j + 1, Len(q))
<1>2. u \in Seq(S) /\ Len(u) = j - 1 /\ \A n \in 1 .. j - 1 : u[n] = q[n]
  <2>1. 1 \in Int /\ j - 1 \in Int /\ \A n \in 1 .. j - 1 : q[n] \in S
    BY <1>1
  <2>2. /\ u \in Seq(S) /\ Len(u) = IF 1 <= j - 1 THEN j - 1 - 1 + 1 ELSE 0
        /\ \A n \in 1 .. j - 1 - 1 + 1 : u[n] = q[1 + n - 1]
    BY <2>1, SubSeqProperties
  <2> HIDE DEF u
  <2> QED
    BY <1>1, <2>2
<1>3. /\ w \in Seq(S) /\ Len(w) = Len(q) - j
      /\ \A n \in 1 .. Len(q) - j : w[n] = q[j + n]
  <2>1. j + 1 \in Int /\ Len(q) \in Int /\ \A n \in j + 1 .. Len(q) : q[n] \in S
    BY <1>1
  <2>2. /\ w \in Seq(S)
        /\ Len(w) = IF j + 1 <= Len(q) THEN Len(q) - (j + 1) + 1 ELSE 0
        /\ \A n \in 1 .. Len(q) - (j + 1) + 1 : w[n] = q[j + 1 + n - 1]
    BY <2>1, SubSeqProperties
  <2> HIDE DEF w
  <2>3. Len(q) - (j + 1) + 1 = Len(q) - j
    BY <1>1
  <2>4. Len(w) = Len(q) - j
    BY <1>1, <2>2
  <2>5. ASSUME NEW n \in 1 .. Len(q) - j PROVE w[n] = q[j + n]
    <3>1. n \in 1 .. Len(q) - (j + 1) + 1 /\ j + 1 + n - 1 = j + n
      BY <1>1, <2>3
    <3>2. w[n] = q[j + 1 + n - 1]
      BY <2>2, <3>1
    <3> QED
      BY <3>1, <3>2
  <2> QED
    BY <2>2, <2>4, <2>5
<1>4. L!RemoveAt(q, j) = u \o w
  BY DEF L!RemoveAt
<1> HIDE DEF u, w
<1>5. /\ u \o w \in Seq(S) /\ Len(u \o w) = Len(u) + Len(w)
      /\ \A n \in 1 .. Len(u) + Len(w) :
           (u \o w)[n] = IF n <= Len(u) THEN u[n] ELSE w[n - Len(u)]
  BY <1>2, <1>3, ConcatProperties
<1>6. ASSUME NEW n \in 1 .. Len(q) - 1
      PROVE  (u \o w)[n] = IF n < j THEN q[n] ELSE q[n + 1]
  <2>1. CASE n < j
    <3>1. n \in 1 .. j - 1 /\ n \in 1 .. Len(u) + Len(w) /\ n <= Len(u)
      BY <1>1, <1>2, <1>3, <2>1
    <3> QED
      BY <1>2, <1>5, <2>1, <3>1
  <2>2. CASE ~(n < j)
    <3>1. /\ n \in 1 .. Len(u) + Len(w) /\ ~(n <= Len(u))
          /\ n - (j - 1) \in 1 .. Len(q) - j /\ j + (n - (j - 1)) = n + 1
      BY <1>1, <1>2, <1>3, <2>2
    <3> QED
      BY <1>2, <1>3, <1>5, <2>2, <3>1
  <2> QED
    BY <2>1, <2>2
<1>7. Len(u \o w) = Len(q) - 1
  BY <1>1, <1>2, <1>3, <1>5
<1> QED
  BY <1>4, <1>5, <1>6, <1>7

LEMMA AppendIs ==
  ASSUME NEW S, NEW q \in Seq(S), NEW e \in S, NEW w \in Seq(S),
         Len(w) = Len(q) + 1, \A n \in 1 .. Len(q) : w[n] = q[n], w[Len(q) + 1] = e
  PROVE  w = Append(q, e)
<1>1. Append(q, e) \in Seq(S) /\ Len(Append(q, e)) = Len(q) + 1
  OBVIOUS
<1>2. \A n \in 1 .. Len(q) + 1 : Append(q, e)[n] = IF n = Len(q) + 1 THEN e ELSE q[n]
  OBVIOUS
<1>3. Len(q) \in Nat
  OBVIOUS
<1>4. \A n \in 1 .. Len(q) + 1 : n = Len(q) + 1 \/ n \in 1 .. Len(q)
  BY <1>3
<1>5. \A n \in 1 .. Len(w) : w[n] = Append(q, e)[n]
  BY <1>2, <1>3, <1>4
<1> QED
  BY <1>1, <1>5, SeqEqual

\* A sequence whose first place has been moved to the end, with element e.
LEMMA ShiftedIs ==
  ASSUME NEW S, NEW q \in Seq(S), NEW w \in Seq(S), Len(w) = Len(q), 1 <= Len(q),
         NEW e \in S, w[Len(q)] = e,
         \A n \in 1 .. Len(q) - 1 : w[n] = q[n + 1]
  PROVE  w = Append(Tail(q), e)
<1> DEFINE R == Tail(q)
<1>1. R \in Seq(S) /\ Len(R) = Len(q) - 1 /\ \A n \in 1 .. Len(R) : R[n] = q[n + 1]
  <2>1. q # << >>
    BY EmptySeq
  <2> QED
    BY <2>1, HeadTailProperties
<1> HIDE DEF R
<1>2. Len(q) \in Nat /\ Len(w) = Len(R) + 1 /\ Len(R) + 1 = Len(q)
  BY <1>1, LenProperties
<1>3. \A n \in 1 .. Len(R) : w[n] = R[n]
  BY <1>1
<1>4. w = Append(R, e)
  BY <1>1, <1>2, <1>3, AppendIs
<1> QED
  BY <1>4 DEF R

\* The lines of a set that are not valid come first in its ring.
FreeFirst ==
  \A k \in SetIndex : \A n \in 1 .. E :
    line[k][Order(ring[k])[n]] = NoTag <=> n <= Cardinality(Free(k))

LEMMA FreeType ==
  ASSUME NEW k
  PROVE  IsFiniteSet(Free(k)) /\ Cardinality(Free(k)) \in 0 .. E
<1>1. IsFiniteSet(Lines) /\ Cardinality(Lines) = E /\ Free(k) \in SUBSET Lines
  BY FS_Interval, Geometry DEF Lines, Free
<1>2. IsFiniteSet(Free(k)) /\ Cardinality(Free(k)) <= E
  BY <1>1, FS_Subset
<1> QED
  BY <1>2, FS_CardinalityType, Geometry

\* The lines of a set in the order of its ring.
LEMMA OrderLines ==
  ASSUME NEW r \in Rings, OneRing(r)
  PROVE  /\ \A n \in 1 .. E : Order(r)[n] \in Lines
         /\ \A m, n \in 1 .. E : Order(r)[m] = Order(r)[n] => m = n
         /\ \A i \in Lines : \E m \in 1 .. E : Order(r)[m] = i
         /\ Order(r)[1] = r.next[SetHead]
<1> DEFINE nth == Order(r)
<1>1. Walk(r, nth, E)
  BY OrderWalks
<1>2. /\ nth \in [0 .. E -> Nodes] /\ nth[0] = SetHead
      /\ \A m \in 1 .. E : nth[m] = r.next[nth[m - 1]]
  BY <1>1 DEF Walk
<1>3. /\ \A m, n \in 0 .. E : nth[m] = nth[n] => m = n
      /\ \A i \in Lines : \E m \in 1 .. E : nth[m] = i
  BY <1>1, OrderOnce
<1> HIDE DEF nth
<1>4. /\ 0 \in 0 .. E /\ \A n \in 1 .. E : n \in 0 .. E /\ n # 0
      /\ Nodes = Lines \union {SetHead}
  BY Geometry DEF Nodes, Lines, SetHead
<1>5. \A n \in 1 .. E : nth[n] \in Lines
  BY <1>2, <1>3, <1>4
<1>6. nth[1] = r.next[SetHead]
  <2>1. 1 \in 1 .. E /\ 1 - 1 = 0
    BY Geometry
  <2> QED
    BY <1>2, <2>1
<1> QED
  BY <1>3, <1>4, <1>5, <1>6 DEF nth

LEMMA SeqIs ==
  ASSUME NEW S, NEW n \in Nat, NEW w, w = [j \in 1 .. n |-> w[j]],
         \A j \in 1 .. n : w[j] \in S
  PROVE  w \in Seq(S) /\ Len(w) = n
<1>1. w \in [1 .. n -> S]
  OBVIOUS
<1> QED
  BY <1>1

\* The blocks of a set with ring r and lines ln, c of them free, are numbers.
LEMMA BlocksType ==
  ASSUME NEW r \in Rings, OneRing(r), NEW ln \in [Lines -> Tags \union {NoTag}],
         NEW k \in SetIndex, NEW c \in 0 .. E,
         \A n \in 1 .. E : ln[Order(r)[n]] = NoTag <=> n <= c
  PROVE  E - c \in Nat /\ \A n \in 1 .. E - c : ln[Order(r)[c + n]] * 2^s + k \in Nat
<1>1. E \in Nat /\ 2^s \in Nat /\ k \in Nat
  BY PowerPositive, Geometry DEF SetIndex
<1>2. ASSUME NEW n \in 1 .. E - c
      PROVE  ln[Order(r)[c + n]] * 2^s + k \in Nat
  <2>1. c + n \in 1 .. E /\ ~(c + n <= c)
    BY <1>1
  <2>2. Order(r)[c + n] \in Lines
    BY <2>1, OrderLines
  <2>3. ln[Order(r)[c + n]] \in Nat
    BY <2>1, <2>2, TagsNat
  <2>4. \A x, y, z \in Nat : x * y + z \in Nat
    OBVIOUS
  <2> QED
    BY <1>1, <2>3, <2>4
<1>3. E - c \in Nat
  BY <1>1
<1> QED
  BY <1>2, <1>3

LEMMA LRUAccess ==
  ASSUME NEW addr, NEW x, x = L!Block(addr), NEW j, j = x % 2^s,
         L!Hit(j, x) \/ L!Fill(j, x) \/ L!Replace(j, x)
  PROVE  L!Access(addr)
  BY DEF L!Access

\* An access keeps the free lines first, and uses its block as an LRU cache does.
LEMMA AccessMaps ==
  ASSUME IInv, FreeFirst, NEW addr \in Address, cache_access(addr), IInv',
         NEW k, k = addr_set(addr), NEW tag, tag = addr_tag(addr),
         NEW blk, blk = addr \div 2^b
  PROVE  FreeFirst' /\ L!Access(addr)
<1> DEFINE c == Cardinality(Free(k))
           B == Blocks(k)
           nth == Order(ring[k])
           g == Order(ring'[k])
           recent == [l \in SetIndex |-> Blocks(l)]
<1>0. E \in Nat \ {0}
  BY Geometry
<1>1. PICK i \in Lines :
           /\ k \in SetIndex /\ tag \in Tags /\ tag # NoTag
           /\ ring' = [ring EXCEPT ![k] = MoveToTail(ring[k], i)]
           /\ line' = [line EXCEPT ![k][i] = tag]
           /\ \A j \in Lines : line[k][j] = tag => j = i
           /\ ring[k].next[ring[k].prev[i]] = i
           /\ \/ /\ line[k][i] = tag /\ hits' = hits + 1
                 /\ UNCHANGED <<misses, evictions>>
              \/ /\ Holding(k, tag) = {} /\ i = ring[k].next[SetHead]
                 /\ misses' = misses + 1 /\ UNCHANGED hits
                 /\ evictions' = evictions + IF line[k][i] # NoTag THEN 1 ELSE 0
  BY AccessEffect
<1>2. /\ blk \in Nat /\ blk % 2^s = k /\ blk = tag * 2^s + k
      /\ k \in Nat /\ tag \in Nat
  <2>1. 2^s \in Nat
    BY PowerPositive, Geometry
  <2> QED
    BY <1>1, <2>1, TagsNat, BlockParts DEF SetIndex
<1>3. /\ line \in [SetIndex -> [Lines -> Tags \union {NoTag}]]
      /\ ring \in [SetIndex -> Rings] /\ ring' \in [SetIndex -> Rings]
      /\ GoodRing(ring[k], line[k][0]) /\ GoodRing(ring'[k], line'[k][0])
  <2>1. TypeOK /\ TypeOK' /\ RingIntact /\ RingIntact'
    BY DEF IInv
  <2>2. RingIntact' <=> \A l \in SetIndex : GoodRing(ring'[l], line'[l][0])
    BY <2>1 DEF TypeOK, RingIntact, GoodRing
  <2> QED
    BY <1>1, <2>1, <2>2, Rings_Good DEF TypeOK
<1>4. /\ line[k] \in [Lines -> Tags \union {NoTag}] /\ line'[k] \in [Lines -> Tags \union {NoTag}]
       /\ ring[k] \in Rings /\ ring'[k] \in Rings
       /\ OneRing(ring[k]) /\ OneRing(ring'[k])
  BY <1>1, <1>3 DEF GoodRing
<1>5. /\ \A l \in SetIndex : l # k => line'[l] = line[l] /\ ring'[l] = ring[l]
      /\ \A j \in Lines : line'[k][j] = IF j = i THEN tag ELSE line[k][j]
      /\ ring'[k] = MoveToTail(ring[k], i)
  BY <1>1, <1>3
<1>6. /\ \A n \in 1 .. E : nth[n] \in Lines
      /\ \A m, n \in 1 .. E : nth[m] = nth[n] => m = n
      /\ nth[1] = ring[k].next[SetHead]
      /\ \E m \in 1 .. E : nth[m] = i
  BY <1>1, <1>3, OrderLines DEF GoodRing
<1>7. PICK m \in 1 .. E : nth[m] = i
  BY <1>6
<1>8. \A n \in 1 .. E : g[n] = IF n < m THEN nth[n] ELSE IF n < E THEN nth[n + 1] ELSE i
  <2>1. ring[k].next[ring[k].prev[SetHead]] = SetHead
    <3>1. SetHead \in Nodes /\ SetHead # 0
      BY <1>0 DEF SetHead, Nodes
    <3> QED
      BY <1>3, <3>1 DEF GoodRing
  <2>2. ring[k] \in Rings /\ OneRing(ring[k]) /\ MoveToTail(ring[k], i) \in Rings
    BY <1>1, <1>3, <1>5 DEF GoodRing
  <2> QED
    BY <1>1, <1>5, <1>7, <2>1, <2>2, MovedOrder
<1>9. c \in 0 .. E /\ IsFiniteSet(Free(k))
  BY FreeType
<1>10. \A n \in 1 .. E : line[k][nth[n]] = NoTag <=> n <= c
  BY <1>1 DEF FreeFirst
<1>11. B \in Seq(Nat) /\ Len(B) = E - c
       /\ \A n \in 1 .. E - c : B[n] = line[k][nth[c + n]] * 2^s + k
  <2>1. /\ B = [n \in 1 .. E - c |-> B[n]]
        /\ \A n \in 1 .. E - c : B[n] = line[k][nth[c + n]] * 2^s + k
    BY DEF Blocks
  <2> HIDE DEF B, c
  <2>2. E - c \in Nat /\ \A n \in 1 .. E - c : line[k][nth[c + n]] * 2^s + k \in Nat
    BY <1>1, <1>9, <1>10, <1>4, BlocksType
  <2> QED
    BY <2>1, <2>2, SeqIs
<1>12. \A l \in SetIndex : l # k => Free(l)' = Free(l) /\ Blocks(l)' = Blocks(l)
  BY ZenonT(60), <1>5 DEF Free, Blocks
<1> HIDE DEF nth, c, B
<1> DEFINE c2 == Cardinality(Free(k))'
           B2 == Blocks(k)'
<1>13. c2 = IF line[k][i] = NoTag THEN c - 1 ELSE c
  <2>1. Free(k)' = Free(k) \ {i}
    BY <1>1, <1>5 DEF Free
  <2>2. i \in Free(k) <=> line[k][i] = NoTag
    BY DEF Free
  <2> QED
    BY ZenonT(60), <1>9, <2>1, <2>2, FS_RemoveElement DEF c
<1>14. line[k][i] = NoTag <=> m <= c
  BY <1>7, <1>10
<1>15. (Holding(k, tag) = {}) => m = 1
  BY <1>0, <1>1, <1>6, <1>7 DEF Holding
<1>16. (Holding(k, tag) # {}) => line[k][i] = tag
  BY <1>1 DEF Holding
<1> HIDE DEF c2, g
<1>17. \A n \in 1 .. E : line'[k][g[n]] = NoTag <=> n <= c2
  <2>1. SUFFICES ASSUME NEW n \in 1 .. E PROVE line'[k][g[n]] = NoTag <=> n <= c2
    OBVIOUS
  <2>2. CASE n < m
    <3>1. g[n] = nth[n] /\ nth[n] \in Lines /\ nth[n] # i
      BY <1>6, <1>7, <1>8, <2>2
    <3>2. line'[k][g[n]] = line[k][nth[n]]
      BY <1>5, <3>1
    <3>3. m # 1 /\ line[k][i] # NoTag
      BY <1>1, <1>15, <1>16, <2>2
    <3> QED
      BY <1>10, <1>13, <3>2, <3>3
  <2>3. CASE ~(n < m) /\ n < E
    <3>1. n + 1 \in 1 .. E /\ n + 1 # m
      BY <1>0, <2>3
    <3>2. g[n] = nth[n + 1] /\ nth[n + 1] \in Lines /\ nth[n + 1] # i
      BY <1>6, <1>7, <1>8, <2>3, <3>1
    <3>3. line'[k][g[n]] = line[k][nth[n + 1]]
      BY <1>5, <3>2
    <3>4. line'[k][g[n]] = NoTag <=> n + 1 <= c
      BY <1>10, <3>1, <3>3
    <3>5. CASE m <= c
      BY <1>9, <1>13, <1>14, <3>4, <3>5
    <3>6. CASE ~(m <= c)
      <4>1. c2 = c /\ ~(n <= c) /\ ~(n + 1 <= c)
        BY <1>9, <1>13, <1>14, <2>3, <3>6
      <4> QED
        BY <3>4, <4>1
    <3> QED
      BY <3>5, <3>6
  <2>4. CASE ~(n < m) /\ ~(n < E)
    <3>1. g[n] = i /\ n = E
      BY <1>0, <1>8, <2>4
    <3>2. line'[k][g[n]] # NoTag
      BY <1>1, <1>5, <3>1
    <3>3. ~(E <= c2)
      BY <1>0, <1>9, <1>13, <1>14
    <3> QED
      BY <3>1, <3>2, <3>3
  <2> QED
    BY <2>2, <2>3, <2>4
<1>18. FreeFirst'
  <2>1. ASSUME NEW l \in SetIndex, NEW n \in 1 .. E
        PROVE  line'[l][Order(ring'[l])[n]] = NoTag <=> n <= Cardinality(Free(l)')
    <3>1. CASE l = k
      BY <1>17, <3>1 DEF c2, g
    <3>2. CASE l # k
      <4>1. line'[l] = line[l] /\ ring'[l] = ring[l] /\ Free(l)' = Free(l)
        BY <1>5, <1>12, <3>2
      <4> QED
        BY <4>1 DEF FreeFirst
    <3> QED
      BY <3>1, <3>2
  <2> QED
    BY <2>1 DEF FreeFirst
<1>19. /\ B2 \in Seq(Nat) /\ Len(B2) = E - c2
       /\ \A n \in 1 .. E - c2 : B2[n] = line'[k][g[c2 + n]] * 2^s + k
  <2>1. /\ B2 = [n \in 1 .. E - c2 |-> B2[n]]
        /\ \A n \in 1 .. E - c2 : B2[n] = line'[k][g[c2 + n]] * 2^s + k
    BY DEF Blocks, c2, g
  <2>2. c2 \in 0 .. E
    BY <1>0, <1>9, <1>13, <1>14
  <2> HIDE DEF B2
  <2>3. E - c2 \in Nat /\ \A n \in 1 .. E - c2 : line'[k][g[c2 + n]] * 2^s + k \in Nat
    BY <1>1, <1>17, <1>4, <2>2, BlocksType DEF g
  <2> QED
    BY <2>1, <2>3, SeqIs
<1> HIDE DEF B2
<1>20. recent' = [recent EXCEPT ![k] = B2]
  BY <1>1, <1>12 DEF B2
<1>21. recent[k] = B
  BY <1>1 DEF B
<1> HIDE DEF recent
<1>22. Holding(k, tag) = {} => \A n \in DOMAIN B : B[n] # blk
  <2>1. SUFFICES ASSUME Holding(k, tag) = {}, NEW n \in 1 .. E - c, B[n] = blk PROVE FALSE
    BY <1>11
  <2>2. c + n \in 1 .. E /\ ~(c + n <= c)
    BY <1>0, <1>9
  <2>3. nth[c + n] \in Lines /\ line[k][nth[c + n]] # NoTag
    BY <1>6, <1>10, <2>2
  <2>4. line[k][nth[c + n]] \in Nat
    BY <1>4, <2>3, TagsNat
  <2>5. line[k][nth[c + n]] = tag
    BY <1>2, <1>11, <2>1, <2>4, BlockInjective
  <2> QED
    BY <2>1, <2>3, <2>5 DEF Holding
<1>23. ASSUME NEW n \in 1 .. E, n < E
       PROVE  line'[k][g[n]] = IF n < m THEN line[k][nth[n]] ELSE line[k][nth[n + 1]]
  <2>1. n + 1 \in 1 .. E
    BY <1>0, <1>23
  <2>2. CASE n < m
    <3>1. g[n] = nth[n] /\ nth[n] \in Lines /\ nth[n] # i
      BY <1>6, <1>7, <1>8, <2>2
    <3> QED
      BY <1>5, <2>2, <3>1
  <2>3. CASE ~(n < m)
    <3>1. n + 1 # m
      BY <1>0, <2>3
    <3>2. g[n] = nth[n + 1] /\ nth[n + 1] \in Lines /\ nth[n + 1] # i
      BY <1>6, <1>7, <1>8, <1>23, <2>1, <2>3, <3>1
    <3> QED
      BY <1>5, <2>3, <3>2
  <2> QED
    BY <2>2, <2>3
<1>24. L!Block(addr) = blk /\ k = blk % 2^s
  BY <1>2 DEF L!Block
<1>25. B2[E - c2] = blk
  <2>1. E - c2 \in 1 .. E - c2 /\ c2 + (E - c2) = E /\ E \in 1 .. E
    BY <1>0, <1>9, <1>13, <1>14
  <2>2. g[E] = i
    BY <1>0, <1>8, <2>1
  <2> QED
    BY <1>2, <1>5, <1>19, <2>1, <2>2
<1>26. CASE line[k][i] = tag
  <2>1. c2 = c /\ ~(m <= c)
    BY <1>1, <1>13, <1>14, <1>26
  <2>0. m - c \in 1 .. E - c /\ c + (m - c) = m
    BY <1>0, <1>9, <2>1
  <2>4. hits' = hits + 1 /\ UNCHANGED <<misses, evictions>>
    BY <1>1, <1>26 DEF Holding
  <2>2. B[m - c] = blk
    BY <1>2, <1>7, <1>11, <1>26, <2>0
  <2>3. B2 = Append(L!RemoveAt(B, m - c), blk)
    <3>1. ASSUME NEW n \in 1 .. E - c - 1
          PROVE  B2[n] = IF n < m - c THEN B[n] ELSE B[n + 1]
      <4>1. c + n \in 1 .. E /\ n \in 1 .. E - c2 /\ c + n < E
        BY <1>0, <1>9, <2>1
      <4>2. B2[n] = line'[k][g[c + n]] * 2^s + k
        BY <1>19, <2>1, <4>1
      <4>3. CASE n < m - c
        <5>1. c + n < m /\ c + n # m /\ n \in 1 .. E - c
          BY <1>0, <1>9, <4>1, <4>3
        <5>2. line'[k][g[c + n]] = line[k][nth[c + n]]
          BY <1>23, <4>1, <5>1
        <5> QED
          BY <1>11, <4>2, <4>3, <5>1, <5>2
      <4>4. CASE ~(n < m - c)
        <5>1. /\ ~(c + n < m) /\ n + 1 \in 1 .. E - c /\ c + (n + 1) = c + n + 1
          BY <1>0, <1>9, <4>1, <4>4
        <5>2. line'[k][g[c + n]] = line[k][nth[c + n + 1]]
          BY <1>23, <4>1, <5>1
        <5> QED
          BY <1>11, <4>2, <4>4, <5>1, <5>2
      <4> QED
        BY <4>3, <4>4
    <3>2. Len(B2) = Len(B) /\ m - c \in 1 .. Len(B) /\ B2[Len(B)] = blk
      BY <1>11, <1>19, <1>25, <2>0, <2>1
    <3> DEFINE R == L!RemoveAt(B, m - c)
    <3>3. /\ R \in Seq(Nat) /\ Len(R) = E - c - 1
          /\ \A n \in 1 .. E - c - 1 : R[n] = IF n < m - c THEN B[n] ELSE B[n + 1]
      BY <1>11, <3>2, RemoveAtIs
    <3> HIDE DEF R
    <3>4. \A n \in 1 .. Len(R) : B2[n] = R[n]
      BY SMTT(30), <3>1, <3>3
    <3>5. Len(B2) = Len(R) + 1 /\ B2[Len(R) + 1] = blk
      BY <1>0, <1>9, <1>11, <3>2, <3>3
    <3>6. B2 \in Seq(Nat) /\ blk \in Nat /\ R \in Seq(Nat)
      BY <1>2, <1>19, <3>3
    <3>7. B2 = Append(R, blk)
      BY <3>4, <3>5, <3>6, AppendIs
    <3> QED
      BY <3>7 DEF R
  <2>5. L!Hit(k, blk)
    <3>1. m - c \in DOMAIN recent[k] /\ recent[k][m - c] = blk
      BY <1>11, <1>21, <2>0, <2>2
    <3>2. recent' = [recent EXCEPT ![k] = Append(L!RemoveAt(recent[k], m - c), blk)]
      BY <1>20, <1>21, <2>3
    <3> QED
      BY <2>4, <3>1, <3>2 DEF L!Hit, L!Use, recent
  <2> QED
    BY <1>18, <1>24, <2>5, LRUAccess
<1>27. CASE line[k][i] = NoTag
  <2>1. c2 = c - 1 /\ m = 1 /\ c >= 1 /\ Holding(k, tag) = {}
    BY <1>1, <1>13, <1>14, <1>15, <1>16, <1>27
  <2>2. misses' = misses + 1 /\ UNCHANGED <<hits, evictions>>
    BY <1>1, <1>3, <1>27, <2>1 DEF IInv, TypeOK
  <2>3. B2 = Append(B, blk)
    <3>1. ASSUME NEW n \in 1 .. E - c PROVE B2[n] = B[n]
      <4>1. /\ c2 + n \in 1 .. E /\ n \in 1 .. E - c2 /\ c2 + n < E /\ ~(c2 + n < m)
            /\ c2 + n + 1 = c + n
        BY <1>0, <1>9, <2>1
      <4>2. B2[n] = line'[k][g[c2 + n]] * 2^s + k
        BY <1>19, <4>1
      <4>3. line'[k][g[c2 + n]] = line[k][nth[c + n]]
        BY <1>23, <4>1
      <4> QED
        BY <1>11, <4>2, <4>3
    <3>2. Len(B2) = Len(B) + 1 /\ B2[Len(B) + 1] = blk
      BY <1>0, <1>9, <1>11, <1>19, <1>25, <2>1
    <3>3. \A n \in 1 .. Len(B) : B2[n] = B[n]
      BY <1>11, <3>1
    <3> QED
      BY <1>2, <1>11, <1>19, <3>2, <3>3, AppendIs
  <2>4. L!Fill(k, blk)
    <3>1. Len(recent[k]) < E /\ \A n \in DOMAIN recent[k] : recent[k][n] # blk
      BY <1>0, <1>9, <1>11, <1>21, <1>22, <2>1
    <3>2. recent' = [recent EXCEPT ![k] = Append(recent[k], blk)]
      BY <1>20, <1>21, <2>3
    <3> QED
      BY <2>2, <3>1, <3>2 DEF L!Fill, L!Use, L!Cached, recent
  <2> QED
    BY <1>18, <1>24, <2>4, LRUAccess
<1>28. CASE line[k][i] # NoTag /\ Holding(k, tag) = {}
  <2>1. c2 = c /\ m = 1 /\ c = 0
    BY <1>0, <1>9, <1>13, <1>14, <1>15, <1>28
  <2>2. misses' = misses + 1 /\ evictions' = evictions + 1 /\ UNCHANGED hits
    <3>1. line[k][i] # tag
      BY <1>28 DEF Holding
    <3> QED
      BY <1>1, <1>28, <3>1
  <2>3. B2 = Append(Tail(B), blk)
    <3>1. ASSUME NEW n \in 1 .. E - 1 PROVE B2[n] = B[n + 1]
      <4>1. /\ n \in 1 .. E /\ n < E /\ ~(n < m) /\ n \in 1 .. E - c2 /\ c2 + n = n
            /\ n + 1 \in 1 .. E - c /\ c + (n + 1) = n + 1
        BY <1>0, <2>1
      <4>2. B2[n] = line'[k][g[n]] * 2^s + k
        BY <1>19, <4>1
      <4>3. line'[k][g[n]] = line[k][nth[n + 1]]
        BY <1>23, <4>1
      <4> QED
        BY <1>11, <4>1, <4>2, <4>3
    <3>2. Len(B) = E /\ Len(B2) = E /\ 1 <= Len(B) /\ B2[Len(B)] = blk
      BY <1>0, <1>11, <1>19, <1>25, <2>1
    <3>3. \A n \in 1 .. Len(B) - 1 : B2[n] = B[n + 1]
      BY <3>1, <3>2
    <3>4. B \in Seq(Nat) /\ B2 \in Seq(Nat) /\ blk \in Nat
      BY <1>2, <1>11, <1>19
    <3> HIDE DEF B
    <3>5. 1 <= Len(B) /\ Len(B2) = Len(B) /\ B2[Len(B)] = blk
      BY <3>2
    <3> QED
      BY <3>3, <3>4, <3>5, ShiftedIs, ZenonT(60)
  <2>4. L!Replace(k, blk)
    <3>1. Len(recent[k]) = E /\ \A n \in DOMAIN recent[k] : recent[k][n] # blk
      BY <1>0, <1>11, <1>21, <1>22, <1>28, <2>1
    <3>2. recent' = [recent EXCEPT ![k] = Append(Tail(recent[k]), blk)]
      BY <1>20, <1>21, <2>3
    <3> QED
      BY <2>2, <3>1, <3>2 DEF L!Replace, L!Use, L!Cached, recent
  <2> QED
    BY <1>18, <1>24, <2>4, LRUAccess
<1> QED
  BY <1>16, <1>26, <1>27, <1>28

LEMMA InitMaps == Init => FreeFirst /\ L!Init
<1> SUFFICES ASSUME Init PROVE FreeFirst /\ L!Init
  OBVIOUS
<1>0. E \in Nat \ {0} /\ 1 .. E - E = {}
  BY Geometry
<1>1. ASSUME NEW k \in SetIndex
      PROVE  /\ Cardinality(Free(k)) = E
             /\ \A n \in 1 .. E : line[k][Order(ring[k])[n]] = NoTag
             /\ Blocks(k) = << >>
  <2>1. Free(k) = Lines
    BY DEF Init, Free
  <2>2. Cardinality(Free(k)) = E
    BY <1>0, <2>1, FS_Interval DEF Lines
  <2>3. ring[k] \in Rings /\ OneRing(ring[k])
    BY InitialRing DEF Init, GoodRing
  <2>4. \A n \in 1 .. E : line[k][Order(ring[k])[n]] = NoTag
    BY <2>3, OrderLines DEF Init
  <2>5. Blocks(k) = << >>
    <3> DEFINE B == Blocks(k)
    <3>1. B = [n \in 1 .. 0 |-> B[n]]
      BY <1>0, <2>2 DEF Blocks
    <3> HIDE DEF B
    <3>2. B \in Seq(Nat) /\ Len(B) = 0
      BY <3>1, SeqIs
    <3>3. B = << >>
      BY <3>2, EmptySeq
    <3> QED
      BY <3>3 DEF B
  <2> QED
    BY <2>2, <2>4, <2>5
<1>2. FreeFirst
  BY <1>0, <1>1 DEF FreeFirst
<1>3. [k \in SetIndex |-> Blocks(k)] = [k \in L!SetIndex |-> << >>]
  BY <1>1 DEF SetIndex, L!SetIndex
<1>4. L!Init
  BY <1>3 DEF Init, L!Init
<1> QED
  BY <1>2, <1>4

\* The simulator counts the hits, misses and evictions of an LRU cache: for
\* every geometry, every trace and whatever set_init has computed, each access
\* does to the blocks of its set, in the order of the ring, what LRU does.
THEOREM CountsAsLRU == Spec => LRUSpec
<1>1. Init => FreeFirst /\ L!Init
  BY InitMaps
<1> DEFINE lruvars == <<[k \in SetIndex |-> Blocks(k)], hits, misses, evictions>>
<1>2. IInv /\ IInv' /\ FreeFirst /\ [Next]_vars => FreeFirst' /\ [L!Next]_lruvars
  <2> SUFFICES ASSUME IInv, IInv', FreeFirst, [Next]_vars
               PROVE  FreeFirst' /\ [L!Next]_lruvars
    OBVIOUS
  <2>1. ASSUME NEW addr \in Address, cache_access(addr) PROVE FreeFirst' /\ L!Next
    BY <2>1, AccessMaps DEF L!Next
  <2>2. CASE Next
    <3>1. \E addr \in Address : cache_access(addr)
      BY <2>2 DEF Next, LoadOrStore, Modify, ModifyAgain, IInv, TypeOK
    <3> QED
      BY <2>1, <3>1
  <2>3. CASE UNCHANGED vars
    BY <2>3 DEF vars, FreeFirst, Free, Blocks
  <2> QED
    BY <2>2, <2>3
<1>3. IInv /\ [Next]_vars => IInv'
  BY NextIInv
<1> QED
  BY <1>1, <1>2, <1>3, InitIInv, PTL DEF Spec, LRUSpec, L!Spec

==============================================================================
