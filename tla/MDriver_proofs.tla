--------------------------- MODULE MDriver_proofs ---------------------------
(***************************************************************************)
(* The malloc package under its driver, for every heap limit, chunk size,  *)
(* set of blocks and set of sizes.  The inductive invariant names what the *)
(* words of the heap stand for: the blocks B and their sizes sz, which     *)
(* tile it from the prologue to the break, and the tree of the free ones.  *)
(* First come the steps mm.c is made of (taking a block out of the tree,   *)
(* writing tags, joining, cutting), then its functions, then the driver.   *)
(***************************************************************************)
EXTENDS MDriver, RedBlackTree_proofs

IsEven(n) == n % 2 = 0

\* B are the addresses of the blocks from the prologue to the end b, sz their sizes.
Tiled(B, sz, b) ==
  /\ b \in Nat /\ IsEven(b) /\ B \subseteq Nat /\ sz \in [B -> Nat]
  /\ Prologue \in B /\ sz[Prologue] = DSIZE
  /\ \A p \in B : /\ p >= 2 /\ IsEven(p) /\ IsEven(sz[p]) /\ p + sz[p] \in B \union {b} /\ p + sz[p] <= b
                  /\ p # Prologue => sz[p] >= BLK_MIN_SIZE /\ \E q \in B : q + sz[q] = p
  /\ \A p, q \in B : p < q => p + sz[p] <= q
  /\ \E q \in B : q + sz[q] = b

\* Header and footer of the blocks T say what the blocks are; A are the allocated ones.
Bit(A, p) == IF p \in A THEN 1 ELSE 0
Tags(m, T, sz, A) == \A p \in T : /\ m[p - 1] = PACK(sz[p], Bit(A, p))
                                  /\ m[p + sz[p] - 2] = PACK(sz[p], Bit(A, p))

\* A heap whose tree has the blocks N as nodes.
Heaped(m, b, B, sz, A, T, N) ==
  /\ DOMAIN m = Address /\ b <= MAX_HEAP /\ Tiled(B, sz, b)
  /\ A \subseteq B /\ Prologue \in A /\ T \subseteq B /\ N \subseteq T \ A
  /\ Tags(m, T, sz, A) /\ m[b - 1] = PACK(0, 1)
  /\ IsTree(m, N) /\ \A p \in N : m[p] = sz[p]

\* n has come from m: no word is made up, and the payloads of the blocks Q are as they were.
Turns(m, n, sz, Q) ==
  /\ \A a \in Address : n[a] \in Int \/ \E c \in Address : n[a] = m[c]
  /\ \A p \in Q : \A a \in p .. p + sz[p] - 3 : n[a] = m[a]

LEMMA Packed ==
  ASSUME NEW s \in Nat, IsEven(s), NEW a \in {0, 1}
  PROVE  GET_SIZE(PACK(s, a)) = s /\ GET_ALLOC(PACK(s, a)) = a /\ PACK(s, a) \in Nat
BY DEF GET_SIZE, PACK, GET_ALLOC, IsEven

LEMMA Evens ==
  /\ \A i, j \in Int : IsEven(i) /\ IsEven(j) => IsEven(i + j) /\ IsEven(i - j)
  /\ \A i, j \in Int : IsEven(i) /\ IsEven(j) /\ i < j => i + 2 <= j
  /\ IsEven(0) /\ IsEven(2) /\ IsEven(8)
BY DEF IsEven

\* What header and footer say is read as it was written.
LEMMA TagsRead ==
  ASSUME NEW m, NEW b, NEW B, NEW sz, NEW A, NEW T, NEW N, Heaped(m, b, B, sz, A, T, N), NEW p \in T
  PROVE  /\ SizeOf(m, p) = sz[p] /\ GET_ALLOC(m[HDRP(p)]) = Bit(A, p)
         /\ GET_SIZE(m[p + sz[p] - 2]) = sz[p] /\ GET_ALLOC(m[FTRP(m, p)]) = Bit(A, p)
         /\ FTRP(m, p) = p + sz[p] - 2 /\ NEXT_BLKP(m, p) = p + sz[p]
         /\ m[FTRP(m, p)] = m[HDRP(p)]
<1>1. sz[p] \in Nat /\ IsEven(sz[p]) /\ p \in B
  BY DEF Heaped, Tiled
<1>2. m[p - 1] = PACK(sz[p], Bit(A, p)) /\ m[p + sz[p] - 2] = PACK(sz[p], Bit(A, p)) /\ Bit(A, p) \in {0, 1}
  BY DEF Heaped, Tags, Bit
<1>3. GET_SIZE(PACK(sz[p], Bit(A, p))) = sz[p] /\ GET_ALLOC(PACK(sz[p], Bit(A, p))) = Bit(A, p)
  BY <1>1, <1>2, Packed
<1>4. SizeOf(m, p) = sz[p]
  BY <1>2, <1>3 DEF SizeOf, HDRP
<1>5. FTRP(m, p) = p + sz[p] - 2 /\ NEXT_BLKP(m, p) = p + sz[p] /\ HDRP(p) = p - 1
  BY <1>4 DEF FTRP, NEXT_BLKP, DSIZE, HDRP
<1> QED
  BY <1>2, <1>3, <1>4, <1>5

\* Where the blocks are.
LEMMA Spans ==
  ASSUME NEW B, NEW sz, NEW b, Tiled(B, sz, b)
  PROVE  /\ b \in Nat /\ \A p \in B : /\ p \in Nat /\ sz[p] \in Nat /\ p >= 2 /\ sz[p] >= 2 /\ p + sz[p] <= b
                                      /\ p # Prologue => sz[p] >= 8 /\ p >= 4
         /\ \A p, q \in B : p = q \/ p + sz[p] <= q \/ q + sz[q] <= p
<1>1. \A p \in B : p \in Nat /\ sz[p] \in Nat /\ p >= 2 /\ p + sz[p] <= b
  BY DEF Tiled
<1>2. b \in Nat
  BY DEF Tiled
<1>3. \A p \in B : p # Prologue => sz[p] >= 8
  BY DEF Tiled, BLK_MIN_SIZE
<1>4. \A p \in B : p # Prologue => p >= 4
  <2> TAKE p \in B
  <2> HAVE p # Prologue
  <2>1. p > 2
    BY <1>1 DEF Prologue, DSIZE
  <2>2. IsEven(p)
    BY DEF Tiled
  <2> QED
    BY <2>1, <2>2, <1>1, Evens
<1>5. \A p \in B : sz[p] >= 2
  BY <1>3, <1>1 DEF Tiled, DSIZE
<1>6. \A p, q \in B : p = q \/ p + sz[p] <= q \/ q + sz[q] <= p
  <2> TAKE p, q \in B
  <2>1. p = q \/ p < q \/ q < p
    BY <1>1
  <2> QED
    BY <2>1 DEF Tiled
<1> QED
  BY <1>1, <1>2, <1>3, <1>4, <1>5, <1>6

\* The words of a block lie inside the heap, and so inside the memory.
LEMMA SpansIn ==
  ASSUME HeapAssumption, NEW B, NEW sz, NEW b, Tiled(B, sz, b), b <= MAX_HEAP
  PROVE  /\ \A y \in Int : y >= 0 /\ y <= b - 1 => y \in Address
         /\ \A x \in B : \A a \in x .. x + sz[x] - 3 : a \in Address
<1>1. b \in Nat /\ \A x \in B : x \in Nat /\ sz[x] \in Nat /\ x + sz[x] <= b
  BY Spans
<1>2. MAX_HEAP \in Nat /\ Address = -10 .. MAX_HEAP - 1
  BY DEF Address, RootNode, HeapAssumption
<1>3. b \in Nat
  BY <1>1
<1>4. \A y \in Int : y >= 0 /\ y <= b - 1 => y \in Address
  BY <1>2, <1>3
<1>5. ASSUME NEW x \in B, NEW a \in x .. x + sz[x] - 3 PROVE a \in Address
  <2>1. a \in Int /\ a >= 0 /\ a <= b - 1
    BY <1>1
  <2> QED
    BY <2>1, <1>4
<1> QED
  BY <1>4, <1>5

\* Blocks have room for nodes.
LEMMA RoomIn ==
  ASSUME HeapAssumption, NEW B, NEW sz, NEW b, Tiled(B, sz, b), b <= MAX_HEAP,
         NEW N, N \subseteq B, Prologue \notin N
  PROVE  Room(Address, N) /\ NilNode \notin N /\ RootNode \notin N
<1>1. /\ b \in Nat /\ \A p \in B : /\ p \in Nat /\ sz[p] \in Nat /\ p >= 2 /\ sz[p] >= 2 /\ p + sz[p] <= b
                                   /\ p # Prologue => sz[p] >= 8 /\ p >= 4
      /\ \A p, q \in B : p = q \/ p + sz[p] <= q \/ q + sz[q] <= p
  BY Spans
<1>2. \A p \in N : p \in Nat /\ sz[p] \in Nat /\ p >= 4 /\ sz[p] >= 8 /\ p + sz[p] <= b
  BY <1>1
<1>3. NilNode = -5 /\ RootNode = -10 /\ Parent = 4 /\ NodeWords = 5 /\ MAX_HEAP \in Nat
  BY DEF NilNode, RootNode, Parent, NodeWords, HeapAssumption
<1>4. Good(N) /\ N \subseteq Int /\ Address \subseteq Int
  BY <1>2, <1>3 DEF Good, Address
<1>5. \A x \in Spots(N), f \in 0 .. Parent : x + f \in Address
  BY <1>1, <1>2, <1>3 DEF Spots, Address
<1>6. \A x, y \in Spots(N) : x < y => x + NodeWords <= y
  <2> TAKE x, y \in Spots(N)
  <2> HAVE x < y
  <2>1. CASE x \in N /\ y \in N
    <3>1. x + sz[x] <= y \/ y + sz[y] <= x
      BY <2>1, <1>1, <1>2
    <3> QED
      BY <2>1, <3>1, <1>2, <1>3
  <2>2. CASE x \in {NilNode, RootNode}
    BY <2>2, <1>2, <1>3 DEF Spots
  <2>3. CASE x \in N /\ y \in {NilNode, RootNode}
    BY <2>3, <1>2, <1>3
  <2> QED
    BY <2>1, <2>2, <2>3 DEF Spots
<1> QED
  BY <1>4, <1>5, <1>6 DEF Room, Good

\* What an insertion or a removal leaves alone.
Away(N, a) == \A x \in N : a <= x \/ a >= x + 5
SameIn(m, n, N) == DOMAIN m = Address /\ Same(m, n, N) /\ N \subseteq Nat
SameOff(m, n, N) == \A a \in Address : a >= 0 /\ Away(N, a) => n[a] = m[a]
LEMMA SameAway ==
  ASSUME NEW N, NEW m, NEW n, SameIn(m, n, N)
  PROVE  SameOff(m, n, N)
<1> USE DEF SameIn, SameOff
<1> TAKE a \in Address
<1> HAVE a >= 0 /\ Away(N, a)
<1>1. NilNode = -5 /\ RootNode = -10 /\ Fields = 1 .. 4
  BY DEF NilNode, RootNode, Fields, Red, Parent
<1>2. ASSUME NEW x \in Spots(N), NEW f \in Fields PROVE a # x + f
  <2>1. a \in Int
    BY DEF Address, RootNode
  <2>2. CASE x \in N
    <3>1. x \in Nat /\ (a <= x \/ a >= x + 5)
      BY <2>2 DEF Away
    <3> QED
      BY <3>1, <2>1, <1>1
  <2>3. CASE x \in {NilNode, RootNode}
    BY <2>1, <2>3, <1>1
  <2> QED
    BY <2>2, <2>3 DEF Spots
<1> QED
  BY <1>2 DEF Same

LEMMA SameBlocks ==
  ASSUME NEW B, NEW sz, NEW b, Tiled(B, sz, b), HeapAssumption, b <= MAX_HEAP,
         NEW N, N \subseteq B, Prologue \notin N,
         NEW m, NEW n, DOMAIN m = Address, Same(m, n, N)
  PROVE  /\ \A p \in B : n[p - 1] = m[p - 1] /\ n[p + sz[p] - 2] = m[p + sz[p] - 2]
         /\ \A p \in B \ N : \A a \in p .. p + sz[p] - 3 : n[a] = m[a]
         /\ n[b - 1] = m[b - 1] /\ \A p \in N : n[p] = m[p]
<1>1. /\ b \in Nat /\ \A p \in B : /\ p \in Nat /\ sz[p] \in Nat /\ p >= 2 /\ sz[p] >= 2 /\ p + sz[p] <= b
                                   /\ p # Prologue => sz[p] >= 8 /\ p >= 4
      /\ \A p, q \in B : p = q \/ p + sz[p] <= q \/ q + sz[q] <= p
  BY Spans
<1>2. RootNode = -10 /\ MAX_HEAP \in Nat /\ N \subseteq Nat /\ Address = -10 .. MAX_HEAP - 1
  BY <1>1 DEF RootNode, HeapAssumption, Address
<1>3. \A p \in N : p \in B /\ sz[p] >= 8
  BY <1>1
<1>9. \A a \in Address : a >= 0 /\ Away(N, a) => n[a] = m[a]
  <2>1. N \subseteq Nat
    BY <1>2
  <2>2. SameIn(m, n, N)
    BY <2>1 DEF SameIn
  <2>3. SameOff(m, n, N)
    BY <2>2, SameAway
  <2> QED
    BY <2>3 DEF SameOff
<1>4. ASSUME NEW p \in B
      PROVE  n[p - 1] = m[p - 1] /\ n[p + sz[p] - 2] = m[p + sz[p] - 2]
  <2>1. \A x \in N : p - 1 <= x \/ p - 1 >= x + 5
    <3> TAKE x \in N
    <3>1. p = x \/ p + sz[p] <= x \/ x + sz[x] <= p
      BY <1>1, <1>3
    <3> QED
      BY <3>1, <1>1, <1>3
  <2>2. \A x \in N : p + sz[p] - 2 <= x \/ p + sz[p] - 2 >= x + 5
    <3> TAKE x \in N
    <3>1. p = x \/ p + sz[p] <= x \/ x + sz[x] <= p
      BY <1>1, <1>3
    <3> QED
      BY <3>1, <1>1, <1>3
  <2>3. p - 1 \in Address /\ p + sz[p] - 2 \in Address /\ p - 1 >= 0 /\ p + sz[p] - 2 >= 0
    BY <1>1, <1>2
  <2> QED
    BY <2>1, <2>2, <2>3, <1>9 DEF Away
<1>5. ASSUME NEW p \in B \ N, NEW a \in p .. p + sz[p] - 3
      PROVE  n[a] = m[a]
  <2>1. \A x \in N : a <= x \/ a >= x + 5
    <3> TAKE x \in N
    <3>1. p + sz[p] <= x \/ x + sz[x] <= p
      BY <1>1, <1>3
    <3> QED
      BY <3>1, <1>1, <1>3
  <2>2. a \in Address /\ a >= 0
    BY <1>1, <1>2
  <2> QED
    BY <2>1, <2>2, <1>9 DEF Away
<1>6. n[b - 1] = m[b - 1]
  <2>1. \A x \in N : b - 1 <= x \/ b - 1 >= x + 5
    <3> TAKE x \in N
    <3>1. x + sz[x] <= b /\ sz[x] >= 8 /\ x \in Nat /\ sz[x] \in Nat
      BY <1>1, <1>3
    <3> QED
      BY <3>1, <1>1
  <2>2. b - 1 \in Address /\ b - 1 >= 0
    <3>1. \E p \in B : p + sz[p] = b
      BY DEF Tiled
    <3> QED
      BY <3>1, <1>1, <1>2
  <2> QED
    BY <2>1, <2>2, <1>9 DEF Away
<1>7. Room(Address, N)
  BY RoomIn
<1>8. \A p \in N : n[p] = m[p]
  <2>1. \A x \in Spots(N) : n[x] = m[x]
    BY <1>7, KeysSame
  <2> QED
    BY <2>1 DEF Spots
<1> QED
  BY <1>4, <1>5, <1>6, <1>8

LEMMA SameTurns ==
  ASSUME NEW N, NEW m, NEW n, DOMAIN m = Address, Same(m, n, N)
  PROVE  \A a \in Address : n[a] \in Int \/ \E c \in Address : n[a] = m[c]
BY DEF Same

\* A block leaves the tree.
LEMMA TakesOut ==
  ASSUME HeapAssumption, NEW m, NEW b, NEW B, NEW sz, NEW A, NEW T, NEW N, Heaped(m, b, B, sz, A, T, N),
         NEW p \in N, NEW n, n = remove_free_block(m, p)
  PROVE  Heaped(n, b, B, sz, A, T, N \ {p}) /\ Turns(m, n, sz, B \ N)
<1>1. /\ DOMAIN m = Address /\ b <= MAX_HEAP /\ Tiled(B, sz, b) /\ A \subseteq B /\ Prologue \in A
      /\ T \subseteq B /\ N \subseteq T \ A
      /\ Tags(m, T, sz, A) /\ m[b - 1] = PACK(0, 1) /\ IsTree(m, N) /\ \A x \in N : m[x] = sz[x]
  BY DEF Heaped
<1>2. IsTree(n, N \ {p}) /\ Same(m, n, N)
  BY <1>1, RemoveKeeps DEF remove_free_block
<1>3. N \subseteq B /\ Prologue \notin N
  BY <1>1
<1>4. /\ \A x \in B : n[x - 1] = m[x - 1] /\ n[x + sz[x] - 2] = m[x + sz[x] - 2]
      /\ \A x \in B \ N : \A a \in x .. x + sz[x] - 3 : n[a] = m[a]
      /\ n[b - 1] = m[b - 1] /\ \A x \in N : n[x] = m[x]
  BY <1>1, <1>2, <1>3, SameBlocks
<1>5. Tags(n, T, sz, A)
  BY <1>1, <1>4 DEF Tags
<1>6. DOMAIN n = Address
  BY <1>1, <1>2 DEF Same
<1>7. Turns(m, n, sz, B \ N)
  BY <1>1, <1>2, <1>4, SameTurns DEF Turns
<1> QED
  BY <1>1, <1>2, <1>4, <1>5, <1>6, <1>7 DEF Heaped

\* Writing in the payload of a block that is not in the tree.
LEMMA PayloadWritten ==
  ASSUME HeapAssumption, NEW m, NEW b, NEW B, NEW sz, NEW A, NEW T, NEW N, Heaped(m, b, B, sz, A, T, N),
         NEW p \in B, p \notin N, NEW n, IsMemory(n), DOMAIN n = Address,
         \A a \in Address : a \notin p .. p + sz[p] - 3 => n[a] = m[a]
  PROVE  Heaped(n, b, B, sz, A, T, N)
<1>1. /\ DOMAIN m = Address /\ b <= MAX_HEAP /\ Tiled(B, sz, b) /\ A \subseteq B /\ Prologue \in A
      /\ T \subseteq B /\ N \subseteq T \ A
      /\ Tags(m, T, sz, A) /\ m[b - 1] = PACK(0, 1) /\ IsTree(m, N) /\ \A x \in N : m[x] = sz[x]
  BY DEF Heaped
<1>2. /\ b \in Nat /\ \A x \in B : /\ x \in Nat /\ sz[x] \in Nat /\ x >= 2 /\ sz[x] >= 2 /\ x + sz[x] <= b
                                   /\ x # Prologue => sz[x] >= 8 /\ x >= 4
      /\ \A x, q \in B : x = q \/ x + sz[x] <= q \/ q + sz[q] <= x
  BY <1>1, Spans
<1>3. RootNode = -10 /\ NilNode = -5 /\ Parent = 4 /\ MAX_HEAP \in Nat /\ Address = -10 .. MAX_HEAP - 1
  BY <1>2 DEF RootNode, NilNode, Parent, HeapAssumption, Address
<1>4. \A x \in N : x \in B /\ sz[x] >= 8 /\ x # p
  BY <1>1, <1>2
<1>5. ASSUME NEW x \in B
      PROVE  n[x - 1] = m[x - 1] /\ n[x + sz[x] - 2] = m[x + sz[x] - 2]
  <2>1. x = p \/ x + sz[x] <= p \/ p + sz[p] <= x
    BY <1>2
  <2>2. x - 1 \in Address /\ x + sz[x] - 2 \in Address
    <3>1. x \in Nat /\ sz[x] \in Nat /\ x >= 2 /\ sz[x] >= 2 /\ x + sz[x] <= b /\ b \in Nat
      BY <1>2
    <3>2. b <= MAX_HEAP
      BY <1>1
    <3> QED
      BY <3>1, <3>2, <1>3
  <2>3. x - 1 \notin p .. p + sz[p] - 3 /\ x + sz[x] - 2 \notin p .. p + sz[p] - 3
    BY <2>1, <1>2
  <2> QED
    BY <2>2, <2>3
<1>6. n[b - 1] = m[b - 1]
  <2>1. b - 1 \in Address /\ b - 1 \notin p .. p + sz[p] - 3
    BY <1>1, <1>2, <1>3
  <2> QED
    BY <2>1
<1>7. ASSUME NEW x \in Spots(N), NEW f \in 0 .. Parent
      PROVE  n[x + f] = m[x + f]
  <2>1. CASE x \in N
    <3>1. x + sz[x] <= p \/ p + sz[p] <= x
      BY <2>1, <1>2, <1>4
    <3>2. /\ x \in Nat /\ x >= 2 /\ sz[x] \in Nat /\ sz[x] >= 8 /\ x + sz[x] <= b /\ f \in 0 .. 4
          /\ p \in Nat /\ sz[p] \in Nat /\ b \in Nat /\ b <= MAX_HEAP
      BY <2>1, <1>1, <1>2, <1>3, <1>4
    <3>3. x + f \in Address /\ x + f \notin p .. p + sz[p] - 3
      <4> DEFINE y == x + f
      <4>1. y \in Int /\ y >= 2 /\ y <= MAX_HEAP - 1 /\ y <= x + 4 /\ y >= x
        BY <3>2, <1>3
      <4>2. y < p \/ y > p + sz[p] - 3
        BY <3>1, <3>2, <4>1
      <4> HIDE DEF y
      <4>3. y \in Address /\ y \notin p .. p + sz[p] - 3
        BY <4>1, <4>2, <3>2, <1>3
      <4> QED
        BY <4>3 DEF y
    <3> QED
      BY <3>3
  <2>2. CASE x \in {NilNode, RootNode}
    <3>1. x + f \in Address /\ x + f \notin p .. p + sz[p] - 3
      BY <2>2, <1>2, <1>3
    <3> QED
      BY <3>1
  <2> QED
    BY <2>1, <2>2 DEF Spots
<1>8. IsTree(n, N)
  BY <1>1, <1>7, TreeKept
<1>9. \A x \in N : n[x] = sz[x]
  <2> TAKE x \in N
  <2>1. x \in Spots(N) /\ x + 0 = x /\ 0 \in 0 .. Parent
    BY <1>2, <1>3, <1>4 DEF Spots
  <2>2. n[x + 0] = m[x + 0]
    BY <2>1, <1>7
  <2> QED
    BY <2>1, <2>2, <1>1
<1>10. Tags(n, T, sz, A)
  BY <1>1, <1>5 DEF Tags
<1> QED
  BY <1>1, <1>6, <1>8, <1>9, <1>10 DEF Heaped

LEMMA TurnsOn ==
  ASSUME NEW l, NEW m, NEW n, NEW sz, NEW Q, Turns(l, m, sz, Q), Turns(m, n, sz, Q),
         \A p \in Q : \A a \in p .. p + sz[p] - 3 : a \in Address
  PROVE  Turns(l, n, sz, Q)
BY DEF Turns

LEMMA TurnsLess ==
  ASSUME NEW m, NEW n, NEW sz, NEW s2, NEW Q, Turns(m, n, sz, Q), NEW R, R \subseteq Q,
         \A p \in R : p \in Nat /\ sz[p] \in Nat /\ s2[p] \in Nat /\ s2[p] <= sz[p]
  PROVE  Turns(m, n, s2, R)
<1>1. ASSUME NEW p \in R, NEW a \in p .. p + s2[p] - 3 PROVE n[a] = m[a]
  <2>1. a \in p .. p + sz[p] - 3 /\ p \in Q
    BY <1>1
  <2> QED
    BY <2>1 DEF Turns
<1> QED
  BY <1>1 DEF Turns

\* A free block becomes a node of the tree.
LEMMA PutsIn ==
  ASSUME HeapAssumption, NEW m, NEW b, NEW B, NEW sz, NEW A, NEW T, NEW N, Heaped(m, b, B, sz, A, T, N),
         NEW p \in T, p \notin A, p \notin N, NEW n, n = insert_free_block(m, p)
  PROVE  Heaped(n, b, B, sz, A, T, N \union {p}) /\ Turns(m, n, sz, B \ (N \union {p}))
<1> DEFINE M == N \union {p}
           w == [m EXCEPT ![p] = SizeOf(m, p)]
<1>1. /\ DOMAIN m = Address /\ b <= MAX_HEAP /\ Tiled(B, sz, b) /\ A \subseteq B /\ Prologue \in A
      /\ T \subseteq B /\ N \subseteq T \ A
      /\ Tags(m, T, sz, A) /\ m[b - 1] = PACK(0, 1) /\ IsTree(m, N) /\ \A x \in N : m[x] = sz[x]
  BY DEF Heaped
<1>2. p \in B /\ p # Prologue /\ p \in Nat /\ sz[p] \in Nat /\ sz[p] >= 8 /\ p + sz[p] <= b /\ b \in Nat
  BY <1>1, Spans
<1>3. SizeOf(m, p) = sz[p]
  BY TagsRead
<1>4. IsMemory(m)
  BY <1>1, TreeFacts
<1>5. p \in Address /\ p \in p .. p + sz[p] - 3
  BY <1>1, <1>2 DEF Address, RootNode, HeapAssumption
<1>6. IsMemory(w) /\ DOMAIN w = Address /\ w[p] = sz[p] /\ \A a \in Address : a # p => w[a] = m[a]
  BY <1>1, <1>3, <1>4, <1>5 DEF IsMemory
<1> HIDE DEF w
<1>7. Heaped(w, b, B, sz, A, T, N)
  BY <1>2, <1>5, <1>6, PayloadWritten
<1>8. M \subseteq B /\ Prologue \notin M /\ M \subseteq T \ A
  BY <1>1, <1>2
<1>9. Room(Address, M)
  BY <1>1, <1>8, RoomIn
<1>10. IsTree(w, N)
  BY <1>7 DEF Heaped
<1>11. n = rbt_insert(w, p)
  BY DEF insert_free_block, w
<1>12. IsTree(n, M) /\ Same(w, n, M)
  <2>1. w[p] \in Int /\ w[p] > 0
    BY <1>2, <1>6
  <2>2. Room(DOMAIN w, M)
    BY <1>6, <1>9
  <2> QED
    BY <2>1, <2>2, <1>10, <1>11, InsertKeeps
<1> HIDE DEF M
<1>13. /\ \A x \in B : n[x - 1] = w[x - 1] /\ n[x + sz[x] - 2] = w[x + sz[x] - 2]
       /\ \A x \in B \ M : \A a \in x .. x + sz[x] - 3 : n[a] = w[a]
       /\ n[b - 1] = w[b - 1] /\ \A x \in M : n[x] = w[x]
  BY <1>1, <1>6, <1>8, <1>12, SameBlocks
<1>14. Tags(n, T, sz, A)
  BY <1>1, <1>7, <1>13 DEF Tags, Heaped
<1>15. DOMAIN n = Address
  BY <1>6, <1>12 DEF Same
<1>16. \A x \in M : n[x] = sz[x]
  BY <1>6, <1>7, <1>13 DEF Heaped, M
<1>17. n[b - 1] = PACK(0, 1)
  BY <1>7, <1>13 DEF Heaped
<1>18. Turns(w, n, sz, B \ M)
  BY <1>6, <1>12, <1>13, SameTurns DEF Turns
<1>21. /\ \A x \in B : x \in Nat /\ sz[x] \in Nat /\ x + sz[x] <= b
       /\ \A x, q \in B : x = q \/ x + sz[x] <= q \/ q + sz[q] <= x
  BY <1>1, Spans
<1>19. Turns(m, w, sz, B \ M)
  <2>1. ASSUME NEW x \in B \ M, NEW a \in x .. x + sz[x] - 3
        PROVE  w[a] = m[a]
    <3>1. x \in B /\ x # p
      BY DEF M
    <3>2. (p + sz[p] <= x \/ x + sz[x] <= p) /\ x \in Nat /\ sz[x] \in Nat /\ x + sz[x] <= b
      BY <3>1, <1>2, <1>21
    <3>3. a \in Nat /\ a <= b - 3
      BY <3>2, <1>2
    <3>4. a # p
      BY <3>2, <1>2
    <3>5. a \in Address
      BY <3>3, <1>1, <1>2 DEF Address, RootNode, HeapAssumption
    <3> QED
      BY <3>4, <3>5, <1>6
  <2>2. \A a \in Address : w[a] \in Int \/ \E c \in Address : w[a] = m[c]
    BY <1>2, <1>6
  <2> QED
    BY <2>1, <2>2 DEF Turns
<1>20. Turns(m, n, sz, B \ M)
  <2>1. \A x \in B \ M : \A a \in x .. x + sz[x] - 3 : a \in Address
    BY <1>1, SpansIn
  <2> QED
    BY <2>1, <1>18, <1>19, TurnsOn
<1> QED
  BY <1>1, <1>8, <1>12, <1>14, <1>15, <1>16, <1>17, <1>20 DEF Heaped, M

\* Header and footer are written.
LEMMA TagsOn ==
  ASSUME HeapAssumption, NEW m, NEW b, NEW B, NEW sz, NEW A, NEW T, NEW N, Heaped(m, b, B, sz, A, T, N),
         NEW p \in B, p \notin N, p # Prologue, NEW alloc \in {0, 1},
         NEW C, C = (IF alloc = 1 THEN A \union {p} ELSE A \ {p}), NEW n, n = Tag(m, p, sz[p], alloc)
  PROVE  Heaped(n, b, B, sz, C, T \union {p}, N) /\ Turns(m, n, sz, B)
<1>1. /\ DOMAIN m = Address /\ b <= MAX_HEAP /\ Tiled(B, sz, b) /\ A \subseteq B /\ Prologue \in A
      /\ T \subseteq B /\ N \subseteq T \ A
      /\ Tags(m, T, sz, A) /\ m[b - 1] = PACK(0, 1) /\ IsTree(m, N) /\ \A x \in N : m[x] = sz[x]
  BY DEF Heaped
<1>2. /\ b \in Nat /\ \A x \in B : /\ x \in Nat /\ sz[x] \in Nat /\ x >= 2 /\ sz[x] >= 2 /\ x + sz[x] <= b
                                   /\ x # Prologue => sz[x] >= 8 /\ x >= 4
      /\ \A x, q \in B : x = q \/ x + sz[x] <= q \/ q + sz[q] <= x
  BY <1>1, Spans
<1>3. RootNode = -10 /\ NilNode = -5 /\ Parent = 4 /\ MAX_HEAP \in Nat /\ Address = -10 .. MAX_HEAP - 1
      /\ HDRP(p) = p - 1 /\ DSIZE = 2
  BY <1>2 DEF RootNode, NilNode, Parent, HeapAssumption, Address, HDRP, DSIZE
<1>4. IsMemory(m)
  BY <1>1, TreeFacts
<1>20. b \in Nat /\ \A y \in Int : y >= 0 /\ y <= b - 1 => y \in Address
  BY <1>1, <1>2, SpansIn
<1>5. sz[p] \in Nat /\ sz[p] >= 8 /\ p >= 4 /\ p + sz[p] <= b /\ p \in Nat
  BY <1>2
<1>6. p - 1 \in Address /\ p + sz[p] - 2 \in Address /\ p - 1 # p + sz[p] - 2
  <2>1. /\ p - 1 \in Int /\ p - 1 >= 0 /\ p - 1 <= b - 2
        /\ p + sz[p] - 2 \in Int /\ p + sz[p] - 2 >= 0 /\ p + sz[p] - 2 <= b - 2
        /\ p - 1 # p + sz[p] - 2
    BY <1>2, <1>5
  <2> QED
    BY <2>1, <1>20
<1> DEFINE v == PACK(sz[p], alloc)
<1>7. /\ IsMemory(n) /\ DOMAIN n = Address /\ n[p - 1] = v /\ n[p + sz[p] - 2] = v
      /\ \A a \in Address : a # p - 1 /\ a # p + sz[p] - 2 => n[a] = m[a]
  BY <1>1, <1>3, <1>4, <1>6 DEF Tag, IsMemory
<1>8. v \in Int /\ alloc = Bit(C, p)
  BY <1>5 DEF PACK, Bit
<1> HIDE DEF v
<1>9. ASSUME NEW x \in B, x # p
      PROVE  /\ n[x - 1] = m[x - 1] /\ n[x + sz[x] - 2] = m[x + sz[x] - 2]
  <2>1. x + sz[x] <= p \/ p + sz[p] <= x
    BY <1>2, <1>9
  <2>2. x \in Nat /\ sz[x] \in Nat /\ x >= 2 /\ sz[x] >= 2 /\ x + sz[x] <= b
    BY <1>2
  <2>5. x - 1 \in Int /\ x - 1 >= 0 /\ x - 1 <= b - 2 /\ x + sz[x] - 2 \in Int /\ x + sz[x] - 2 >= 0 /\ x + sz[x] - 2 <= b - 2
    BY <2>2, <1>2
  <2>3. x - 1 \in Address /\ x + sz[x] - 2 \in Address
    BY <2>5, <1>20
  <2>4. x - 1 # p - 1 /\ x - 1 # p + sz[p] - 2 /\ x + sz[x] - 2 # p - 1 /\ x + sz[x] - 2 # p + sz[p] - 2
    BY <2>1, <2>2, <1>5
  <2> QED
    BY <2>3, <2>4, <1>7
<1>10. ASSUME NEW x \in B, NEW a \in x .. x + sz[x] - 3
       PROVE  n[a] = m[a]
  <2>1. x = p \/ x + sz[x] <= p \/ p + sz[p] <= x
    BY <1>2
  <2>2. x \in Nat /\ sz[x] \in Nat /\ x >= 2 /\ sz[x] >= 2 /\ x + sz[x] <= b
    BY <1>2
  <2>3. a \in Address
    <3>1. a \in Int /\ a >= 0 /\ a <= b - 2
      BY <2>2, <1>2
    <3> QED
      BY <3>1, <1>20
  <2>4. a # p - 1 /\ a # p + sz[p] - 2
    BY <2>1, <2>2, <1>5
  <2> QED
    BY <2>3, <2>4, <1>7
<1>11. n[b - 1] = m[b - 1]
  <2>1. b - 1 \in Address /\ b - 1 # p - 1 /\ b - 1 # p + sz[p] - 2
    BY <1>5, <1>20
  <2> QED
    BY <2>1, <1>7
<1>12. ASSUME NEW x \in Spots(N), NEW f \in 0 .. Parent
       PROVE  n[x + f] = m[x + f]
  <2> DEFINE y == x + f
  <2>1. y \in Address /\ y # p - 1 /\ y # p + sz[p] - 2
    <3>1. CASE x \in N
      <4>1. x \in B /\ x # p /\ x # Prologue
        BY <3>1, <1>1
      <4>2. x \in Nat /\ x >= 4 /\ sz[x] \in Nat /\ sz[x] >= 8 /\ x + sz[x] <= b
            /\ (x + sz[x] <= p \/ p + sz[p] <= x)
        BY <4>1, <1>2
      <4>3. y \in Int /\ y >= x /\ y <= x + 4
        BY <4>2, <1>3
      <4> HIDE DEF y
      <4>4. y >= 4 /\ y <= MAX_HEAP - 1
        <5>1. b \in Nat /\ b <= MAX_HEAP /\ MAX_HEAP \in Nat
          BY <1>1, <1>2, <1>3
        <5> QED
          BY <4>2, <4>3, <5>1
      <4>5. y # p - 1 /\ y # p + sz[p] - 2
        BY <4>2, <4>3, <1>5
      <4> QED
        BY <4>3, <4>4, <4>5, <1>3
    <3>2. CASE x \in {NilNode, RootNode}
      <4>1. y \in Int /\ y >= -10 /\ y <= -1
        BY <3>2, <1>3
      <4> HIDE DEF y
      <4> QED
        BY <4>1, <1>3, <1>5
    <3> QED
      BY <3>1, <3>2 DEF Spots
  <2> HIDE DEF y
  <2>2. n[y] = m[y]
    BY <2>1, <1>7
  <2> QED
    BY <2>2 DEF y
<1>13. IsTree(n, N)
  BY <1>1, <1>7, <1>12, TreeKept
<1>14. \A x \in N : n[x] = sz[x]
  <2> TAKE x \in N
  <2>1. x \in Spots(N) /\ x + 0 = x /\ 0 \in 0 .. Parent
    BY <1>1, <1>2, <1>3 DEF Spots
  <2>2. n[x + 0] = m[x + 0]
    BY <2>1, <1>12
  <2> QED
    BY <2>1, <2>2, <1>1
<1>15. Tags(n, T \union {p}, sz, C)
  <2>1. \A x \in T : x # p => Bit(C, x) = Bit(A, x)
    BY DEF Bit
  <2>2. \A x \in T : x # p => /\ n[x - 1] = PACK(sz[x], Bit(C, x))
                              /\ n[x + sz[x] - 2] = PACK(sz[x], Bit(C, x))
    BY <2>1, <1>1, <1>9 DEF Tags
  <2>3. n[p - 1] = PACK(sz[p], Bit(C, p)) /\ n[p + sz[p] - 2] = PACK(sz[p], Bit(C, p))
    BY <1>7, <1>8 DEF v
  <2> QED
    BY <2>2, <2>3 DEF Tags
<1>16. Turns(m, n, sz, B)
  <2>1. \A a \in Address : n[a] \in Int \/ \E c \in Address : n[a] = m[c]
    BY <1>7, <1>8
  <2> QED
    BY <2>1, <1>10 DEF Turns
<1>17. C \subseteq B /\ Prologue \in C /\ T \union {p} \subseteq B /\ N \subseteq (T \union {p}) \ C
  BY <1>1
<1> QED
  BY <1>1, <1>7, <1>11, <1>13, <1>14, <1>15, <1>16, <1>17 DEF Heaped

LEMMA TagsUsed ==
  ASSUME HeapAssumption, NEW m, NEW b, NEW B, NEW sz, NEW A, NEW T, NEW N, Heaped(m, b, B, sz, A, T, N),
         NEW p \in B, p \notin N, p # Prologue, NEW n, n = Tag(m, p, sz[p], 1)
  PROVE  Heaped(n, b, B, sz, A \union {p}, T \union {p}, N) /\ Turns(m, n, sz, B)
<1> DEFINE C == A \union {p}
           one == 1
<1>1. C = (IF one = 1 THEN A \union {p} ELSE A \ {p}) /\ one \in {0, 1} /\ n = Tag(m, p, sz[p], one)
  OBVIOUS
<1> HIDE DEF C, one
<1>2. Heaped(n, b, B, sz, C, T \union {p}, N) /\ Turns(m, n, sz, B)
  BY <1>1, TagsOn
<1> QED
  BY <1>2 DEF C

LEMMA TagsFree ==
  ASSUME HeapAssumption, NEW m, NEW b, NEW B, NEW sz, NEW A, NEW T, NEW N, Heaped(m, b, B, sz, A, T, N),
         NEW p \in B, p \notin N, p # Prologue, p \notin A, NEW n, n = Tag(m, p, sz[p], 0)
  PROVE  Heaped(n, b, B, sz, A, T \union {p}, N) /\ Turns(m, n, sz, B)
<1> DEFINE zero == 0
<1>1. A = (IF zero = 1 THEN A \union {p} ELSE A \ {p}) /\ zero \in {0, 1} /\ n = Tag(m, p, sz[p], zero)
  OBVIOUS
<1> HIDE DEF zero
<1> QED
  BY <1>1, TagsOn

\* What is said of headers and footers matters only for the blocks they are right for.
LEMMA Bare ==
  ASSUME NEW m, NEW b, NEW B, NEW sz, NEW A, NEW T, NEW N, Heaped(m, b, B, sz, A, T, N),
         NEW C, NEW S, S \subseteq T, N \subseteq S \ C, C \subseteq B, Prologue \in C,
         \A x \in S : x \in A <=> x \in C
  PROVE  Heaped(m, b, B, sz, C, S, N)
<1>1. /\ DOMAIN m = Address /\ b <= MAX_HEAP /\ Tiled(B, sz, b)
      /\ T \subseteq B /\ Tags(m, T, sz, A) /\ m[b - 1] = PACK(0, 1) /\ IsTree(m, N) /\ \A x \in N : m[x] = sz[x]
  BY DEF Heaped
<1>2. \A x \in S : Bit(C, x) = Bit(A, x)
  BY DEF Bit
<1>3. Tags(m, S, sz, C)
  BY <1>1, <1>2 DEF Tags
<1> QED
  BY <1>1, <1>3 DEF Heaped

\* The block p and the next one, q, are one; then the other way round.
Joined(B, sz, p, q) == [x \in B \ {q} |-> IF x = p THEN sz[p] + sz[q] ELSE sz[x]]
Cleft(B, sz, p, s)  == [x \in B \union {p + s} |-> IF x = p THEN s ELSE IF x = p + s THEN sz[p] - s ELSE sz[x]]

\* The parts of Tiled.
Aligned(B, sz) == \A x \in B : x >= 2 /\ IsEven(x) /\ IsEven(sz[x])
Follows(B, sz, b) == \A x \in B : x + sz[x] \in B \union {b} /\ x + sz[x] <= b
Large(B, sz) == \A x \in B : x # Prologue => sz[x] >= BLK_MIN_SIZE
Preceded(B, sz, x) == \E y \in B : y + sz[y] = x
Apart(B, sz) == \A x, y \in B : x < y => x + sz[x] <= y
LEMMA TiledParts ==
  ASSUME NEW B, NEW sz, NEW b
  PROVE  Tiled(B, sz, b) <=>
           /\ b \in Nat /\ IsEven(b) /\ B \subseteq Nat /\ sz \in [B -> Nat] /\ Prologue \in B /\ sz[Prologue] = DSIZE
           /\ Aligned(B, sz) /\ Follows(B, sz, b) /\ Large(B, sz) /\ Apart(B, sz)
           /\ Preceded(B, sz, b) /\ \A x \in B : x # Prologue => Preceded(B, sz, x)
BY DEF Tiled, Aligned, Follows, Large, Preceded, Apart

LEMMA JoinTiled ==
  ASSUME NEW B, NEW sz, NEW b, Tiled(B, sz, b), NEW p \in B, p # Prologue, NEW q \in B, q = p + sz[p],
         NEW C, C = B \ {q}, NEW s, s = Joined(B, sz, p, q)
  PROVE  Tiled(C, s, b)
<1>1. /\ b \in Nat /\ IsEven(b) /\ B \subseteq Nat /\ sz \in [B -> Nat] /\ Prologue \in B /\ sz[Prologue] = DSIZE
      /\ Aligned(B, sz) /\ Follows(B, sz, b) /\ Large(B, sz) /\ Apart(B, sz)
      /\ Preceded(B, sz, b) /\ \A x \in B : x # Prologue => Preceded(B, sz, x)
  BY TiledParts
<1>2. /\ b \in Nat /\ \A x \in B : /\ x \in Nat /\ sz[x] \in Nat /\ x >= 2 /\ sz[x] >= 2 /\ x + sz[x] <= b
                                   /\ x # Prologue => sz[x] >= 8 /\ x >= 4
      /\ \A x, y \in B : x = y \/ x + sz[x] <= y \/ y + sz[y] <= x
  BY Spans
<1>3. p < q /\ q # Prologue /\ sz[p] >= 8 /\ sz[q] >= 8 /\ p \in Nat /\ q \in Nat
  BY <1>2 DEF Prologue, DSIZE
<1>4. /\ s \in [C -> Nat] /\ s[p] = sz[p] + sz[q] /\ \A x \in C : x # p => s[x] = sz[x]
      /\ p + s[p] = q + sz[q] /\ p \in C /\ \A x \in C : x \in B /\ x # q
  <2>1. p \in C /\ \A x \in C : x \in B /\ x # q
    BY <1>3
  <2>2. \A x \in C : s[x] = IF x = p THEN sz[p] + sz[q] ELSE sz[x]
    BY DEF Joined
  <2>3. s \in [C -> Nat]
    <3>1. sz[p] + sz[q] \in Nat /\ \A x \in C : sz[x] \in Nat
      BY <1>2, <2>1
    <3>2. \A x \in C : s[x] \in Nat
      BY <3>1, <2>2
    <3>3. s = [x \in C |-> s[x]]
      BY DEF Joined
    <3> QED
      BY <3>2, <3>3
  <2>4. s[p] = sz[p] + sz[q] /\ \A x \in C : x # p => s[x] = sz[x]
    BY <2>1, <2>2
  <2>5. p + (sz[p] + sz[q]) = q + sz[q]
    BY <1>2, <1>3
  <2> QED
    BY <2>1, <2>3, <2>4, <2>5
<1>5. Aligned(C, s)
  <2>2. \A x \in B : x >= 2 /\ IsEven(x) /\ IsEven(sz[x])
    BY <1>1 DEF Aligned
  <2>3. IsEven(sz[p]) /\ IsEven(sz[q]) /\ sz[p] \in Int /\ sz[q] \in Int
    BY <2>2, <1>2
  <2>4. IsEven(sz[p] + sz[q])
    BY <2>3, Evens
  <2>1. IsEven(s[p])
    BY <2>4, <1>4
  <2> QED
    BY <2>1, <2>2, <1>4 DEF Aligned
<1>6. \A x \in C : x # p => x + sz[x] # q
  BY <1>2, <1>3, <1>4
<1>7. Follows(C, s, b)
  <2> SUFFICES ASSUME NEW x \in C PROVE x + s[x] \in C \union {b} /\ x + s[x] <= b
    BY DEF Follows
  <2>1. CASE x = p
    <3>1. q + sz[q] \in B \union {b} /\ q + sz[q] <= b /\ q + sz[q] # q
      BY <1>1, <1>2 DEF Follows
    <3> QED
      BY <2>1, <3>1, <1>4
  <2>2. CASE x # p
    <3>1. x + sz[x] \in B \union {b} /\ x + sz[x] <= b
      BY <1>1, <1>4 DEF Follows
    <3> QED
      BY <2>2, <3>1, <1>4, <1>6
  <2> QED
    BY <2>1, <2>2
<1>8. Large(C, s)
  BY <1>1, <1>2, <1>3, <1>4 DEF Large, BLK_MIN_SIZE
<1>9. Apart(C, s)
  <2> SUFFICES ASSUME NEW x \in C, NEW y \in C, x < y PROVE x + s[x] <= y
    BY DEF Apart
  <2>1. x \in B /\ y \in B /\ y # q /\ x # q
    BY <1>4
  <2>2. x + sz[x] <= y
    BY <2>1, <1>1 DEF Apart
  <2>3. q + sz[q] <= y \/ y + sz[y] <= q
    BY <2>1, <1>2
  <2> QED
    BY <2>1, <2>2, <2>3, <1>2, <1>3, <1>4
<1>10. ASSUME NEW x, x # q, Preceded(B, sz, x)
       PROVE  Preceded(C, s, x)
  <2>1. PICK y \in B : y + sz[y] = x
    BY <1>10 DEF Preceded
  <2>2. CASE y = q
    BY <2>1, <2>2, <1>4 DEF Preceded
  <2>3. CASE y = p
    BY <2>1, <2>3, <1>10
  <2>4. CASE y # q /\ y # p
    <3>1. y \in C /\ s[y] = sz[y]
      BY <2>4, <1>4
    <3> QED
      BY <3>1, <2>1 DEF Preceded
  <2> QED
    BY <2>2, <2>3, <2>4
<1>11. b # q
  <2>1. q + sz[q] <= b
    BY <1>2
  <2> QED
    BY <2>1, <1>2, <1>3
<1>12. Preceded(C, s, b) /\ \A x \in C : x # Prologue => Preceded(C, s, x)
  BY <1>1, <1>4, <1>10, <1>11
<1>13. Prologue \in C /\ s[Prologue] = DSIZE /\ C \subseteq Nat
  BY <1>1, <1>3, <1>4
<1> QED
  BY <1>1, <1>4, <1>5, <1>7, <1>8, <1>9, <1>12, <1>13, TiledParts

LEMMA CleaveTiled ==
  ASSUME NEW B, NEW sz, NEW b, Tiled(B, sz, b), NEW p \in B, NEW k \in Nat, IsEven(k), k >= 8, sz[p] - k >= 8,
         NEW q, q = p + k, NEW C, C = B \union {q}, NEW s, s = Cleft(B, sz, p, k)
  PROVE  Tiled(C, s, b) /\ q \notin B /\ p # Prologue
<1>1. /\ b \in Nat /\ IsEven(b) /\ B \subseteq Nat /\ sz \in [B -> Nat] /\ Prologue \in B /\ sz[Prologue] = DSIZE
      /\ Aligned(B, sz) /\ Follows(B, sz, b) /\ Large(B, sz) /\ Apart(B, sz)
      /\ Preceded(B, sz, b) /\ \A x \in B : x # Prologue => Preceded(B, sz, x)
  BY TiledParts
<1>2. /\ b \in Nat /\ \A x \in B : /\ x \in Nat /\ sz[x] \in Nat /\ x >= 2 /\ sz[x] >= 2 /\ x + sz[x] <= b
                                   /\ x # Prologue => sz[x] >= 8 /\ x >= 4
      /\ \A x, y \in B : x = y \/ x + sz[x] <= y \/ y + sz[y] <= x
  BY Spans
<1>3. p # Prologue
  BY <1>1, <1>2 DEF DSIZE
<1>4. p \in Nat /\ q \in Nat /\ sz[p] \in Nat /\ q < p + sz[p] /\ p < q
  BY <1>2
<1>5. \A x \in B : x # q /\ x + sz[x] # q
  <2> TAKE x \in B
  <2>1. x = p \/ x + sz[x] <= p \/ p + sz[p] <= x
    BY <1>2
  <2> QED
    BY <2>1, <1>2, <1>4
<1>6. q \notin B /\ q # Prologue
  BY <1>1, <1>5
<1>7. /\ s \in [C -> Nat] /\ s[p] = k /\ s[q] = sz[p] - k /\ \A x \in B : x # p => s[x] = sz[x]
      /\ p + s[p] = q /\ q + s[q] = p + sz[p] /\ p \in C /\ q \in C
  BY <1>1, <1>2, <1>4, <1>5 DEF Cleft
<1>8. Aligned(C, s)
  <2>1. \A x \in B : x >= 2 /\ IsEven(x) /\ IsEven(sz[x])
    BY <1>1 DEF Aligned
  <2>3. IsEven(p) /\ IsEven(sz[p]) /\ p \in Int /\ sz[p] \in Int /\ k \in Int
    BY <2>1, <1>4
  <2>4. IsEven(p + k) /\ IsEven(sz[p] - k)
    BY <2>3, Evens
  <2>2. IsEven(q) /\ IsEven(s[q]) /\ q >= 2
    BY <2>4, <1>2, <1>4, <1>7
  <2> QED
    BY <2>1, <2>2, <1>7 DEF Aligned
<1>9. Follows(C, s, b)
  <2> SUFFICES ASSUME NEW x \in C PROVE x + s[x] \in C \union {b} /\ x + s[x] <= b
    BY DEF Follows
  <2>1. CASE x = p
    <3>1. q <= b
      BY <1>2, <1>4
    <3> QED
      BY <2>1, <3>1, <1>7
  <2>2. CASE x = q
    BY <2>2, <1>1, <1>7 DEF Follows
  <2>3. CASE x # p /\ x # q
    BY <2>3, <1>1, <1>7 DEF Follows
  <2> QED
    BY <2>1, <2>2, <2>3
<1>10. Large(C, s)
  BY <1>1, <1>4, <1>7 DEF Large, BLK_MIN_SIZE
<1>11. Apart(C, s)
  <2> SUFFICES ASSUME NEW x \in C, NEW y \in C, x < y PROVE x + s[x] <= y
    BY DEF Apart
  <2>1. CASE x \in B /\ y \in B
    <3>1. x + sz[x] <= y
      BY <2>1, <1>1 DEF Apart
    <3>2. CASE x = p
      BY <2>1, <3>1, <3>2, <1>2, <1>4, <1>7
    <3> QED
      BY <2>1, <3>1, <3>2, <1>7
  <2>2. CASE x = q /\ y \in B
    <3>1. y = p \/ y + sz[y] <= p \/ p + sz[p] <= y
      BY <2>2, <1>2
    <3>2. y \in Nat /\ sz[y] \in Nat
      BY <2>2, <1>2
    <3> QED
      BY <2>2, <3>1, <3>2, <1>4, <1>7
  <2>3. CASE y = q /\ x \in B
    <3>1. x = p \/ x + sz[x] <= p \/ p + sz[p] <= x
      BY <2>3, <1>2
    <3>2. x \in Nat /\ sz[x] \in Nat
      BY <2>3, <1>2
    <3> QED
      BY <2>3, <3>1, <3>2, <1>4, <1>7
  <2> QED
    BY <2>1, <2>2, <2>3, <1>4
<1>12. ASSUME NEW x, Preceded(B, sz, x)
       PROVE  Preceded(C, s, x)
  <2>1. PICK y \in B : y + sz[y] = x
    BY <1>12 DEF Preceded
  <2>2. CASE y = p
    BY <2>1, <2>2, <1>7 DEF Preceded
  <2>3. CASE y # p
    BY <2>1, <2>3, <1>7 DEF Preceded
  <2> QED
    BY <2>2, <2>3
<1>13. Preceded(C, s, q)
  BY <1>7 DEF Preceded
<1>14. Preceded(C, s, b) /\ \A x \in C : x # Prologue => Preceded(C, s, x)
  BY <1>1, <1>12, <1>13
<1>15. Prologue \in C /\ s[Prologue] = DSIZE /\ C \subseteq Nat
  BY <1>1, <1>3, <1>4, <1>7
<1> QED
  BY <1>1, <1>3, <1>6, <1>7, <1>8, <1>9, <1>10, <1>11, <1>14, <1>15, TiledParts

LEMMA JoinHeaped ==
  ASSUME NEW m, NEW b, NEW B, NEW sz, NEW A, NEW T, NEW N, Heaped(m, b, B, sz, A, T, N),
         NEW p \in B, p # Prologue, p \notin N, NEW q \in B, q = p + sz[p], q \notin N,
         NEW C, C = B \ {q}, NEW s, s = Joined(B, sz, p, q)
  PROVE  Heaped(m, b, C, s, A \ {q}, T \ {p, q}, N)
<1>1. /\ DOMAIN m = Address /\ b <= MAX_HEAP /\ Tiled(B, sz, b) /\ A \subseteq B /\ Prologue \in A /\ N \subseteq T \ A
      /\ T \subseteq B /\ Tags(m, T, sz, A) /\ m[b - 1] = PACK(0, 1) /\ IsTree(m, N) /\ \A x \in N : m[x] = sz[x]
  BY DEF Heaped
<1>2. Tiled(C, s, b)
  BY <1>1, JoinTiled
<1>3. \A x \in T \ {p, q} : s[x] = sz[x] /\ Bit(A \ {q}, x) = Bit(A, x)
  BY <1>1 DEF Joined, Bit
<1>4. Tags(m, T \ {p, q}, s, A \ {q})
  BY <1>1, <1>3 DEF Tags
<1>5. Prologue # q
  <2>1. p >= 2 /\ sz[p] >= 2 /\ p \in Nat /\ sz[p] \in Nat
    BY <1>1, Spans
  <2> QED
    BY <2>1 DEF Prologue, DSIZE
<1>6. N \subseteq T \ {p, q}
  BY <1>1
<1> QED
  BY <1>1, <1>2, <1>3, <1>4, <1>5, <1>6 DEF Heaped

LEMMA CleaveHeaped ==
  ASSUME NEW m, NEW b, NEW B, NEW sz, NEW A, NEW T, NEW N, Heaped(m, b, B, sz, A, T, N),
         NEW p \in B, p \notin T, NEW k \in Nat, IsEven(k), k >= 8, sz[p] - k >= 8,
         NEW q, q = p + k, NEW C, C = B \union {q}, NEW s, s = Cleft(B, sz, p, k)
  PROVE  Heaped(m, b, C, s, A, T, N) /\ q \notin B /\ p # Prologue
<1>1. /\ DOMAIN m = Address /\ b <= MAX_HEAP /\ Tiled(B, sz, b) /\ A \subseteq B /\ Prologue \in A /\ N \subseteq T \ A
      /\ T \subseteq B /\ Tags(m, T, sz, A) /\ m[b - 1] = PACK(0, 1) /\ IsTree(m, N) /\ \A x \in N : m[x] = sz[x]
  BY DEF Heaped
<1>2. Tiled(C, s, b) /\ q \notin B /\ p # Prologue
  BY <1>1, CleaveTiled
<1>3. \A x \in T : s[x] = sz[x]
  BY <1>1, <1>2 DEF Cleft
<1>4. Tags(m, T, s, A)
  BY <1>1, <1>3 DEF Tags
<1> QED
  BY <1>1, <1>2, <1>3, <1>4 DEF Heaped

\* Between two calls every block has its tags, and the free ones are in the tree.
Sound(m, b, B, sz, A) == Heaped(m, b, B, sz, A, B, B \ A)
\* The block p is being changed: it is not in the tree and its tags may be anything.
Open(m, b, B, sz, A, p) ==
  /\ Heaped(m, b, B, sz, A, B \ {p}, (B \ A) \ {p})
  /\ p \in B /\ p # Prologue /\ p \notin A

LEMMA OpenUsed ==
  ASSUME NEW m, NEW b, NEW B, NEW sz, NEW A, Sound(m, b, B, sz, A), NEW p \in A, p # Prologue
  PROVE  Open(m, b, B, sz, A \ {p}, p)
<1>1. Heaped(m, b, B, sz, A, B, B \ A)
  BY DEF Sound
<1>2. A \subseteq B /\ Prologue \in A
  BY <1>1 DEF Heaped
<1>3. (B \ (A \ {p})) \ {p} = B \ A
  BY <1>2
<1>4. /\ B \ {p} \subseteq B /\ B \ A \subseteq (B \ {p}) \ (A \ {p}) /\ A \ {p} \subseteq B /\ Prologue \in A \ {p}
      /\ \A x \in B \ {p} : x \in A <=> x \in A \ {p}
  BY <1>2
<1>5. Heaped(m, b, B, sz, A \ {p}, B \ {p}, B \ A)
  BY <1>1, <1>4, Bare
<1> QED
  BY <1>2, <1>3, <1>5 DEF Open

LEMMA OpenFree ==
  ASSUME HeapAssumption, NEW m, NEW b, NEW B, NEW sz, NEW A, Sound(m, b, B, sz, A), NEW p \in B, p \notin A,
         NEW n, n = remove_free_block(m, p)
  PROVE  Open(n, b, B, sz, A, p) /\ Turns(m, n, sz, A)
<1>1. Heaped(m, b, B, sz, A, B, B \ A)
  BY DEF Sound
<1>2. A \subseteq B /\ Prologue \in A
  BY <1>1 DEF Heaped
<1>3. p \in B \ A
  OBVIOUS
<1>4. Heaped(n, b, B, sz, A, B, (B \ A) \ {p}) /\ Turns(m, n, sz, B \ (B \ A))
  BY <1>1, <1>3, TakesOut
<1>5. B \ (B \ A) = A
  BY <1>2
<1>6. /\ B \ {p} \subseteq B /\ (B \ A) \ {p} \subseteq (B \ {p}) \ A
      /\ \A x \in B \ {p} : x \in A <=> x \in A
  OBVIOUS
<1>7. Heaped(n, b, B, sz, A, B \ {p}, (B \ A) \ {p})
  BY <1>2, <1>4, <1>6, Bare
<1> QED
  BY <1>2, <1>4, <1>5, <1>7 DEF Open

Ahead(m, b, B, sz, A, p, q) == Open(m, b, B, sz, A, p) /\ q \in B /\ q \notin A /\ q = p + sz[p]
Absorbed(m, n, b, B, sz, A, p, q) ==
  Open(n, b, B \ {q}, Joined(B, sz, p, q), A, p) /\ Turns(m, n, sz, A \union {p}) /\ q # p
LEMMA AbsorbNext ==
  ASSUME HeapAssumption, NEW m, NEW b, NEW B, NEW sz, NEW A, NEW p, NEW q, Ahead(m, b, B, sz, A, p, q)
  PROVE  Absorbed(m, remove_free_block(m, q), b, B, sz, A, p, q)
<1> USE DEF Ahead
<1> DEFINE n == remove_free_block(m, q)
           C == B \ {q}
           s == Joined(B, sz, p, q)
           N == (B \ A) \ {p}
<1>1. Heaped(m, b, B, sz, A, B \ {p}, N) /\ p \in B /\ p # Prologue /\ p \notin A
  BY DEF Open
<1>2. A \subseteq B /\ Prologue \in A /\ Tiled(B, sz, b)
  BY <1>1 DEF Heaped
<1>3. q # p
  <2>1. p \in Nat /\ sz[p] \in Nat /\ sz[p] >= 2
    BY <1>1, <1>2, Spans
  <2> QED
    BY <2>1
<1>4. q \in N
  BY <1>3
<1>5. B \ N = A \union {p}
  BY <1>1, <1>2
<1>0. q \in B /\ q = p + sz[p]
  OBVIOUS
<1>6. N \ {q} = (C \ A) \ {p} /\ (B \ {p}) \ {p, q} = C \ {p} /\ A \ {q} = A /\ p \notin N \ {q} /\ q \notin N \ {q}
  BY <1>1
<1>7. p \in C
  BY <1>1, <1>3
<1> HIDE DEF N, Ahead
<1>8. Heaped(n, b, B, sz, A, B \ {p}, N \ {q}) /\ Turns(m, n, sz, B \ N)
  BY <1>1, <1>4, TakesOut
<1>9. Heaped(n, b, C, s, A \ {q}, (B \ {p}) \ {p, q}, N \ {q})
  BY <1>0, <1>1, <1>6, <1>8, JoinHeaped
<1>10. Heaped(n, b, C, s, A, C \ {p}, (C \ A) \ {p})
  BY <1>6, <1>9
<1> QED
  BY <1>1, <1>3, <1>5, <1>7, <1>8, <1>10 DEF Open, Absorbed

LEMMA AbsorbPrev ==
  ASSUME HeapAssumption, NEW m, NEW b, NEW B, NEW sz, NEW A, NEW p, Open(m, b, B, sz, A, p),
         NEW q \in B, q \notin A, p = q + sz[q], NEW n, n = remove_free_block(m, q),
         NEW C, C = B \ {p}, NEW s, s = Joined(B, sz, q, p)
  PROVE  Open(n, b, C, s, A, q) /\ Turns(m, n, sz, A \union {p}) /\ q # p
<1> DEFINE N == (B \ A) \ {p}
<1>1. Heaped(m, b, B, sz, A, B \ {p}, N) /\ p \in B /\ p # Prologue /\ p \notin A
  BY DEF Open
<1>2. A \subseteq B /\ Prologue \in A /\ Tiled(B, sz, b)
  BY <1>1 DEF Heaped
<1>3. q # p /\ q # Prologue
  <2>1. q \in Nat /\ sz[q] \in Nat /\ sz[q] >= 2
    BY <1>1, <1>2, Spans
  <2> QED
    BY <1>2, <2>1
<1>4. q \in N
  BY <1>3
<1>5. B \ N = A \union {p}
  BY <1>1, <1>2
<1>6. N \ {q} = (C \ A) \ {q} /\ (B \ {p}) \ {q, p} = C \ {q} /\ A \ {p} = A /\ p \notin N \ {q} /\ q \notin N \ {q}
  BY <1>1
<1>7. q \in C
  BY <1>1, <1>3
<1> HIDE DEF N
<1>8. Heaped(n, b, B, sz, A, B \ {p}, N \ {q}) /\ Turns(m, n, sz, B \ N)
  BY <1>1, <1>4, TakesOut
<1>9. Heaped(n, b, C, s, A \ {p}, (B \ {p}) \ {q, p}, N \ {q})
  BY <1>1, <1>3, <1>6, <1>8, JoinHeaped
<1>10. Heaped(n, b, C, s, A, C \ {q}, (C \ A) \ {q})
  BY <1>6, <1>9
<1> QED
  BY <1>3, <1>5, <1>7, <1>8, <1>10 DEF Open

\* The changed block becomes free.
LEMMA Frees ==
  ASSUME HeapAssumption, NEW m, NEW b, NEW B, NEW sz, NEW A, NEW p, Open(m, b, B, sz, A, p),
         NEW n, n = insert_free_block(Tag(m, p, sz[p], 0), p)
  PROVE  Sound(n, b, B, sz, A) /\ Turns(m, n, sz, A)
<1> DEFINE N == (B \ A) \ {p}
           w == Tag(m, p, sz[p], 0)
<1>1. Heaped(m, b, B, sz, A, B \ {p}, N) /\ p \in B /\ p # Prologue /\ p \notin A
  BY DEF Open
<1>2. A \subseteq B /\ Prologue \in A /\ Tiled(B, sz, b) /\ b <= MAX_HEAP
  BY <1>1 DEF Heaped
<1>3. p \notin N /\ (B \ {p}) \union {p} = B
      /\ N \union {p} = B \ A /\ B \ (N \union {p}) = A
  BY <1>1, <1>2
<1> HIDE DEF N, w
<1>4. Heaped(w, b, B, sz, A, (B \ {p}) \union {p}, N) /\ Turns(m, w, sz, B)
  BY <1>1, <1>3, TagsFree DEF w
<1>5. Heaped(w, b, B, sz, A, B, N)
  BY <1>3, <1>4
<1>6. Heaped(n, b, B, sz, A, B, N \union {p}) /\ Turns(w, n, sz, B \ (N \union {p}))
  BY <1>1, <1>3, <1>5, PutsIn DEF w
<1>7. Turns(m, w, sz, A)
  BY <1>2, <1>4 DEF Turns
<1>8. \A x \in A : \A a \in x .. x + sz[x] - 3 : a \in Address
  BY <1>2, SpansIn
<1>9. Turns(m, n, sz, A)
  BY <1>3, <1>6, <1>7, <1>8, TurnsOn
<1> QED
  BY <1>3, <1>6, <1>9 DEF Sound

\* The blocks after a block p of at least k words has been cut to k.
CutAt(B, sz, p, k, C, s) ==
  IF sz[p] - k >= BLK_MIN_SIZE THEN C = B \union {p + k} /\ s = Cleft(B, sz, p, k)
                               ELSE C = B /\ s = sz

LEMMA Carves ==
  ASSUME HeapAssumption, NEW m, NEW b, NEW B, NEW sz, NEW A, NEW p, Open(m, b, B, sz, A, p),
         NEW k \in Nat, IsEven(k), k >= 8, k <= sz[p], NEW n, n = Carve(m, p, sz[p], k),
         NEW C, NEW s, CutAt(B, sz, p, k, C, s)
  PROVE  Sound(n, b, C, s, A \union {p}) /\ Turns(m, n, s, A \union {p})
<1> DEFINE N == (B \ A) \ {p}
<1>1. Heaped(m, b, B, sz, A, B \ {p}, N) /\ p \in B /\ p # Prologue /\ p \notin A
  BY DEF Open
<1>2. A \subseteq B /\ Prologue \in A /\ Tiled(B, sz, b) /\ b <= MAX_HEAP
  BY <1>1 DEF Heaped
<1>3. p \in Nat /\ sz[p] \in Nat /\ BLK_MIN_SIZE = 8
  BY <1>1, <1>2, Spans DEF BLK_MIN_SIZE
<1>4. p \notin N /\ (B \ {p}) \union {p} = B
      /\ N = B \ (A \union {p}) /\ B \ N = A \union {p} /\ A \union {p} \subseteq B
  BY <1>1, <1>2
<1> HIDE DEF N
<1>5. CASE ~(sz[p] - k >= BLK_MIN_SIZE)
  <2>1. C = B /\ s = sz
    BY <1>5 DEF CutAt
  <2>2. n = Tag(m, p, sz[p], 1)
    BY <1>5 DEF Carve
  <2>3. Heaped(n, b, B, sz, A \union {p}, (B \ {p}) \union {p}, N) /\ Turns(m, n, sz, B)
    <3>1. p \notin N
      BY <1>4
    <3> QED
      BY <1>1, <2>2, <3>1, TagsUsed
  <2>4. Turns(m, n, sz, A \union {p})
    BY <1>4, <2>3 DEF Turns
  <2> QED
    BY <1>4, <2>1, <2>3, <2>4 DEF Sound
<1>6. CASE sz[p] - k >= BLK_MIN_SIZE
  <2> DEFINE q == p + k
             a == Tag(m, p, k, 1)
             c == Tag(a, q, sz[p] - k, 0)
  <2>1. C = B \union {q} /\ s = Cleft(B, sz, p, k)
    BY <1>6 DEF CutAt
  <2>2. n = insert_free_block(c, q)
    <3>1. sz[p] - k >= BLK_MIN_SIZE /\ k # sz[p]
      BY <1>3, <1>6
    <3> QED
      BY <3>1 DEF Carve
  <2> HIDE DEF q, a, c
  <2>3. Heaped(m, b, C, s, A, B \ {p}, N) /\ q \notin B
    <3>1. p \notin B \ {p} /\ sz[p] - k >= 8 /\ q = p + k
      BY <1>3, <1>6 DEF q
    <3> QED
      BY <1>1, <2>1, <3>1, CleaveHeaped
  <2>4. s[p] = k /\ s[q] = sz[p] - k /\ p # q /\ p \in C /\ q \in C
    BY <1>1, <1>3, <2>1, <2>3 DEF Cleft, q
  <2>5. Heaped(a, b, C, s, A \union {p}, (B \ {p}) \union {p}, N) /\ Turns(m, a, s, C)
    <3>1. p \in C /\ p \notin N /\ p # Prologue /\ a = Tag(m, p, s[p], 1)
      BY <1>1, <1>4, <2>3, <2>4 DEF a
    <3> QED
      BY <2>3, <3>1, TagsUsed
  <2>6. Heaped(a, b, C, s, A \union {p}, B, N)
    BY <1>4, <2>5
  <2>7. q \notin N /\ q # Prologue
        /\ q \notin A \union {p} /\ B \union {q} = C /\ N \union {q} = C \ (A \union {p})
        /\ C \ (N \union {q}) = A \union {p}
    BY <1>1, <1>2, <1>4, <2>1, <2>3
  <2>8. Heaped(c, b, C, s, A \union {p}, B \union {q}, N) /\ Turns(a, c, s, C)
    <3>1. c = Tag(a, q, s[q], 0)
      BY <2>4 DEF c
    <3> QED
      BY <2>4, <2>6, <2>7, <3>1, TagsFree
  <2>9. Heaped(c, b, C, s, A \union {p}, C, N)
    BY <2>7, <2>8
  <2>10. Heaped(n, b, C, s, A \union {p}, C, N \union {q}) /\ Turns(c, n, s, C \ (N \union {q}))
    BY <2>2, <2>4, <2>7, <2>9, PutsIn
  <2>11. \A x \in A \union {p} : x \in C /\ \A d \in x .. x + s[x] - 3 : d \in Address
    <3>1. Tiled(C, s, b) /\ A \union {p} \subseteq C
      BY <2>9 DEF Heaped
    <3> QED
      BY <1>2, <3>1, Spans DEF Address, RootNode, HeapAssumption
  <2>12. Turns(m, a, s, A \union {p}) /\ Turns(a, c, s, A \union {p})
    BY <2>5, <2>8, <2>11 DEF Turns
  <2>13. Turns(m, c, s, A \union {p})
    BY <2>11, <2>12, TurnsOn
  <2>15. Turns(c, n, s, A \union {p})
    BY <2>7, <2>10
  <2>14. Turns(m, n, s, A \union {p})
    BY <2>11, <2>13, <2>15, TurnsOn
  <2> QED
    BY <2>7, <2>10, <2>14 DEF Sound
<1> QED
  BY <1>5, <1>6

\* The neighbours q and z of a block p, as they are read from the memory.
Flanked(m, B, sz, A, p, q, z) ==
  /\ q \in B /\ q + sz[q] = p /\ q # p /\ z = p + sz[p] /\ z # p /\ z # q
  /\ PREV_BLKP(m, p) = q /\ SizeOf(m, q) = sz[q]
  /\ GET_ALLOC(m[FTRP(m, q)]) = Bit(A, q) /\ GET_ALLOC(m[HDRP(q)]) = Bit(A, q)
  /\ SizeOf(m, p) = sz[p] => NEXT_BLKP(m, p) = z
  /\ z \in B => SizeOf(m, z) = sz[z]
  /\ GET_ALLOC(m[HDRP(z)]) = 0 <=> z \in B \ A

LEMMA AroundOpen ==
  ASSUME NEW m, NEW b, NEW B, NEW sz, NEW A, NEW p, Open(m, b, B, sz, A, p)
  PROVE  \E q : Flanked(m, B, sz, A, p, q, p + sz[p])
<1> DEFINE z == p + sz[p]
           N == (B \ A) \ {p}
<1>1. Heaped(m, b, B, sz, A, B \ {p}, N) /\ p \in B /\ p # Prologue /\ p \notin A
  BY DEF Open
<1> HIDE DEF N
<1>2. Tiled(B, sz, b) /\ m[b - 1] = PACK(0, 1)
  BY <1>1 DEF Heaped
<1>3. PICK q \in B : q + sz[q] = p
  BY <1>1, <1>2 DEF Tiled
<1>4. /\ b \in Nat /\ \A x \in B : /\ x \in Nat /\ sz[x] \in Nat /\ x >= 2 /\ sz[x] >= 2 /\ x + sz[x] <= b
                                   /\ x # Prologue => sz[x] >= 8 /\ x >= 4
      /\ \A x, y \in B : x = y \/ x + sz[x] <= y \/ y + sz[y] <= x
  BY <1>2, Spans
<1>5. q \in Nat /\ sz[q] \in Nat /\ sz[q] >= 2 /\ p \in Nat /\ sz[p] \in Nat /\ sz[p] >= 2
  BY <1>1, <1>4
<1>6. q # p /\ z # p /\ z # q
  BY <1>3, <1>5
<1>7. q \in B \ {p}
  BY <1>6
<1>8. /\ SizeOf(m, q) = sz[q] /\ GET_ALLOC(m[HDRP(q)]) = Bit(A, q) /\ GET_SIZE(m[q + sz[q] - 2]) = sz[q]
      /\ GET_ALLOC(m[FTRP(m, q)]) = Bit(A, q)
  BY <1>1, <1>7, TagsRead
<1>9. PREV_BLKP(m, p) = q
  <2>3. q + sz[q] - 2 = p - 2
    BY <1>3, <1>5
  <2>1. GET_SIZE(m[p - 2]) = sz[q]
    BY <2>3, <1>8
  <2>2. p - sz[q] = q
    BY <1>3, <1>5
  <2> QED
    BY <2>1, <2>2 DEF PREV_BLKP, DSIZE
<1>10. SizeOf(m, p) = sz[p] => NEXT_BLKP(m, p) = z
  BY DEF NEXT_BLKP
<1>11. ASSUME z \in B
       PROVE  SizeOf(m, z) = sz[z] /\ GET_ALLOC(m[HDRP(z)]) = Bit(A, z)
  <2>1. z \in B \ {p}
    BY <1>6, <1>11
  <2> QED
    BY <1>1, <2>1, TagsRead
<1>12. ASSUME z \notin B
       PROVE  GET_ALLOC(m[HDRP(z)]) = 1
  <2>1. z = b
    BY <1>1, <1>2, <1>12 DEF Tiled
  <2> QED
    BY <1>2, <2>1 DEF HDRP, PACK, GET_ALLOC
<1>13. GET_ALLOC(m[HDRP(z)]) = 0 <=> z \in B \ A
  BY <1>11, <1>12 DEF Bit
<1>14. Flanked(m, B, sz, A, p, q, z)
  BY <1>3, <1>6, <1>8, <1>9, <1>10, <1>11, <1>13 DEF Flanked
<1> QED
  BY <1>14

\* Free blocks before a free block.
Neigh(B, sz, A) == {x \in B \ A : x + sz[x] \in B \ A}

\* One element at most is replaced.
LEMMA OneForOne ==
  ASSUME NEW S, IsFiniteSet(S), NEW T, NEW u, NEW v, T \subseteq (S \ {u}) \union {v}, v \in T => u \in S
  PROVE  IsFiniteSet(T) /\ Cardinality(T) <= Cardinality(S)
<1>1. CASE v \notin T
  <2>1. T \subseteq S
    BY <1>1
  <2> QED
    BY <2>1, FS_Subset
<1>2. CASE v \in T
  <2> DEFINE R == S \ {u}
  <2>1. IsFiniteSet(R) /\ Cardinality(R) = Cardinality(S) - 1
    BY <1>2, FS_RemoveElement
  <2>2. Cardinality(R) \in Nat /\ Cardinality(S) \in Nat
    BY <2>1, FS_CardinalityType
  <2> HIDE DEF R
  <2>3. IsFiniteSet(R \union {v})
    BY <2>1, FS_AddElement
  <2>4. Cardinality(R \union {v}) = Cardinality(R) \/ Cardinality(R \union {v}) = Cardinality(R) + 1
    BY <2>1, FS_AddElement
  <2>5. T \subseteq R \union {v}
    BY DEF R
  <2>6. IsFiniteSet(T) /\ Cardinality(T) <= Cardinality(R \union {v})
    BY <2>3, <2>5, FS_Subset
  <2>7. Cardinality(T) \in Nat
    BY <2>6, FS_CardinalityType
  <2> QED
    BY <2>1, <2>2, <2>4, <2>6, <2>7
<1> QED
  BY <1>1, <1>2

LEMMA BlocksFinite ==
  ASSUME NEW B, NEW sz, NEW b, Tiled(B, sz, b), NEW A
  PROVE  IsFiniteSet(B) /\ IsFiniteSet(Neigh(B, sz, A))
<1>1. B \subseteq 0 .. b /\ b \in Nat
  BY Spans
<1>2. IsFiniteSet(0 .. b)
  BY <1>1, FS_Interval
<1>3. IsFiniteSet(B)
  BY <1>1, <1>2, FS_Subset
<1>4. Neigh(B, sz, A) \subseteq B
  BY DEF Neigh
<1> QED
  BY <1>3, <1>4, FS_Subset

\* How the blocks C come from B when p grows to both sides, and then is q or p.
Enlarged(B, sz, A, p, q, C, s, o) ==
  LET z == p + sz[p]
  IN  /\ C \subseteq B /\ o \in C /\ o \notin A /\ s[o] >= sz[p] /\ \A x \in C : x # o => s[x] = sz[x]
      /\ A \subseteq C
      /\ IF q \in A THEN o = p ELSE o = q /\ p \notin C
      /\ IF z \in B \ A THEN z \notin C /\ o + s[o] = z + sz[z] ELSE o + s[o] = z

LEMMA GrownFewer ==
  ASSUME NEW B, NEW sz, NEW b, Tiled(B, sz, b), NEW A, NEW p \in B, p \notin A, NEW q \in B, q + sz[q] = p,
         NEW C, NEW s, NEW o, Enlarged(B, sz, A, p, q, C, s, o)
  PROVE  Cardinality(Neigh(C, s, A)) <= Cardinality(Neigh(B, sz, A \union {p}))
<1> DEFINE z == p + sz[p]
           S == Neigh(B, sz, A \union {p})
           T == Neigh(C, s, A)
<1>1. /\ C \subseteq B /\ o \in C /\ o \notin A /\ \A x \in C : x # o => s[x] = sz[x]
      /\ q \in A => o = p
      /\ q \notin A => o = q /\ p \notin C
      /\ z \in B \ A => z \notin C /\ o + s[o] = z + sz[z]
      /\ z \notin B \ A => o + s[o] = z
  BY DEF Enlarged
<1>2. /\ b \in Nat /\ \A x \in B : /\ x \in Nat /\ sz[x] \in Nat /\ x >= 2 /\ sz[x] >= 2 /\ x + sz[x] <= b
                                   /\ x # Prologue => sz[x] >= 8 /\ x >= 4
      /\ \A x, y \in B : x = y \/ x + sz[x] <= y \/ y + sz[y] <= x
  BY Spans
<1>3. ASSUME NEW x \in T, x # o
      PROVE  x \in S /\ x # z
  <2>1. x \in C /\ x \notin A /\ x + s[x] \in C /\ x + s[x] \notin A /\ s[x] = sz[x] /\ x \in B
    BY <1>1, <1>3 DEF Neigh
  <2>2. x # p
    BY <1>1, <1>3, <2>1
  <2>3. x + sz[x] # p
    <3>1. CASE q \in A
      <4>1. x # q
        BY <2>1, <3>1
      <4> QED
        BY <4>1, <2>1, <1>2
    <3>2. CASE q \notin A
      BY <3>2, <2>1, <1>1
    <3> QED
      BY <3>1, <3>2
  <2>4. x # z
    BY <1>1, <2>1
  <2> QED
    BY <2>1, <2>2, <2>3, <2>4, <1>1 DEF Neigh
<1>4. ASSUME o \in T
      PROVE  z \in S
  <2>1. o + s[o] \in C /\ o + s[o] \notin A
    BY <1>4 DEF Neigh
  <2>2. z \in B /\ z \notin A /\ o + s[o] = z + sz[z]
    BY <2>1, <1>1
  <2>3. p \in Nat /\ sz[p] \in Nat /\ sz[p] >= 2 /\ z \in Nat /\ sz[z] \in Nat
    BY <2>2, <1>2
  <2>4. z # p /\ z + sz[z] # p
    BY <2>3
  <2> QED
    BY <1>1, <2>1, <2>2, <2>4 DEF Neigh
<1>5. IsFiniteSet(S)
  BY BlocksFinite
<1> HIDE DEF S, T, z
<1>6. T \subseteq (S \ {z}) \union {o}
  BY <1>3
<1>7. Cardinality(T) <= Cardinality(S)
  BY <1>4, <1>5, <1>6, OneForOne
<1> QED
  BY <1>7 DEF S, T

\* What coalesce makes of the block p: n and the blocks C, of which o is the new free one.
Coalesced(m, n, b, B, sz, A, p, C, s, o) ==
  /\ Sound(n, b, C, s, A) /\ Turns(m, n, sz, A) /\ o \in C \ A /\ s[o] >= sz[p]
  /\ \A x \in A : x \in C /\ s[x] = sz[x]
  /\ Cardinality(Neigh(C, s, A)) <= Cardinality(Neigh(B, sz, A \union {p}))

\* A free block before p, or after it, is taken out of the tree and joined to p: n, C and s.
PrevTaken(m, n, b, B, sz, A, p, q, C, s, o) ==
  /\ n = IF q \notin A THEN remove_free_block(m, q) ELSE m
  /\ o = IF q \notin A THEN q ELSE p
  /\ Open(n, b, C, s, A, o) /\ Turns(m, n, sz, A \union {p})
  /\ C \subseteq B /\ s[o] = sz[p] + (IF q \notin A THEN sz[q] ELSE 0)
  /\ \A x \in C : x # o => s[x] = sz[x]
  /\ B \subseteq C \union {p} /\ (q \notin A => p \notin C)
  /\ o + s[o] = p + sz[p]
NextTaken(m, n, b, B, sz, A, p, z, C, s) ==
  /\ n = IF z \in B \ A THEN remove_free_block(m, z) ELSE m
  /\ Open(n, b, C, s, A, p) /\ Turns(m, n, sz, A \union {p})
  /\ C \subseteq B /\ s[p] = sz[p] + (IF z \in B \ A THEN sz[z] ELSE 0)
  /\ \A x \in C : x # p => s[x] = sz[x]
  /\ B \subseteq C \union {z}
  /\ IF z \in B \ A THEN z \notin C /\ p + s[p] = z + sz[z] ELSE C = B /\ p + s[p] = z

LEMMA TakesPrev ==
  ASSUME HeapAssumption, NEW m, NEW b, NEW B, NEW sz, NEW A, NEW p, Open(m, b, B, sz, A, p),
         NEW q, q \in B, q + sz[q] = p, q # p
  PROVE  \E n, C, s, o : PrevTaken(m, n, b, B, sz, A, p, q, C, s, o)
<1>1. Tiled(B, sz, b) /\ p \in B /\ p \notin A /\ A \subseteq B
  BY DEF Open, Heaped
<1>2. p \in Nat /\ sz[p] \in Nat /\ q \in Nat /\ sz[q] \in Nat
  BY <1>1, Spans
<1>3. CASE q \notin A
  <2> DEFINE n == remove_free_block(m, q)
             C == B \ {p}
             s == Joined(B, sz, q, p)
  <2>1. Open(n, b, C, s, A, q) /\ Turns(m, n, sz, A \union {p})
    BY <1>3, AbsorbPrev
  <2>2. q \in C /\ s[q] = sz[q] + sz[p] /\ \A x \in C : x # q => s[x] = sz[x]
    BY DEF Joined
  <2>3. C \subseteq B /\ p \notin C /\ B \subseteq C \union {p}
    OBVIOUS
  <2> HIDE DEF C, s, n
  <2>4. s[q] = sz[p] + sz[q] /\ q + s[q] = p + sz[p]
    BY <2>2, <1>2
  <2> QED
    BY <1>3, <2>1, <2>2, <2>3, <2>4 DEF n, PrevTaken
<1>4. CASE q \in A
  <2>1. Turns(m, m, sz, A \union {p})
    BY DEF Turns
  <2>2. sz[p] = sz[p] + 0
    BY <1>2
  <2> QED
    BY <1>2, <1>4, <2>1, <2>2 DEF PrevTaken
<1> QED
  BY <1>3, <1>4

LEMMA TakesNext ==
  ASSUME HeapAssumption, NEW m, NEW b, NEW B, NEW sz, NEW A, NEW p, Open(m, b, B, sz, A, p),
         NEW z, z = p + sz[p]
  PROVE  \E n, C, s : NextTaken(m, n, b, B, sz, A, p, z, C, s)
<1>1. Tiled(B, sz, b) /\ p \in B /\ p \notin A /\ A \subseteq B
  BY DEF Open, Heaped
<1>2. p \in Nat /\ sz[p] \in Nat
  BY <1>1, Spans
<1>3. CASE z \in B \ A
  <2> DEFINE n == remove_free_block(m, z)
             C == B \ {z}
             s == Joined(B, sz, p, z)
  <2>1. Open(n, b, C, s, A, p) /\ Turns(m, n, sz, A \union {p}) /\ z # p
    <3>1. Ahead(m, b, B, sz, A, p, z)
      BY <1>3 DEF Ahead
    <3>2. Absorbed(m, remove_free_block(m, z), b, B, sz, A, p, z)
      BY <3>1, AbsorbNext
    <3> QED
      BY <3>2 DEF Absorbed
  <2>2. p \in C /\ s[p] = sz[p] + sz[z] /\ \A x \in C : x # p => s[x] = sz[x]
    BY <1>1, <2>1 DEF Joined
  <2>3. C \subseteq B /\ z \notin C /\ B \subseteq C \union {z}
    OBVIOUS
  <2> HIDE DEF C, s, n
  <2>5. sz[z] \in Nat
    BY <1>1, <1>3, Spans
  <2>4. p + s[p] = z + sz[z]
    BY <2>2, <2>5, <1>2
  <2> QED
    BY <1>3, <2>1, <2>2, <2>3, <2>4 DEF n, NextTaken
<1>4. CASE z \notin B \ A
  <2>1. Turns(m, m, sz, A \union {p})
    BY DEF Turns
  <2>2. sz[p] = sz[p] + 0
    BY <1>2
  <2> QED
    BY <1>4, <2>1, <2>2 DEF NextTaken
<1> QED
  BY <1>3, <1>4

LEMMA Coalesces ==
  ASSUME HeapAssumption, NEW m, NEW b, NEW B, NEW sz, NEW A, NEW p, Open(m, b, B, sz, A, p), SizeOf(m, p) = sz[p],
         NEW r, r = coalesce(m, p)
  PROVE  \E C, s : Coalesced(m, r.mem, b, B, sz, A, p, C, s, r.bp)
<1> DEFINE z == p + sz[p]
<1>1. PICK q : Flanked(m, B, sz, A, p, q, z)
  BY AroundOpen
<1> HIDE DEF z
<1>2. /\ q \in B /\ q + sz[q] = p /\ q # p /\ z = p + sz[p] /\ z # p /\ z # q
      /\ PREV_BLKP(m, p) = q /\ SizeOf(m, q) = sz[q]
      /\ GET_ALLOC(m[FTRP(m, q)]) = Bit(A, q) /\ NEXT_BLKP(m, p) = z
      /\ z \in B => SizeOf(m, z) = sz[z]
      /\ GET_ALLOC(m[HDRP(z)]) = 0 <=> z \in B \ A
  BY <1>1 DEF Flanked
<1>3. Tiled(B, sz, b) /\ p \in B /\ p \notin A /\ A \subseteq B /\ b <= MAX_HEAP
  BY DEF Open, Heaped
<1> DEFINE withPrev == q \notin A
           withNext == z \in B \ A
<1>4. PICK m1, C1, s1, o : PrevTaken(m, m1, b, B, sz, A, p, q, C1, s1, o)
  BY <1>2, TakesPrev
<1>20. /\ m1 = IF q \notin A THEN remove_free_block(m, q) ELSE m
       /\ o = IF q \notin A THEN q ELSE p
       /\ Open(m1, b, C1, s1, A, o) /\ Turns(m, m1, sz, A \union {p})
       /\ C1 \subseteq B /\ s1[o] = sz[p] + (IF q \notin A THEN sz[q] ELSE 0)
       /\ \A x \in C1 : x # o => s1[x] = sz[x]
       /\ B \subseteq C1 \union {p} /\ (q \notin A => p \notin C1)
       /\ z = o + s1[o]
  BY <1>2, <1>4 DEF PrevTaken
<1>5. PICK m2, C, s : NextTaken(m1, m2, b, C1, s1, A, o, z, C, s)
  BY <1>20, TakesNext
<1>21. /\ m2 = IF z \in C1 \ A THEN remove_free_block(m1, z) ELSE m1
       /\ Open(m2, b, C, s, A, o) /\ Turns(m1, m2, s1, A \union {o})
       /\ C \subseteq C1 /\ s[o] = s1[o] + (IF z \in C1 \ A THEN s1[z] ELSE 0)
       /\ \A x \in C : x # o => s[x] = s1[x]
       /\ C1 \subseteq C \union {z}
       /\ IF z \in C1 \ A THEN z \notin C /\ o + s[o] = z + s1[z] ELSE C = C1 /\ o + s[o] = z
  BY <1>5 DEF NextTaken
<1>6. z \in C1 \ A <=> z \in B \ A
  BY <1>2, <1>20
<1>7. o # z
  BY <1>2, <1>20
<1>8. z \in C1 => s1[z] = sz[z]
  BY <1>20, <1>7
<1>9. o \in C /\ o \notin A /\ o # Prologue
  BY <1>21 DEF Open
<1> DEFINE size == sz[p] + (IF withPrev THEN sz[q] ELSE 0) + (IF withNext THEN sz[z] ELSE 0)
           n == insert_free_block(Tag(m2, o, s[o], 0), o)
<1>10. s[o] = size
  BY <1>20, <1>21, <1>6, <1>8
<1>11. r.mem = n /\ r.bp = o
  <2> DEFINE Leaves(x, y, gone) == IF gone THEN remove_free_block(x, y) ELSE x
             w == [mem |-> Tag(Leaves(Leaves(m, q, withPrev), z, withNext), IF withPrev THEN q ELSE p, size, 0),
                   bp  |-> IF withPrev THEN q ELSE p]
  <2>1. (GET_ALLOC(m[FTRP(m, q)]) = 0) = withPrev /\ (GET_ALLOC(m[HDRP(z)]) = 0) = withNext
    BY <1>2 DEF Bit
  <2>2. r = Inserted(Merge(m, p, q, z, withPrev, withNext))
    BY <1>2, <2>1 DEF coalesce
  <2>3. Merge(m, p, q, z, withPrev, withNext) = w
    BY <1>2 DEF Merge
  <2>4. w.bp = o /\ w.mem = Tag(m2, o, s[o], 0)
    BY <1>20, <1>21, <1>6, <1>10
  <2>5. r.mem = insert_free_block(w.mem, w.bp) /\ r.bp = w.bp
    BY <2>2, <2>3 DEF Inserted
  <2> QED
    BY <2>4, <2>5
<1> HIDE DEF withPrev, withNext, size, n
<1>12. Sound(n, b, C, s, A) /\ Turns(m2, n, s, A)
  BY <1>21, Frees DEF n
<1>13. \A x \in A : x \in C /\ x \in C1 /\ s[x] = sz[x] /\ s1[x] = sz[x]
  <2> TAKE x \in A
  <2>1. x \in B /\ x # p
    BY <1>3
  <2>2. x \in C1
    BY <2>1, <1>20
  <2>3. x \in C
    <3>1. CASE z \in C1 \ A
      BY <2>2, <3>1, <1>21
    <3>2. CASE ~(z \in C1 \ A)
      BY <2>2, <3>2, <1>21
    <3> QED
      BY <3>1, <3>2
  <2> QED
    BY <2>2, <2>3, <1>20, <1>21, <1>9
<1>14. Turns(m, n, sz, A)
  <2>1. \A x \in A : \A a \in x .. x + sz[x] - 3 : a \in Address
    BY <1>3, SpansIn
  <2>2. Turns(m, m1, sz, A)
    BY <1>20 DEF Turns
  <2>3. Turns(m1, m2, sz, A)
    BY <1>21, <1>13 DEF Turns
  <2>4. Turns(m2, n, sz, A)
    BY <1>12, <1>13 DEF Turns
  <2>5. Turns(m, m2, sz, A)
    BY <2>1, <2>2, <2>3, TurnsOn
  <2> QED
    BY <2>1, <2>4, <2>5, TurnsOn
<1>15. sz[p] \in Nat /\ sz[q] \in Nat /\ (z \in B => sz[z] \in Nat)
  BY <1>2, <1>3, Spans
<1>16. s[o] >= sz[p]
  BY <1>10, <1>15 DEF size, withNext
<1>17. Enlarged(B, sz, A, p, q, C, s, o)
  <2>1. C \subseteq B /\ \A x \in C : x # o => s[x] = sz[x]
    BY <1>20, <1>21
  <2>2. IF q \in A THEN o = p ELSE o = q /\ p \notin C
    BY <1>20, <1>21
  <2>3. IF z \in B \ A THEN z \notin C /\ o + s[o] = z + sz[z] ELSE o + s[o] = z
    BY <1>21, <1>6, <1>8
  <2>4. A \subseteq C
    BY <1>13
  <2> QED
    BY <2>1, <2>2, <2>3, <2>4, <1>9, <1>16 DEF Enlarged, z
<1>18. Cardinality(Neigh(C, s, A)) <= Cardinality(Neigh(B, sz, A \union {p}))
  BY <1>2, <1>3, <1>17, GrownFewer
<1>19. Coalesced(m, n, b, B, sz, A, p, C, s, o)
  BY <1>9, <1>12, <1>13, <1>14, <1>16, <1>18 DEF Coalesced
<1> QED
  BY <1>11, <1>19

\* The heap is made longer by a block of k words.
Longer(B, sz, b, k) == [x \in B \union {b} |-> IF x = b THEN k ELSE sz[x]]
LEMMA LongerTiled ==
  ASSUME NEW B, NEW sz, NEW b, Tiled(B, sz, b), NEW k \in Nat, IsEven(k), k >= 8,
         NEW C, C = B \union {b}, NEW s, s = Longer(B, sz, b, k)
  PROVE  Tiled(C, s, b + k) /\ b \notin B /\ b >= 4
<1>1. /\ b \in Nat /\ IsEven(b) /\ B \subseteq Nat /\ sz \in [B -> Nat] /\ Prologue \in B /\ sz[Prologue] = DSIZE
      /\ Aligned(B, sz) /\ Follows(B, sz, b) /\ Large(B, sz) /\ Apart(B, sz)
      /\ Preceded(B, sz, b) /\ \A x \in B : x # Prologue => Preceded(B, sz, x)
  BY TiledParts
<1>2. \A x \in B : x \in Nat /\ sz[x] \in Nat /\ x >= 2 /\ sz[x] >= 2 /\ x + sz[x] <= b
  BY Spans
<1>3. b \notin B /\ b >= 4
  BY <1>1, <1>2
<1>4. s \in [C -> Nat] /\ s[b] = k /\ (\A x \in B : s[x] = sz[x]) /\ b \in C
  <2>1. \A x \in C : s[x] = IF x = b THEN k ELSE sz[x]
    BY DEF Longer
  <2>2. \A x \in C : s[x] \in Nat
    BY <2>1, <1>2
  <2>3. s = [x \in C |-> s[x]]
    BY DEF Longer
  <2>4. s \in [C -> Nat]
    BY <2>2, <2>3
  <2> QED
    BY <2>1, <2>4, <1>3
<1>5. b + k \in Nat /\ IsEven(b + k)
  BY <1>1, Evens
<1>6. Aligned(C, s)
  BY <1>1, <1>3, <1>4 DEF Aligned
<1>7. Follows(C, s, b + k)
  <2> SUFFICES ASSUME NEW x \in C PROVE x + s[x] \in C \union {b + k} /\ x + s[x] <= b + k
    BY DEF Follows
  <2>1. CASE x = b
    BY <2>1, <1>4, <1>5
  <2>2. CASE x \in B
    <3>1. x + s[x] \in B \union {b} /\ x + s[x] <= b /\ s[x] \in Nat /\ x \in Nat
      BY <2>2, <1>1, <1>2, <1>4 DEF Follows
    <3> QED
      BY <3>1, <1>1
  <2> QED
    BY <2>1, <2>2
<1>8. Large(C, s)
  BY <1>1, <1>4 DEF Large, BLK_MIN_SIZE
<1>9. Apart(C, s)
  <2> SUFFICES ASSUME NEW x \in C, NEW y \in C, x < y PROVE x + s[x] <= y
    BY DEF Apart
  <2>1. CASE x = b
    <3>1. y \in B
      BY <2>1, <1>1
    <3> QED
      BY <2>1, <3>1, <1>1, <1>2
  <2>2. CASE x \in B /\ y = b
    BY <2>2, <1>2, <1>4
  <2>3. CASE x \in B /\ y \in B
    BY <2>3, <1>1, <1>4 DEF Apart
  <2> QED
    BY <2>1, <2>2, <2>3
<1>10. Preceded(C, s, b + k) /\ \A x \in C : x # Prologue => Preceded(C, s, x)
  <2>1. Preceded(C, s, b + k)
    BY <1>4 DEF Preceded
  <2>2. ASSUME NEW x, Preceded(B, sz, x) PROVE Preceded(C, s, x)
    BY <2>2, <1>4 DEF Preceded
  <2> QED
    BY <2>1, <2>2, <1>1
<1>11. Prologue \in C /\ s[Prologue] = DSIZE /\ C \subseteq Nat
  BY <1>1, <1>4
<1> QED
  BY <1>3, <1>4, <1>5, <1>6, <1>7, <1>8, <1>9, <1>10, <1>11, TiledParts

\* The new block's tags, of which the header takes the place of the old epilogue.
NewBlock(m, b, k) == [Tag(m, b, k, 0) EXCEPT ![HDRP(b + k)] = PACK(0, 1)]
LEMMA LongerOpen ==
  ASSUME HeapAssumption, NEW m, NEW b, NEW B, NEW sz, NEW A, Sound(m, b, B, sz, A),
         NEW k \in Nat, IsEven(k), k >= 8, b + k <= MAX_HEAP, NEW n, n = NewBlock(m, b, k),
         NEW C, C = B \union {b}, NEW s, s = Longer(B, sz, b, k)
  PROVE  Open(n, b + k, C, s, A, b) /\ Turns(m, n, sz, A) /\ SizeOf(n, b) = k /\ b \notin B
<1> DEFINE N == B \ A
<1>1. /\ DOMAIN m = Address /\ b <= MAX_HEAP /\ Tiled(B, sz, b) /\ A \subseteq B /\ Prologue \in A /\ N \subseteq B \ A
      /\ Tags(m, B, sz, A) /\ m[b - 1] = PACK(0, 1) /\ IsTree(m, N) /\ \A x \in N : m[x] = sz[x]
  BY DEF Heaped, Sound
<1>2. /\ b \in Nat /\ \A x \in B : /\ x \in Nat /\ sz[x] \in Nat /\ x >= 2 /\ sz[x] >= 2 /\ x + sz[x] <= b
                                   /\ x # Prologue => sz[x] >= 8 /\ x >= 4
  BY <1>1, Spans
<1>3. Tiled(C, s, b + k) /\ b \notin B /\ b >= 4
  BY <1>1, LongerTiled
<1>4. s[b] = k /\ \A x \in B : s[x] = sz[x]
  BY <1>3 DEF Longer
<1>5. RootNode = -10 /\ NilNode = -5 /\ Parent = 4 /\ MAX_HEAP \in Nat /\ Address = -10 .. MAX_HEAP - 1
      /\ HDRP(b) = b - 1 /\ DSIZE = 2 /\ HDRP(b + k) = b + k - 1
  BY <1>2 DEF RootNode, NilNode, Parent, HeapAssumption, Address, HDRP, DSIZE
<1>6. IsMemory(m)
  BY <1>1, TreeFacts
<1>7. b - 1 \in Address /\ b + k - 2 \in Address /\ b + k - 1 \in Address /\ b - 1 # b + k - 2 /\ b - 1 # b + k - 1
      /\ b + k - 1 # b + k - 2
  BY <1>2, <1>3, <1>5
<1> DEFINE v == PACK(k, 0)
           e == PACK(0, 1)
<1>8. /\ IsMemory(n) /\ DOMAIN n = Address /\ n[b - 1] = v /\ n[b + k - 2] = v /\ n[b + k - 1] = e
      /\ \A a \in Address : a # b - 1 /\ a # b + k - 2 /\ a # b + k - 1 => n[a] = m[a]
  BY <1>1, <1>5, <1>6, <1>7 DEF NewBlock, Tag, IsMemory
<1>9. v \in Nat /\ GET_SIZE(v) = k /\ e \in Int
  <2>1. 0 \in {0, 1}
    OBVIOUS
  <2> QED
    BY <2>1, Packed DEF PACK
<1> HIDE DEF v, N
<1>10. \A a \in Address : a <= b - 2 => n[a] = m[a]
  <2> TAKE a \in Address
  <2> HAVE a <= b - 2
  <2>1. a \in Int /\ a # b - 1 /\ a # b + k - 2 /\ a # b + k - 1
    BY <1>2, <1>5
  <2> QED
    BY <2>1, <1>8
<1>11. ASSUME NEW x \in B
       PROVE  /\ n[x - 1] = m[x - 1] /\ n[x + sz[x] - 2] = m[x + sz[x] - 2]
              /\ \A a \in x .. x + sz[x] - 3 : a \in Address /\ n[a] = m[a]
  <2> DEFINE c == x - 1
             d == x + sz[x] - 2
  <2>1. x \in Nat /\ sz[x] \in Nat /\ x >= 2 /\ sz[x] >= 2 /\ x + sz[x] <= b
    BY <1>2
  <2>2. c \in Int /\ c >= 1 /\ c <= b - 2 /\ d \in Int /\ d >= 1 /\ d <= b - 2
    BY <2>1, <1>2
  <2> HIDE DEF c, d
  <2>3. c \in Address /\ d \in Address
    BY <2>2, <1>1, <1>2, <1>5
  <2>4. n[c] = m[c] /\ n[d] = m[d]
    BY <2>2, <2>3, <1>10
  <2>5. ASSUME NEW a \in x .. x + sz[x] - 3 PROVE a \in Address /\ n[a] = m[a]
    <3>1. a \in Int /\ a >= 2 /\ a <= b - 3
      BY <2>1, <1>2
    <3>2. a \in Address
      BY <3>1, <1>1, <1>2, <1>5
    <3> QED
      BY <3>1, <3>2, <1>2, <1>10
  <2> QED
    BY <2>4, <2>5 DEF c, d
<1>12. ASSUME NEW x \in Spots(N), NEW f \in 0 .. Parent
       PROVE  n[x + f] = m[x + f]
  <2> DEFINE y == x + f
  <2>1. y \in Address /\ y <= b - 2
    <3>1. CASE x \in N
      <4>1. x \in Nat /\ x >= 4 /\ sz[x] \in Nat /\ sz[x] >= 8 /\ x + sz[x] <= b
        BY <3>1, <1>1, <1>2
      <4>2. y \in Int /\ y >= x /\ y <= x + 4
        BY <4>1, <1>5
      <4> HIDE DEF y
      <4> QED
        BY <4>1, <4>2, <1>1, <1>2, <1>5
    <3>2. CASE x \in {NilNode, RootNode}
      <4>1. y \in Int /\ y >= -10 /\ y <= -1
        BY <3>2, <1>5
      <4> HIDE DEF y
      <4> QED
        BY <4>1, <1>2, <1>3, <1>5
    <3> QED
      BY <3>1, <3>2 DEF Spots
  <2> HIDE DEF y
  <2>2. n[y] = m[y]
    BY <2>1, <1>10
  <2> QED
    BY <2>2 DEF y
<1>13. IsTree(n, N)
  BY <1>1, <1>8, <1>12, TreeKept
<1>14. \A x \in N : n[x] = s[x]
  <2> TAKE x \in N
  <2>1. x \in Spots(N) /\ x + 0 = x /\ 0 \in 0 .. Parent
    BY <1>1, <1>2, <1>5 DEF Spots
  <2>2. n[x + 0] = m[x + 0]
    BY <2>1, <1>12
  <2> QED
    BY <2>1, <2>2, <1>1, <1>4
<1>15. Tags(n, B, s, A)
  BY <1>1, <1>4, <1>11 DEF Tags
<1>16. Turns(m, n, sz, A)
  <2>1. \A a \in Address : n[a] \in Int \/ \E c \in Address : n[a] = m[c]
    BY <1>8, <1>9
  <2> QED
    BY <2>1, <1>1, <1>11 DEF Turns
<1>17. C \ {b} = B /\ (C \ A) \ {b} = N /\ b # Prologue /\ b \notin A /\ b \in C /\ A \subseteq C /\ N \subseteq B \ A /\ B \subseteq C
  BY <1>1, <1>3 DEF N
<1>18. b + k \in Nat /\ n[b + k - 1] = PACK(0, 1)
  BY <1>2, <1>8
<1>19. Heaped(n, b + k, C, s, A, B, N)
  <2> DEFINE c == b + k
  <2>3. Tiled(C, s, c)
    BY <1>3
  <2>4. c <= MAX_HEAP
    OBVIOUS
  <2>5. n[c - 1] = PACK(0, 1)
    <3>1. c - 1 = b + k - 1
      BY <1>2
    <3> QED
      BY <1>2, <1>18, <3>1
  <2>1. Tiled(C, s, c) /\ c <= MAX_HEAP /\ n[c - 1] = PACK(0, 1)
    BY <2>3, <2>4, <2>5
  <2>2. A \subseteq C /\ Prologue \in A /\ B \subseteq C /\ N \subseteq B \ A
    BY <1>1, <1>17
  <2> HIDE DEF c
  <2>6. Heaped(n, c, C, s, A, B, N)
    BY <2>1, <2>2, <1>8, <1>13, <1>14, <1>15 DEF Heaped
  <2> QED
    BY <2>6 DEF c
<1>20. Open(n, b + k, C, s, A, b)
  BY <1>17, <1>19 DEF Open
<1>21. SizeOf(n, b) = k
  BY <1>5, <1>8, <1>9 DEF SizeOf
<1> QED
  BY <1>3, <1>16, <1>20, <1>21

\* Cutting makes no neighbours that are free, other than the rest in place of p.
CutWell(B, sz, A, p, k, C, s) ==
  /\ p \in C /\ k <= s[p] /\ s[p] < k + 8 /\ s[p] <= sz[p] /\ \A x \in A : x \in C /\ s[x] = sz[x]
  /\ Cardinality(Neigh(C, s, A \union {p})) <= Cardinality(Neigh(B, sz, A))
  /\ sz[p] < k + 8 => C = B /\ s = sz
LEMMA CutFacts ==
  ASSUME NEW m, NEW b, NEW B, NEW sz, NEW A, NEW p, Open(m, b, B, sz, A, p),
         NEW k \in Nat, IsEven(k), k >= 8, k <= sz[p], NEW C, NEW s, CutAt(B, sz, p, k, C, s)
  PROVE  CutWell(B, sz, A, p, k, C, s)
<1>1. Tiled(B, sz, b) /\ p \in B /\ p \notin A /\ A \subseteq B
  BY DEF Open, Heaped
<1>2. /\ b \in Nat /\ \A x \in B : /\ x \in Nat /\ sz[x] \in Nat /\ x >= 2 /\ sz[x] >= 2 /\ x + sz[x] <= b
                                   /\ x # Prologue => sz[x] >= 8 /\ x >= 4
      /\ \A x, y \in B : x = y \/ x + sz[x] <= y \/ y + sz[y] <= x
  BY <1>1, Spans
<1> DEFINE S == Neigh(B, sz, A)
           T == Neigh(C, s, A \union {p})
<1>3. IsFiniteSet(S)
  BY <1>1, BlocksFinite
<1>4. CASE sz[p] - k < 8
  <2>1. C = B /\ s = sz
    BY <1>4, <1>1, <1>2 DEF CutAt, BLK_MIN_SIZE
  <2>2. T \subseteq S
    BY <2>1 DEF Neigh
  <2>3. Cardinality(T) <= Cardinality(S)
    BY <1>3, <2>2, FS_Subset
  <2> QED
    BY <1>1, <1>2, <1>4, <2>1, <2>3 DEF CutWell
<1>5. CASE sz[p] - k >= 8
  <2> DEFINE q == p + k
  <2>1. C = B \union {q} /\ s = Cleft(B, sz, p, k)
    BY <1>5 DEF CutAt, BLK_MIN_SIZE
  <2>2. q \notin B /\ p \in Nat /\ sz[p] \in Nat
    BY <1>1, <1>2, <1>5, CleaveTiled
  <2>3. s[p] = k /\ s[q] = sz[p] - k /\ p # q /\ \A x \in B : x # p => s[x] = sz[x]
    BY <1>1, <2>1, <2>2 DEF Cleft
  <2>4. q + s[q] = p + sz[p]
    BY <2>2, <2>3
  <2>5. p < q /\ q + 8 <= p + sz[p]
    BY <2>2, <1>5
  <2> HIDE DEF q
  <2>6. ASSUME NEW x \in T, x # q
        PROVE  x \in S /\ x # p
    <3>1. x \in B /\ x \notin A /\ x # p /\ s[x] = sz[x] /\ x + s[x] \in C /\ x + s[x] \notin A
      BY <2>1, <2>3, <2>6 DEF Neigh
    <3>2. x + sz[x] # q
      <4>1. x + sz[x] <= p \/ p + sz[p] <= x
        BY <1>1, <1>2, <3>1
      <4>2. x \in Nat /\ sz[x] \in Nat
        BY <1>2, <3>1
      <4>3. q \in Int
        BY <2>2 DEF q
      <4> QED
        BY <4>1, <4>2, <4>3, <2>2, <2>5
    <3> QED
      BY <2>1, <3>1, <3>2 DEF Neigh
  <2>7. ASSUME q \in T
        PROVE  p \in S
    <3>1. p + sz[p] \in C /\ p + sz[p] \notin A
      BY <2>4, <2>7 DEF Neigh
    <3>2. p + sz[p] # q
      BY <2>2, <2>5 DEF q
    <3> QED
      BY <1>1, <2>1, <3>1, <3>2 DEF Neigh
  <2>8. \A x \in A : x \in C /\ s[x] = sz[x]
    BY <1>1, <2>1, <2>3
  <2> HIDE DEF S, T
  <2>9. T \subseteq (S \ {p}) \union {q}
    BY <2>6
  <2>10. Cardinality(T) <= Cardinality(S)
    BY <1>3, <2>7, <2>9, OneForOne
  <2> QED
    BY <1>1, <1>5, <2>1, <2>2, <2>3, <2>8, <2>10 DEF S, T, CutWell
<1> QED
  BY <1>1, <1>2, <1>4, <1>5

\* There is now a free block o of at least k words; nothing else has changed for the user.
Roomy(m, n, b, B, sz, A, k, C, s, o) ==
  /\ Sound(n, b, C, s, A) /\ Turns(m, n, sz, A) /\ o \in C \ A /\ s[o] >= k
  /\ \A x \in A : x \in C /\ s[x] = sz[x]
  /\ Cardinality(Neigh(C, s, A)) <= Cardinality(Neigh(B, sz, A))
\* The block o, of about k words, is now allocated.
Given(m, n, b, B, sz, A, k, C, s, o) ==
  /\ Sound(n, b, C, s, A \union {o}) /\ Turns(m, n, sz, A) /\ o \in C /\ o \notin A /\ k <= s[o] /\ s[o] < k + 8
  /\ \A x \in A : x \in C /\ s[x] = sz[x]
  /\ Cardinality(Neigh(C, s, A \union {o})) <= Cardinality(Neigh(B, sz, A))

LEMMA WholeFacts ==
  ASSUME HeapAssumption, NEW m, NEW b, NEW B, NEW sz, NEW A, Sound(m, b, B, sz, A)
  PROVE  /\ Tiled(B, sz, b) /\ A \subseteq B /\ Prologue \in A /\ b <= MAX_HEAP /\ DOMAIN m = Address
         /\ IsTree(m, B \ A) /\ (\A x \in B \ A : m[x] = sz[x]) /\ Tags(m, B, sz, A)
         /\ \A x \in B : x \in Nat /\ sz[x] \in Nat /\ \A a \in x .. x + sz[x] - 3 : a \in Address
         /\ m[b - 1] = PACK(0, 1) /\ IsMemory(m)
<1>1. /\ Tiled(B, sz, b) /\ A \subseteq B /\ Prologue \in A /\ b <= MAX_HEAP /\ DOMAIN m = Address
      /\ IsTree(m, B \ A) /\ (\A x \in B \ A : m[x] = sz[x]) /\ Tags(m, B, sz, A) /\ m[b - 1] = PACK(0, 1)
  BY DEF Sound, Heaped
<1>2. IsMemory(m)
  BY <1>1, TreeFacts
<1>3. \A x \in B : x \in Nat /\ sz[x] \in Nat /\ \A a \in x .. x + sz[x] - 3 : a \in Address
  <2>1. b \in Nat /\ \A x \in B : x \in Nat /\ sz[x] \in Nat /\ x + sz[x] <= b
    BY <1>1, Spans
  <2>2. MAX_HEAP \in Nat /\ Address = -10 .. MAX_HEAP - 1
    BY DEF Address, RootNode, HeapAssumption
  <2>3. ASSUME NEW x \in B, NEW a \in x .. x + sz[x] - 3 PROVE a \in Address
    <3>1. a \in Int /\ a >= 0 /\ a <= b - 3
      BY <2>1
    <3> QED
      BY <3>1, <2>1, <2>2, <1>1
  <2> QED
    BY <2>1, <2>3
<1> QED
  BY <1>1, <1>2, <1>3

LEMMA Places ==
  ASSUME HeapAssumption, NEW m, NEW n, NEW b, NEW B, NEW sz, NEW A, NEW k \in Nat, IsEven(k), k >= 8,
         NEW C, NEW s, NEW o, Roomy(m, n, b, B, sz, A, k, C, s, o), Prologue \in A, A \subseteq B,
         NEW w, w = place(n, o, k), NEW d, Sound(m, d, B, sz, A)
  PROVE  \E D, t : Given(m, w, b, B, sz, A, k, D, t, o)
<1>1. /\ Sound(n, b, C, s, A) /\ Turns(m, n, sz, A) /\ o \in C /\ o \notin A /\ s[o] >= k
      /\ \A x \in A : x \in C /\ s[x] = sz[x]
      /\ Cardinality(Neigh(C, s, A)) <= Cardinality(Neigh(B, sz, A))
  BY DEF Roomy
<1> DEFINE v == remove_free_block(n, o)
           total == s[o]
<1>2. Heaped(n, b, C, s, A, C, C \ A) /\ Tiled(C, s, b)
  BY <1>1 DEF Sound, Heaped
<1>3. SizeOf(n, o) = s[o] /\ s[o] \in Nat
  BY <1>1, <1>2, TagsRead, Spans
<1>4. w = Carve(v, o, s[o], k)
  BY <1>3 DEF place
<1>5. Open(v, b, C, s, A, o) /\ Turns(n, v, s, A)
  BY <1>1, OpenFree
<1>6. PICK D, t : CutAt(C, s, o, k, D, t)
  BY DEF CutAt
<1> HIDE DEF v
<1>7. k <= s[o]
  BY <1>1, <1>3
<1>8. Sound(w, b, D, t, A \union {o}) /\ Turns(v, w, t, A \union {o})
  BY <1>4, <1>5, <1>6, <1>7, Carves
<1>9. /\ o \in D /\ k <= t[o] /\ t[o] < k + 8 /\ \A x \in A : x \in D /\ t[x] = s[x]
      /\ Cardinality(Neigh(D, t, A \union {o})) <= Cardinality(Neigh(C, s, A))
  <2>1. CutWell(C, s, A, o, k, D, t)
    BY <1>5, <1>6, <1>7, CutFacts
  <2> QED
    BY <2>1 DEF CutWell
<1>10. \A x \in A : x \in D /\ t[x] = sz[x] /\ s[x] = sz[x]
  BY <1>1, <1>9
<1>11. Turns(m, w, sz, A)
  <2>1. \A x \in A : \A a \in x .. x + sz[x] - 3 : a \in Address
    BY WholeFacts
  <2>2. Turns(n, v, sz, A) /\ Turns(v, w, sz, A)
    BY <1>5, <1>8, <1>10 DEF Turns
  <2>3. Turns(m, v, sz, A)
    BY <2>1, <2>2, <1>1, TurnsOn
  <2> QED
    BY <2>1, <2>2, <2>3, TurnsOn
<1>12. Cardinality(Neigh(D, t, A \union {o})) <= Cardinality(Neigh(B, sz, A))
  <2>1. Tiled(D, t, b)
    BY <1>8 DEF Sound, Heaped
  <2>2. Tiled(B, sz, d)
    BY WholeFacts
  <2>3. /\ Cardinality(Neigh(D, t, A \union {o})) \in Nat /\ Cardinality(Neigh(C, s, A)) \in Nat
        /\ Cardinality(Neigh(B, sz, A)) \in Nat
    BY <1>2, <2>1, <2>2, BlocksFinite, FS_CardinalityType
  <2> QED
    BY <2>3, <1>1, <1>9
<1>13. Given(m, w, b, B, sz, A, k, D, t, o)
  BY <1>1, <1>8, <1>9, <1>10, <1>11, <1>12 DEF Given
<1> QED
  BY <1>13

EvenUp(k) == IF k % 2 = 1 THEN k + 1 ELSE k
LEMMA EvenUpFacts ==
  ASSUME NEW k \in Nat
  PROVE  EvenUp(k) \in Nat /\ IsEven(EvenUp(k)) /\ EvenUp(k) >= k
BY DEF EvenUp, IsEven

LEMMA Extends ==
  ASSUME HeapAssumption, NEW m, NEW b, NEW B, NEW sz, NEW A, Sound(m, b, B, sz, A), NEW k \in Nat, k >= 8,
         NEW r, r = extend_heap([mem |-> m, brk |-> b], k)
  PROVE  IF b + EvenUp(k) > MAX_HEAP THEN r = Result(m, b, Null)
         ELSE \E C, s : Roomy(m, r.mem, r.brk, B, sz, A, k, C, s, r.bp)
<1> DEFINE h == [mem |-> m, brk |-> b]
           size == EvenUp(k)
           w == NewBlock(m, b, size)
           c == coalesce(w, b)
<1>1. size \in Nat /\ IsEven(size) /\ size >= k /\ size >= 8
  BY EvenUpFacts
<1>2. Tiled(B, sz, b) /\ b \in Nat /\ MAX_HEAP \in Nat /\ A \subseteq B /\ Prologue \in A
  <2>1. Tiled(B, sz, b) /\ A \subseteq B /\ Prologue \in A
    BY WholeFacts
  <2> QED
    BY <2>1 DEF Tiled, HeapAssumption
<1>3. h.mem = m /\ h.brk = b
  OBVIOUS
<1> DEFINE new == mem_sbrk(h, size)
<1>4. r = IF new = h THEN Result(m, b, Null) ELSE Result(c.mem, new.brk, c.bp)
  BY DEF extend_heap, NewBlock, EvenUp
<1>5. CASE b + size > MAX_HEAP
  <2>1. new = h
    BY <1>3, <1>5 DEF mem_sbrk
  <2> QED
    BY <1>4, <1>5, <2>1
<1>6. CASE ~(b + size > MAX_HEAP)
  <2>1. new = [h EXCEPT !.brk = b + size]
    BY <1>1, <1>3, <1>6 DEF mem_sbrk
  <2>2. new.brk = b + size
    BY <2>1
  <2>3. new # h
    BY <2>2, <1>1, <1>2
  <2>4. r.mem = c.mem /\ r.brk = b + size /\ r.bp = c.bp
    BY <1>4, <2>2, <2>3 DEF Result
  <2> DEFINE C0 == B \union {b}
             s0 == Longer(B, sz, b, size)
  <2> HIDE DEF w, c, size, new, h
  <2>5. Open(w, b + size, C0, s0, A, b) /\ Turns(m, w, sz, A) /\ SizeOf(w, b) = size /\ b \notin B
    <3>1. b + size <= MAX_HEAP
      BY <1>1, <1>2, <1>6
    <3> QED
      BY <1>1, <3>1, LongerOpen DEF w
  <2>6. s0[b] = size /\ \A x \in B : s0[x] = sz[x]
    BY <2>5 DEF Longer
  <2> HIDE DEF C0, s0
  <2>7. PICK C, s : Coalesced(w, c.mem, b + size, C0, s0, A, b, C, s, c.bp)
    BY <2>5, <2>6, Coalesces DEF c
  <2>8. /\ Sound(c.mem, b + size, C, s, A) /\ Turns(w, c.mem, s0, A) /\ c.bp \in C \ A /\ s[c.bp] >= s0[b]
        /\ \A x \in A : x \in C /\ s[x] = s0[x]
        /\ Cardinality(Neigh(C, s, A)) <= Cardinality(Neigh(C0, s0, A \union {b}))
    BY <2>7 DEF Coalesced
  <2>9. Neigh(C0, s0, A \union {b}) = Neigh(B, sz, A)
    <3>1. C0 \ (A \union {b}) = B \ A
      BY <2>5 DEF C0
    <3> QED
      BY <2>6, <3>1 DEF Neigh
  <2>10. Turns(m, c.mem, sz, A)
    <3>1. \A x \in A : \A a \in x .. x + sz[x] - 3 : a \in Address
      BY WholeFacts
    <3>2. Turns(w, c.mem, sz, A)
      BY <1>2, <2>6, <2>8 DEF Turns
    <3> QED
      BY <3>1, <3>2, <2>5, TurnsOn
  <2>11. s[c.bp] >= k
    <3>1. Tiled(C, s, b + size)
      BY <2>8 DEF Sound, Heaped
    <3>2. s[c.bp] \in Nat
      BY <2>8, <3>1, Spans
    <3> QED
      BY <2>6, <2>8, <3>2, <1>1
  <2>12. \A x \in A : x \in C /\ s[x] = sz[x]
    BY <1>2, <2>6, <2>8
  <2>13. Roomy(m, c.mem, b + size, B, sz, A, k, C, s, c.bp)
    BY <2>8, <2>9, <2>10, <2>11, <2>12 DEF Roomy
  <2>14. ~(b + EvenUp(k) > MAX_HEAP)
    BY <1>6 DEF size
  <2> QED
    BY <2>4, <2>13, <2>14
<1> QED
  BY <1>5, <1>6

LEMMA AdjustFacts ==
  ASSUME NEW size \in Nat \ {0}
  PROVE  Adjust(size) \in Nat /\ IsEven(Adjust(size)) /\ Adjust(size) >= 8 /\ Adjust(size) >= size + 2
<1> DEFINE d == (size + 3) \div 2
<1>1. d \in Nat /\ 2 * d >= size + 2
  OBVIOUS
<1>2. IsEven(2 * d) /\ IsEven(8)
  <2> HIDE DEF d
  <2> QED
    BY <1>1 DEF IsEven
<1>3. Adjust(size) = IF 8 > 2 * d THEN 8 ELSE 2 * d
  BY DEF Adjust, Max2, BLK_MIN_SIZE, DSIZE
<1> HIDE DEF d
<1> QED
  BY <1>1, <1>2, <1>3

\* mm_malloc gives a block that was not in use, or changes nothing.
LEMMA Mallocs ==
  ASSUME HeapAssumption, NEW m, NEW b, NEW B, NEW sz, NEW A, Sound(m, b, B, sz, A), NEW size \in Nat \ {0},
         NEW r, r = mm_malloc([mem |-> m, brk |-> b], size)
  PROVE  r = Result(m, b, Null) \/ \E C, s : Given(m, r.mem, r.brk, B, sz, A, Adjust(size), C, s, r.bp)
<1> DEFINE k == Adjust(size)
           h == [mem |-> m, brk |-> b]
           o == find_fit(m, k)
           big == Max2(k, CHUNKSIZE)
           e == extend_heap(h, big)
           x == IF o # Null THEN Result(m, b, o) ELSE e
<1>1. k \in Nat /\ IsEven(k) /\ k >= 8
  BY AdjustFacts
<1>2. Tiled(B, sz, b) /\ A \subseteq B /\ Prologue \in A /\ b <= MAX_HEAP /\ IsTree(m, B \ A) /\ \A y \in B \ A : m[y] = sz[y]
  BY DEF Sound, Heaped
<1>3. \A y \in B : y \in Nat /\ y >= 2 /\ sz[y] \in Nat
  BY <1>2, Spans
<1>4. r = IF x.bp = Null THEN x ELSE [x EXCEPT !.mem = place(@, x.bp, k)]
  BY DEF mm_malloc
<1>5. ASSUME NEW C, NEW s, Roomy(m, x.mem, x.brk, B, sz, A, k, C, s, x.bp),
             x = Result(x.mem, x.brk, x.bp)
      PROVE  \E D, t : Given(m, r.mem, r.brk, B, sz, A, k, D, t, r.bp)
  <2> DEFINE w == place(x.mem, x.bp, k)
  <2> HIDE DEF x, k
  <2>1. x.bp \in C /\ Sound(x.mem, x.brk, C, s, A)
    BY <1>5 DEF Roomy
  <2>2. Tiled(C, s, x.brk)
    BY <2>1, WholeFacts
  <2>3. x.bp # Null
    <3>1. x.bp >= 2 /\ x.bp \in Nat
      BY <2>1, <2>2, Spans
    <3> QED
      BY <3>1 DEF Null
  <2>4. r.mem = w /\ r.brk = x.brk /\ r.bp = x.bp
    <3>1. r = [x EXCEPT !.mem = w]
      BY <1>4, <2>3
    <3>2. r = [Result(x.mem, x.brk, x.bp) EXCEPT !.mem = w]
      BY <1>5, <3>1
    <3> QED
      BY <3>2 DEF Result
  <2>5. \E D, t : Given(m, w, x.brk, B, sz, A, k, D, t, x.bp)
    BY <1>1, <1>2, <1>5, Places
  <2> QED
    BY <2>4, <2>5
<1>6. (o = Null /\ \A y \in B \ A : m[y] < k) \/ (o \in B \ A /\ m[o] >= k)
  <2>1. k \in Int
    BY <1>1
  <2> HIDE DEF k
  <2> QED
    BY <1>2, <2>1, QueryFinds DEF find_fit
<1>7. CASE o # Null
  <2>1. x = Result(m, b, o)
    BY <1>7
  <2>2. o \in B \ A /\ sz[o] >= k
    BY <1>2, <1>6, <1>7
  <2>3. Turns(m, m, sz, A)
    BY DEF Turns
  <2>4. Cardinality(Neigh(B, sz, A)) <= Cardinality(Neigh(B, sz, A))
    <3>1. Cardinality(Neigh(B, sz, A)) \in Nat
      BY <1>2, BlocksFinite, FS_CardinalityType
    <3> QED
      BY <3>1
  <2> HIDE DEF x, k, o
  <2>5. Roomy(m, m, b, B, sz, A, k, B, sz, o)
    BY <1>2, <2>2, <2>3, <2>4 DEF Roomy
  <2>6. x.mem = m /\ x.brk = b /\ x.bp = o
    BY <2>1 DEF Result
  <2> QED
    BY <1>5, <2>1, <2>5, <2>6 DEF k
<1>8. CASE o = Null
  <2>1. x = e
    BY <1>8
  <2>2. big \in Nat /\ big >= k /\ big >= 8
    BY <1>1 DEF Max2, HeapAssumption
  <2> HIDE DEF k, o, big
  <2>3. IF b + EvenUp(big) > MAX_HEAP THEN e = Result(m, b, Null)
        ELSE \E C, s : Roomy(m, e.mem, e.brk, B, sz, A, big, C, s, e.bp)
    BY <2>2, Extends
  <2> HIDE DEF x, e
  <2>4. CASE b + EvenUp(big) > MAX_HEAP
    <3>1. x.bp = Null /\ x = Result(m, b, Null)
      BY <2>1, <2>3, <2>4 DEF Result
    <3> QED
      BY <3>1, <1>4
  <2>5. CASE ~(b + EvenUp(big) > MAX_HEAP)
    <3>1. PICK C, s : Roomy(m, e.mem, e.brk, B, sz, A, big, C, s, e.bp)
      BY <2>3, <2>5
    <3>2. Roomy(m, e.mem, e.brk, B, sz, A, k, C, s, e.bp)
      <4>1. Tiled(C, s, e.brk) /\ e.bp \in C
        BY <3>1 DEF Roomy, Sound, Heaped
      <4>2. s[e.bp] \in Nat
        BY <4>1, Spans
      <4>3. s[e.bp] >= big
        BY <3>1 DEF Roomy
      <4>4. s[e.bp] >= k
        BY <4>2, <4>3, <2>2, <1>1
      <4> QED
        BY <3>1, <4>4 DEF Roomy
    <3>3. e = Result(e.mem, e.brk, e.bp)
      BY DEF e, extend_heap, Result
    <3> QED
      BY <1>5, <2>1, <3>2, <3>3 DEF k
  <2> QED
    BY <2>4, <2>5
<1> QED
  BY <1>7, <1>8

\* The block p is free again.
Freed(m, n, b, B, sz, A, p, C, s) ==
  /\ Sound(n, b, C, s, A \ {p}) /\ Turns(m, n, sz, A \ {p})
  /\ \A x \in A \ {p} : x \in C /\ s[x] = sz[x]
  /\ Cardinality(Neigh(C, s, A \ {p})) <= Cardinality(Neigh(B, sz, A))
LEMMA Releases ==
  ASSUME HeapAssumption, NEW m, NEW b, NEW B, NEW sz, NEW A, Sound(m, b, B, sz, A), NEW p \in A, p # Prologue,
         NEW n, n = mm_free(m, p)
  PROVE  \E C, s : Freed(m, n, b, B, sz, A, p, C, s)
<1> DEFINE A1 == A \ {p}
           w == Tag(m, p, sz[p], 0)
           N == (B \ A1) \ {p}
<1>1. Tiled(B, sz, b) /\ A \subseteq B /\ Prologue \in A /\ b <= MAX_HEAP
  BY WholeFacts
<1>2. Open(m, b, B, sz, A1, p)
  BY OpenUsed
<1>3. SizeOf(m, p) = sz[p]
  BY <1>1, TagsRead DEF Sound
<1>4. Heaped(m, b, B, sz, A1, B \ {p}, N) /\ p \in B /\ p \notin A1 /\ p \notin N /\ (B \ {p}) \union {p} = B
      /\ A1 \union {p} = A /\ Prologue \in A1 /\ A1 \subseteq B
  BY <1>1, <1>2 DEF Open
<1> HIDE DEF A1, w, N
<1>5. Heaped(w, b, B, sz, A1, (B \ {p}) \union {p}, N) /\ Turns(m, w, sz, B)
  BY <1>4, TagsFree DEF w
<1>6. Heaped(w, b, B, sz, A1, B, N)
  BY <1>4, <1>5
<1>7. SizeOf(w, p) = sz[p]
  BY <1>4, <1>6, TagsRead
<1>8. Heaped(w, b, B, sz, A1, B \ {p}, N)
  <2>1. B \ {p} \subseteq B /\ N \subseteq (B \ {p}) \ A1 /\ \A x \in B \ {p} : x \in A1 <=> x \in A1
    BY DEF N
  <2> QED
    BY <1>4, <1>6, <2>1, Bare
<1>9. Open(w, b, B, sz, A1, p)
  BY <1>4, <1>8 DEF Open, N
<1>10. PICK C, s : Coalesced(w, coalesce(w, p).mem, b, B, sz, A1, p, C, s, coalesce(w, p).bp)
  BY <1>7, <1>9, Coalesces
<1>11. n = coalesce(w, p).mem
  BY <1>3 DEF mm_free, w
<1>12. /\ Sound(n, b, C, s, A1) /\ Turns(w, n, sz, A1) /\ \A x \in A1 : x \in C /\ s[x] = sz[x]
       /\ Cardinality(Neigh(C, s, A1)) <= Cardinality(Neigh(B, sz, A))
  BY <1>4, <1>10, <1>11 DEF Coalesced
<1>13. Turns(m, n, sz, A1)
  <2>1. \A x \in A1 : \A a \in x .. x + sz[x] - 3 : a \in Address
    <3>1. \A x \in B : \A a \in x .. x + sz[x] - 3 : a \in Address
      BY WholeFacts
    <3> QED
      BY <3>1, <1>4
  <2>2. Turns(m, w, sz, A1)
    BY <1>4, <1>5 DEF Turns
  <2> QED
    BY <2>1, <2>2, <1>12, TurnsOn
<1>14. Freed(m, n, b, B, sz, A, p, C, s)
  BY <1>12, <1>13 DEF Freed, A1
<1> QED
  BY <1>14

\* c words from p on are copied into the payload of the block o.
Copied(m, n, b, B, sz, A, T, N, o, p, c) ==
  /\ Heaped(n, b, B, sz, A, T, N) /\ Turns(m, n, sz, B \ {o})
  /\ \A i \in 0 .. c - 1 : n[o + i] = m[p + i]
Readable(p, c) == p \in Nat /\ c \in Int /\ \A a \in p .. p + c - 1 : a \in Address
LEMMA Copies ==
  ASSUME HeapAssumption, NEW m, NEW b, NEW B, NEW sz, NEW A, NEW T, NEW N, Heaped(m, b, B, sz, A, T, N),
         NEW o \in B, o \notin N, NEW p, NEW c, Readable(p, c), c <= sz[o] - 2
  PROVE  Copied(m, memmove(m, o, p, c), b, B, sz, A, T, N, o, p, c)
<1> DEFINE n == memmove(m, o, p, c)
<1>0. p \in Nat /\ c \in Int /\ \A a \in p .. p + c - 1 : a \in Address
  BY DEF Readable
<1>1. Tiled(B, sz, b) /\ b <= MAX_HEAP /\ DOMAIN m = Address
  BY DEF Heaped
<1>2. /\ b \in Nat /\ \A x \in B : x \in Nat /\ sz[x] \in Nat /\ x >= 2 /\ sz[x] >= 2 /\ x + sz[x] <= b
      /\ \A x, y \in B : x = y \/ x + sz[x] <= y \/ y + sz[y] <= x
  BY <1>1, Spans
<1>3. n = [i \in Address |-> IF i \in o .. o + c - 1 THEN m[i - o + p] ELSE m[i]]
  BY <1>1 DEF memmove
<1> HIDE DEF n
<1>4. IsMemory(n) /\ DOMAIN n = Address
  BY <1>3 DEF IsMemory
<1>5. RootNode = -10 /\ MAX_HEAP \in Nat /\ Address = -10 .. MAX_HEAP - 1
  BY DEF RootNode, Address, HeapAssumption
<1>6. o \in Nat /\ sz[o] \in Nat /\ o + sz[o] <= b
  BY <1>2
<1>7. \A a \in Address : a \notin o .. o + sz[o] - 3 => n[a] = m[a]
  <2> TAKE a \in Address
  <2> HAVE a \notin o .. o + sz[o] - 3
  <2>1. a \notin o .. o + c - 1
    BY <1>0, <1>5, <1>6
  <2> QED
    BY <2>1, <1>3
<1>8. Heaped(n, b, B, sz, A, T, N)
  BY <1>4, <1>7, PayloadWritten
<1>9. ASSUME NEW x \in B \ {o}, NEW a \in x .. x + sz[x] - 3
      PROVE  n[a] = m[a]
  <2>1. x \in Nat /\ sz[x] \in Nat /\ x + sz[x] <= b /\ (x + sz[x] <= o \/ o + sz[o] <= x)
    BY <1>2
  <2>2. a \in Nat /\ a <= b - 3 /\ a \notin o .. o + sz[o] - 3
    BY <2>1, <1>2, <1>6
  <2>3. a \in Address
    <3>1. b \in Nat /\ b <= MAX_HEAP
      BY <1>1, <1>2
    <3> QED
      BY <2>2, <3>1, <1>5
  <2> QED
    BY <2>2, <2>3, <1>7
<1>10. ASSUME NEW a \in Address
       PROVE  \E d \in Address : n[a] = m[d]
  <2>1. CASE a \in o .. o + c - 1
    <3> DEFINE d == a - o + p
    <3>1. d \in p .. p + c - 1
      BY <2>1, <1>0, <1>6
    <3>2. d \in Address
      BY <3>1, <1>0
    <3>3. n[a] = m[d]
      BY <2>1, <1>3
    <3> QED
      BY <3>2, <3>3
  <2>2. CASE a \notin o .. o + c - 1
    BY <2>2, <1>3
  <2> QED
    BY <2>1, <2>2
<1>11. Turns(m, n, sz, B \ {o})
  BY <1>9, <1>10 DEF Turns
<1>12. ASSUME NEW i \in 0 .. c - 1
       PROVE  n[o + i] = m[p + i]
  <2> DEFINE a == o + i
  <2>1. a \in Nat /\ a <= o + sz[o] - 3 /\ a \in o .. o + c - 1 /\ a - o + p = p + i
    BY <1>0, <1>6
  <2>2. a \in Address
    <3>1. b \in Nat /\ b <= MAX_HEAP
      BY <1>1, <1>2
    <3> HIDE DEF a
    <3>2. a \in Nat /\ a <= b - 3
      BY <2>1, <3>1, <1>6
    <3> QED
      BY <3>1, <3>2, <1>5
  <2>3. n[a] = m[a - o + p]
    BY <2>1, <2>2, <1>3
  <2> QED
    BY <2>1, <2>3
<1> QED
  BY <1>8, <1>11, <1>12 DEF Copied, n

\* The block p has been given k words or a few more, and is in use.
Resettled(m, n, b, B, sz, A, p, k, C, s) ==
  /\ Sound(n, b, C, s, A \union {p}) /\ p \in C /\ p \notin A /\ k <= s[p] /\ s[p] < k + 8
  /\ \A x \in A : x \in C /\ s[x] = sz[x]
  /\ Turns(m, n, s, A \union {p}) /\ Turns(m, n, sz, A)
  /\ sz[p] < k + 8 => C = B /\ s = sz

LEMMA Settles ==
  ASSUME HeapAssumption, NEW m, NEW b, NEW B, NEW sz, NEW A, NEW p, Open(m, b, B, sz, A, p),
         NEW k \in Nat, IsEven(k), k >= 8, k <= sz[p], NEW n, n = Carve(m, p, sz[p], k)
  PROVE  \E C, s : Resettled(m, n, b, B, sz, A, p, k, C, s)
<1>1. PICK C, s : CutAt(B, sz, p, k, C, s)
  BY DEF CutAt
<1>2. Sound(n, b, C, s, A \union {p}) /\ Turns(m, n, s, A \union {p})
  BY <1>1, Carves
<1>3. CutWell(B, sz, A, p, k, C, s)
  BY <1>1, CutFacts
<1>4. p \notin A
  BY DEF Open
<1>5. /\ p \in C /\ k <= s[p] /\ s[p] < k + 8 /\ \A x \in A : x \in C /\ s[x] = sz[x]
      /\ sz[p] < k + 8 => C = B /\ s = sz
  BY <1>3 DEF CutWell
<1>6. Turns(m, n, sz, A)
  BY <1>2, <1>5 DEF Turns
<1>7. Resettled(m, n, b, B, sz, A, p, k, C, s)
  BY <1>2, <1>4, <1>5, <1>6 DEF Resettled
<1> QED
  BY <1>7

\* The block p, which was in use, is now at o and has about k words, and its first c words
\* have come along; A are the other blocks in use.
Resized(m, n, b, B, sz, A, p, k, C, s, o, c) ==
  /\ Sound(n, b, C, s, A \union {o}) /\ o \in C /\ o \notin A /\ k <= s[o] /\ s[o] < k + 8
  /\ Turns(m, n, sz, A) /\ \A x \in A : x \in C /\ s[x] = sz[x]
  /\ \A i \in 0 .. c - 1 : n[o + i] = m[p + i]

LEMMA MovesDown ==
  ASSUME HeapAssumption, NEW m, NEW b, NEW B, NEW sz, NEW A, NEW q, Open(m, b, B, sz, A, q),
         NEW k \in Nat, IsEven(k), k >= 8, k <= sz[q],
         NEW p, NEW c, Readable(p, c), c <= k - 2,
         NEW n, n = Carve(memmove(m, q, p, c), q, sz[q], k)
  PROVE  \E C, s : Resized(m, n, b, B, sz, A, p, k, C, s, q, c)
<1> DEFINE N == (B \ A) \ {q}
           w == memmove(m, q, p, c)
<1>1. Heaped(m, b, B, sz, A, B \ {q}, N) /\ q \in B /\ q # Prologue /\ q \notin A
  BY DEF Open
<1>2. Tiled(B, sz, b) /\ A \subseteq B /\ b <= MAX_HEAP
  BY <1>1 DEF Heaped
<1>3. q \in Nat /\ sz[q] \in Nat /\ q \notin N /\ c <= sz[q] - 2 /\ c \in Int
  BY <1>1, <1>2, Spans DEF Readable
<1> HIDE DEF N, w
<1>4. /\ Heaped(w, b, B, sz, A, B \ {q}, N) /\ Turns(m, w, sz, B \ {q})
      /\ \A i \in 0 .. c - 1 : w[q + i] = m[p + i]
  <2>1. Copied(m, w, b, B, sz, A, B \ {q}, N, q, p, c)
    BY <1>1, <1>3, Copies DEF w
  <2> QED
    BY <2>1 DEF Copied
<1>5. Open(w, b, B, sz, A, q)
  BY <1>1, <1>4 DEF Open, N
<1>6. PICK C, s : Resettled(w, n, b, B, sz, A, q, k, C, s)
  BY <1>5, Settles DEF w
<1>7. /\ Sound(n, b, C, s, A \union {q}) /\ q \in C /\ q \notin A /\ k <= s[q] /\ s[q] < k + 8
      /\ \A x \in A : x \in C /\ s[x] = sz[x]
      /\ Turns(w, n, s, A \union {q}) /\ Turns(w, n, sz, A)
  BY <1>6 DEF Resettled
<1>8. Turns(m, n, sz, A)
  <2>1. \A x \in A : \A a \in x .. x + sz[x] - 3 : a \in Address
    BY <1>2, SpansIn
  <2>2. Turns(m, w, sz, A)
    BY <1>1, <1>2, <1>4 DEF Turns
  <2> QED
    BY <2>1, <2>2, <1>7, TurnsOn
<1>9. ASSUME NEW i \in 0 .. c - 1
      PROVE  n[q + i] = m[p + i]
  <2>1. Tiled(C, s, b)
    BY <1>7 DEF Sound, Heaped
  <2>2. s[q] \in Nat
    BY <2>1, <1>7, Spans
  <2>3. q + i \in q .. q + s[q] - 3
    BY <2>2, <1>3, <1>7
  <2>4. n[q + i] = w[q + i]
    BY <2>3, <1>7 DEF Turns
  <2> QED
    BY <2>4, <1>4
<1>10. Resized(m, n, b, B, sz, A, p, k, C, s, q, c)
  BY <1>7, <1>8, <1>9 DEF Resized
<1> QED
  BY <1>10

LEMMA InPlace ==
  ASSUME HeapAssumption, NEW m, NEW b, NEW B, NEW sz, NEW A, NEW p, Open(m, b, B, sz, A, p),
         NEW k \in Nat, IsEven(k), k >= 8, k <= sz[p], NEW n, n = Carve(m, p, sz[p], k),
         NEW c \in Int, c <= k - 2
  PROVE  \E C, s : /\ Resized(m, n, b, B, sz, A, p, k, C, s, p, c)
                   /\ sz[p] < k + 8 => C = B /\ s = sz
<1>1. PICK C, s : Resettled(m, n, b, B, sz, A, p, k, C, s)
  BY Settles
<1>2. /\ Sound(n, b, C, s, A \union {p}) /\ p \in C /\ p \notin A /\ k <= s[p] /\ s[p] < k + 8
      /\ \A x \in A : x \in C /\ s[x] = sz[x]
      /\ Turns(m, n, s, A \union {p}) /\ Turns(m, n, sz, A)
      /\ sz[p] < k + 8 => C = B /\ s = sz
  BY <1>1 DEF Resettled
<1>3. Tiled(C, s, b)
  BY <1>2 DEF Sound, Heaped
<1>4. p \in Nat /\ s[p] \in Nat
  BY <1>2, <1>3, Spans
<1>5. ASSUME NEW i \in 0 .. c - 1
      PROVE  n[p + i] = m[p + i]
  <2>1. p + i \in p .. p + s[p] - 3
    BY <1>2, <1>4
  <2> QED
    BY <2>1, <1>2 DEF Turns
<1>6. Resized(m, n, b, B, sz, A, p, k, C, s, p, c)
  BY <1>2, <1>5 DEF Resized
<1> QED
  BY <1>2, <1>6

\* With the block after it, which is free.
LEMMA IntoNext ==
  ASSUME HeapAssumption, NEW m, NEW b, NEW B, NEW sz, NEW A, NEW p, NEW z, Ahead(m, b, B, sz, A, p, z),
         NEW k \in Nat, IsEven(k), k >= 8, k <= sz[p] + sz[z],
         NEW n, n = Carve(remove_free_block(m, z), p, sz[p] + sz[z], k),
         NEW c \in Int, c <= k - 2, c <= sz[p] - 2
  PROVE  \E C, s : Resized(m, n, b, B, sz, A, p, k, C, s, p, c)
<1> DEFINE w == remove_free_block(m, z)
           B1 == B \ {z}
           s1 == Joined(B, sz, p, z)
<1>1. Open(w, b, B1, s1, A, p) /\ Turns(m, w, sz, A \union {p}) /\ z # p
  BY AbsorbNext DEF Absorbed
<1>2. Tiled(B, sz, b) /\ p \in B /\ z \in B /\ z \notin A /\ A \subseteq B
  BY DEF Ahead, Open, Heaped
<1>3. s1[p] = sz[p] + sz[z] /\ \A x \in A : s1[x] = sz[x]
  <2>1. \A x \in A : x # p
    BY DEF Ahead, Open
  <2> QED
    BY <1>1, <1>2, <2>1 DEF Joined
<1>4. p \in Nat /\ sz[p] \in Nat /\ sz[z] \in Nat
  BY <1>2, Spans
<1> HIDE DEF w, B1, s1
<1>5. k <= s1[p] /\ n = Carve(w, p, s1[p], k)
  BY <1>3 DEF w
<1>6. PICK C, s : Resized(w, n, b, B1, s1, A, p, k, C, s, p, c)
  BY <1>1, <1>5, InPlace
<1>7. /\ Sound(n, b, C, s, A \union {p}) /\ p \in C /\ p \notin A /\ k <= s[p] /\ s[p] < k + 8
      /\ Turns(w, n, s1, A) /\ \A x \in A : x \in C /\ s[x] = s1[x]
      /\ \A i \in 0 .. c - 1 : n[p + i] = w[p + i]
  BY <1>6 DEF Resized
<1>8. \A i \in 0 .. c - 1 : w[p + i] = m[p + i]
  <2> TAKE i \in 0 .. c - 1
  <2>1. p + i \in p .. p + sz[p] - 3
    BY <1>4
  <2> QED
    BY <2>1, <1>1 DEF Turns
<1>9. Turns(m, n, sz, A)
  <2>1. \A x \in A : \A a \in x .. x + sz[x] - 3 : a \in Address
    <3>1. b <= MAX_HEAP
      BY DEF Ahead, Open, Heaped
    <3> QED
      BY <3>1, <1>2, Spans DEF Address, RootNode, HeapAssumption
  <2>2. Turns(m, w, sz, A)
    BY <1>1 DEF Turns
  <2>3. Turns(w, n, sz, A)
    BY <1>3, <1>7 DEF Turns
  <2> QED
    BY <2>1, <2>2, <2>3, TurnsOn
<1>10. Resized(m, n, b, B, sz, A, p, k, C, s, p, c)
  BY <1>3, <1>7, <1>8, <1>9 DEF Resized
<1> QED
  BY <1>10

\* Down to the free block before it, of which C1 and s1 are what has come of joining them;
\* then perhaps also with the block after it.
LEMMA IntoPrev ==
  ASSUME HeapAssumption, NEW m, NEW b, NEW B, NEW sz, NEW A, NEW p, Open(m, b, B, sz, A, p),
         NEW q \in B, q \notin A, q + sz[q] = p, q # p,
         NEW c, Readable(p, c), c <= sz[p] - 2,
         NEW k \in Nat, IsEven(k), k >= 8, k <= sz[p] + sz[q], c <= k - 2,
         NEW n, n = Carve(memmove(remove_free_block(m, q), q, p, c), q, sz[p] + sz[q], k)
  PROVE  \E C, s : Resized(m, n, b, B, sz, A, p, k, C, s, q, c)
<1>1. PICK w, C1, s1, o : PrevTaken(m, w, b, B, sz, A, p, q, C1, s1, o)
  BY TakesPrev
<1>2. /\ w = remove_free_block(m, q) /\ o = q
      /\ Open(w, b, C1, s1, A, q) /\ Turns(m, w, sz, A \union {p})
      /\ s1[q] = sz[p] + sz[q] /\ \A x \in C1 : x # q => s1[x] = sz[x]
      /\ C1 \subseteq B
  BY <1>1 DEF PrevTaken
<1>3. Tiled(B, sz, b) /\ p \in B /\ p \notin A /\ A \subseteq B /\ b <= MAX_HEAP
  BY DEF Open, Heaped
<1>4. \A x \in A : s1[x] = sz[x]
  <2>1. A \subseteq C1
    BY <1>2 DEF Open, Heaped
  <2> QED
    BY <2>1, <1>2
<1>5. k <= s1[q] /\ n = Carve(memmove(w, q, p, c), q, s1[q], k)
  BY <1>2
<1>11. PICK C, s : Resized(w, n, b, C1, s1, A, p, k, C, s, q, c)
  BY <1>2, <1>5, MovesDown
<1>6. /\ Sound(n, b, C, s, A \union {q}) /\ q \in C /\ q \notin A /\ k <= s[q] /\ s[q] < k + 8
      /\ \A x \in A : x \in C /\ s[x] = s1[x]
      /\ Turns(w, n, s1, A) /\ \A i \in 0 .. c - 1 : n[q + i] = w[p + i]
  BY <1>11 DEF Resized
<1>7. p \in Nat /\ sz[p] \in Nat /\ c \in Int
  BY <1>3, Spans DEF Readable
<1>8. \A i \in 0 .. c - 1 : w[p + i] = m[p + i]
  <2> TAKE i \in 0 .. c - 1
  <2>1. p + i \in p .. p + sz[p] - 3
    BY <1>7
  <2> QED
    BY <2>1, <1>2 DEF Turns
<1>9. Turns(m, n, sz, A)
  <2>1. \A x \in A : \A a \in x .. x + sz[x] - 3 : a \in Address
    BY <1>3, SpansIn
  <2>2. Turns(m, w, sz, A)
    BY <1>2 DEF Turns
  <2>3. Turns(w, n, sz, A)
    BY <1>4, <1>6 DEF Turns
  <2> QED
    BY <2>1, <2>2, <2>3, TurnsOn
<1>10. Resized(m, n, b, B, sz, A, p, k, C, s, q, c)
  BY <1>4, <1>6, <1>8, <1>9 DEF Resized
<1> QED
  BY <1>10

LEMMA IntoBoth ==
  ASSUME HeapAssumption, NEW m, NEW b, NEW B, NEW sz, NEW A, NEW p, Open(m, b, B, sz, A, p),
         NEW q \in B, q \notin A, q + sz[q] = p, q # p,
         NEW z \in B, z \notin A, z = p + sz[p], z # p, z # q,
         NEW c, Readable(p, c), c <= sz[p] - 2,
         NEW k \in Nat, IsEven(k), k >= 8, k <= sz[p] + sz[q] + sz[z], c <= k - 2,
         NEW n, n = Carve(memmove(remove_free_block(remove_free_block(m, q), z), q, p, c),
                          q, sz[p] + sz[q] + sz[z], k)
  PROVE  \E C, s : Resized(m, n, b, B, sz, A, p, k, C, s, q, c)
<1>1. PICK w, C1, s1, o : PrevTaken(m, w, b, B, sz, A, p, q, C1, s1, o)
  BY TakesPrev
<1>2. /\ w = remove_free_block(m, q) /\ o = q
      /\ Open(w, b, C1, s1, A, q) /\ Turns(m, w, sz, A \union {p})
      /\ s1[q] = sz[p] + sz[q] /\ \A x \in C1 : x # q => s1[x] = sz[x]
      /\ C1 \subseteq B /\ B \subseteq C1 \union {p} /\ z = q + s1[q]
  BY <1>1 DEF PrevTaken
<1>3. Tiled(B, sz, b) /\ p \in B /\ p \notin A /\ A \subseteq B /\ b <= MAX_HEAP
  BY DEF Open, Heaped
<1>4. z \in C1 \ A /\ s1[z] = sz[z]
  BY <1>2
<1>5. PICK v, C2, s2 : NextTaken(w, v, b, C1, s1, A, q, z, C2, s2)
  BY <1>2, TakesNext
<1>6. /\ v = remove_free_block(w, z)
      /\ Open(v, b, C2, s2, A, q) /\ Turns(w, v, s1, A \union {q})
      /\ s2[q] = s1[q] + sz[z] /\ \A x \in C2 : x # q => s2[x] = s1[x]
      /\ C2 \subseteq C1
  BY <1>4, <1>5 DEF NextTaken
<1>7. \A x \in A : s1[x] = sz[x] /\ s2[x] = sz[x]
  <2>1. A \subseteq C2 /\ q \notin A
    BY <1>6 DEF Open, Heaped
  <2> QED
    BY <2>1, <1>2, <1>6
<1>8. k <= s2[q] /\ n = Carve(memmove(v, q, p, c), q, s2[q], k)
  BY <1>2, <1>6
<1>14. PICK C, s : Resized(v, n, b, C2, s2, A, p, k, C, s, q, c)
  BY <1>6, <1>8, MovesDown
<1>9. /\ Sound(n, b, C, s, A \union {q}) /\ q \in C /\ q \notin A /\ k <= s[q] /\ s[q] < k + 8
      /\ \A x \in A : x \in C /\ s[x] = s2[x]
      /\ Turns(v, n, s2, A) /\ \A i \in 0 .. c - 1 : n[q + i] = v[p + i]
  BY <1>14 DEF Resized
<1>10. p \in Nat /\ sz[p] \in Nat /\ c \in Int /\ q \in Nat /\ sz[q] \in Nat
  BY <1>3, Spans DEF Readable
<1>11. \A i \in 0 .. c - 1 : v[p + i] = m[p + i]
  <2> TAKE i \in 0 .. c - 1
  <2>1. p + i \in p .. p + sz[p] - 3
    BY <1>10
  <2>2. p + i \in q .. q + s1[q] - 3
    BY <1>2, <1>10
  <2>3. v[p + i] = w[p + i]
    BY <2>2, <1>6 DEF Turns
  <2>4. w[p + i] = m[p + i]
    BY <2>1, <1>2 DEF Turns
  <2> QED
    BY <2>3, <2>4
<1>12. Turns(m, n, sz, A)
  <2>1. \A x \in A : \A a \in x .. x + sz[x] - 3 : a \in Address
    BY <1>3, SpansIn
  <2>2. Turns(m, w, sz, A)
    BY <1>2 DEF Turns
  <2>3. Turns(w, v, sz, A)
    BY <1>6, <1>7 DEF Turns
  <2>4. Turns(v, n, sz, A)
    BY <1>7, <1>9 DEF Turns
  <2>5. Turns(m, v, sz, A)
    BY <2>1, <2>2, <2>3, TurnsOn
  <2> QED
    BY <2>1, <2>4, <2>5, TurnsOn
<1>13. Resized(m, n, b, B, sz, A, p, k, C, s, q, c)
  BY <1>7, <1>9, <1>11, <1>12 DEF Resized
<1> QED
  BY <1>13

LEMMA MallocShape ==
  ASSUME NEW m, NEW b, NEW size, NEW r, r = mm_malloc([mem |-> m, brk |-> b], size)
  PROVE  r = Result(r.mem, r.brk, r.bp)
<1> DEFINE h == [mem |-> m, brk |-> b]
           k == Adjust(size)
           o == find_fit(m, k)
           e == extend_heap(h, Max2(k, CHUNKSIZE))
           x == IF o # Null THEN Result(m, b, o) ELSE e
           y == IF x.bp = Null THEN x ELSE [x EXCEPT !.mem = place(@, x.bp, k)]
<1>1. e = Result(e.mem, e.brk, e.bp)
  BY DEF extend_heap, Result
<1>2. r = IF size = 0 THEN Result(m, b, Null) ELSE y
  BY DEF mm_malloc
<1> HIDE DEF e, o
<1>3. x = Result(x.mem, x.brk, x.bp)
  BY <1>1 DEF Result
<1> HIDE DEF x
<1>4. y = Result(y.mem, y.brk, y.bp)
  <2>1. \E mm, bb, pp : x = [mem |-> mm, brk |-> bb, bp |-> pp]
    BY <1>3 DEF Result
  <2> QED
    BY <2>1 DEF Result
<1> HIDE DEF y
<1> QED
  BY <1>2, <1>4 DEF Result

\* To a block elsewhere; the old one is freed.
LEMMA IntoOther ==
  ASSUME HeapAssumption, NEW m, NEW b, NEW B, NEW sz, NEW A, Sound(m, b, B, sz, A), NEW p \in A, p # Prologue,
         NEW size \in Nat \ {0}, NEW c, Readable(p, c), c <= sz[p] - 2, c <= size,
         NEW r, r = MoveAway([mem |-> m, brk |-> b], p, size, c)
  PROVE  \/ r = Result(m, b, Null)
         \/ \E C, s : Resized(m, r.mem, r.brk, B, sz, A \ {p}, p, Adjust(size), C, s, r.bp, c)
<1> DEFINE h == [mem |-> m, brk |-> b]
           x == mm_malloc(h, size)
           k == Adjust(size)
           A1 == A \ {p}
           w == memmove(x.mem, x.bp, p, c)
           n == mm_free(w, p)
<1>1. r = IF x.bp = Null THEN x ELSE [x EXCEPT !.mem = mm_free(memmove(@, x.bp, p, c), p)]
  BY DEF MoveAway
<1>2. x = Result(m, b, Null) \/ \E D, t : Given(m, x.mem, x.brk, B, sz, A, k, D, t, x.bp)
  BY Mallocs
<1>3. x = Result(x.mem, x.brk, x.bp)
  BY MallocShape
<1>4. k \in Nat /\ k >= size + 2
  BY AdjustFacts
<1>5. Tiled(B, sz, b) /\ A \subseteq B /\ \A y \in A : \A a \in y .. y + sz[y] - 3 : a \in Address
  BY WholeFacts
<1>6. p \in Nat /\ sz[p] \in Nat /\ c \in Int
  BY <1>5, Spans DEF Readable
<1> HIDE DEF x, w, n, k, A1
<1>7. CASE x = Result(m, b, Null)
  BY <1>1, <1>7 DEF Result
<1>8. ASSUME NEW D, NEW t, Given(m, x.mem, x.brk, B, sz, A, k, D, t, x.bp)
      PROVE  \E C, s : Resized(m, r.mem, r.brk, B, sz, A1, p, k, C, s, r.bp, c)
  <2> DEFINE o == x.bp
             u == x.mem
             d == x.brk
             E == A \union {o}
             N == D \ E
  <2>1. /\ Sound(u, d, D, t, E) /\ Turns(m, u, sz, A) /\ o \in D /\ o \notin A /\ k <= t[o] /\ t[o] < k + 8
        /\ \A y \in A : y \in D /\ t[y] = sz[y]
    BY <1>8 DEF Given
  <2>2. Tiled(D, t, d) /\ E \subseteq D
    BY <2>1 DEF Sound, Heaped
  <2>3. o \in Nat /\ o >= 2 /\ t[o] \in Nat
    BY <2>1, <2>2, Spans
  <2>4. r.mem = n /\ r.brk = d /\ r.bp = o
    <3>1. x.bp # Null
      BY <2>3 DEF Null
    <3>2. r = [Result(x.mem, x.brk, x.bp) EXCEPT !.mem = n]
      BY <1>1, <1>3, <3>1 DEF n, w
    <3> QED
      BY <3>2 DEF Result
  <2> HIDE DEF u, d, o
  <2>5. Copied(u, w, d, D, t, E, D, N, o, p, c)
    <3>1. Heaped(u, d, D, t, E, D, N) /\ o \notin N /\ c <= t[o] - 2
      BY <1>4, <1>6, <2>1, <2>3 DEF Sound
    <3>2. w = memmove(u, o, p, c)
      BY DEF w, u, o
    <3> HIDE DEF N, E
    <3> QED
      BY <2>1, <3>1, <3>2, Copies
  <2>6. /\ Sound(w, d, D, t, E) /\ Turns(u, w, t, D \ {o})
        /\ \A i \in 0 .. c - 1 : w[o + i] = u[p + i]
    BY <2>5 DEF Copied, Sound
  <2>7. p \in E /\ E \ {p} = A1 \union {o} /\ o # p
    BY <2>1 DEF A1
  <2> HIDE DEF E, N
  <2>8. PICK C, s : Freed(w, n, d, D, t, E, p, C, s)
    BY <2>6, <2>7, Releases DEF n
  <2>9. /\ Sound(n, d, C, s, A1 \union {o}) /\ Turns(w, n, t, A1 \union {o})
        /\ \A y \in A1 \union {o} : y \in C /\ s[y] = t[y]
    BY <2>7, <2>8 DEF Freed
  <2>10. ASSUME NEW i \in 0 .. c - 1
         PROVE  n[o + i] = m[p + i]
    <3>1. p + i \in p .. p + sz[p] - 3
      BY <1>6
    <3>2. u[p + i] = m[p + i]
      BY <3>1, <2>1 DEF Turns
    <3>3. o + i \in o .. o + t[o] - 3
      BY <1>4, <1>6, <2>1, <2>3
    <3>4. n[o + i] = w[o + i]
      BY <3>3, <2>9 DEF Turns
    <3> QED
      BY <3>2, <3>4, <2>6
  <2>11. Turns(m, n, sz, A1)
    <3>1. \A y \in A1 : y \in A /\ y # o /\ t[y] = sz[y] /\ y \in D
      BY <2>1 DEF A1
    <3>2. Turns(m, u, sz, A1)
      BY <2>1, <3>1 DEF Turns
    <3>3. Turns(u, w, sz, A1)
      BY <2>6, <3>1 DEF Turns
    <3>4. Turns(w, n, sz, A1)
      BY <2>9, <3>1 DEF Turns
    <3>5. \A y \in A1 : \A a \in y .. y + sz[y] - 3 : a \in Address
      BY <1>5, <3>1
    <3>6. Turns(m, w, sz, A1)
      BY <3>2, <3>3, <3>5, TurnsOn
    <3> QED
      BY <3>4, <3>5, <3>6, TurnsOn
  <2>12. o \notin A1 /\ \A y \in A1 : y \in C /\ s[y] = sz[y]
    BY <2>1, <2>9 DEF A1
  <2>13. o \in C /\ k <= s[o] /\ s[o] < k + 8
    BY <2>1, <2>9
  <2>14. Resized(m, n, d, B, sz, A1, p, k, C, s, o, c)
    BY <2>9, <2>10, <2>11, <2>12, <2>13 DEF Resized
  <2> QED
    BY <2>4, <2>14
<1> QED
  BY <1>2, <1>7, <1>8 DEF A1, k

\* What mm_realloc makes of the block p of A. When the size stays, so does the block.
Regiven(m, b, B, sz, A, p, k, r, n, C, s) ==
  /\ Resized(m, r.mem, r.brk, B, sz, A \ {p}, p, k, C, s, r.bp, n)
  /\ k <= sz[p] /\ sz[p] < k + 8 => C = B /\ s = sz /\ r.brk = b /\ r.bp = p

\* mm_realloc gives a block of the new size with what was in the old one, as far as it
\* goes, or changes nothing. A block that is of the new size already stays as it is.
LEMMA Reallocs ==
  ASSUME HeapAssumption, NEW m, NEW b, NEW B, NEW sz, NEW A, Sound(m, b, B, sz, A), NEW p \in A, p # Prologue,
         NEW size \in Nat \ {0}, NEW c, c = Min2(sz[p] - 2, size),
         NEW r, r = mm_realloc([mem |-> m, brk |-> b], p, size)
  PROVE  r = Result(m, b, Null) \/ \E C, s : Regiven(m, b, B, sz, A, p, Adjust(size), r, c, C, s)
<1> SUFFICES \/ r = Result(m, b, Null)
             \/ \E C, s : /\ Resized(m, r.mem, r.brk, B, sz, A \ {p}, p, Adjust(size), C, s, r.bp, c)
                          /\ Adjust(size) <= sz[p] /\ sz[p] < Adjust(size) + 8 => C = B /\ s = sz /\ r.brk = b /\ r.bp = p
  BY DEF Regiven
<1> DEFINE k == Adjust(size)
           A1 == A \ {p}
           z == p + sz[p]
           h == [mem |-> m, brk |-> b]
<1>1. k \in Nat /\ k >= size + 2 /\ IsEven(k) /\ k >= 8
  BY AdjustFacts
<1>2. Tiled(B, sz, b) /\ A \subseteq B /\ \A y \in A : \A a \in y .. y + sz[y] - 3 : a \in Address
  BY WholeFacts
<1>3. p \in Nat /\ sz[p] \in Nat /\ p >= 2 /\ sz[p] >= 2
  BY <1>2, Spans
<1>4. c \in Int /\ c <= sz[p] - 2 /\ c <= size /\ c <= k - 2
  BY <1>1, <1>3 DEF Min2
<1>5. Readable(p, c)
  <2>1. \A a \in p .. p + c - 1 : a \in p .. p + sz[p] - 3
    BY <1>3, <1>4
  <2> QED
    BY <2>1, <1>2, <1>3, <1>4 DEF Readable
<1>6. Open(m, b, B, sz, A1, p)
  BY OpenUsed
<1>7. PICK q : Flanked(m, B, sz, A1, p, q, z)
  BY <1>6, AroundOpen
<1>8. SizeOf(m, p) = sz[p]
  BY <1>2, TagsRead DEF Sound
<1> HIDE DEF k, A1, z, h
<1>9. /\ q \in B /\ q + sz[q] = p /\ q # p /\ z = p + sz[p] /\ z # p /\ z # q
      /\ PREV_BLKP(m, p) = q /\ SizeOf(m, q) = sz[q]
      /\ GET_ALLOC(m[HDRP(q)]) = Bit(A1, q) /\ NEXT_BLKP(m, p) = z
      /\ z \in B => SizeOf(m, z) = sz[z]
      /\ GET_ALLOC(m[HDRP(z)]) = 0 <=> z \in B \ A1
  BY <1>7, <1>8 DEF Flanked
<1> DEFINE nextFree == z \in B \ A1
           prevFree == q \notin A1
<1>10. (GET_ALLOC(m[HDRP(z)]) = 0) = nextFree /\ (GET_ALLOC(m[HDRP(q)]) = 0) = prevFree
  BY <1>9 DEF Bit
<1>11. sz[q] \in Nat /\ (z \in B => sz[z] \in Nat) /\ p # Null
  BY <1>2, <1>3, <1>9, Spans DEF Null
<1> DEFINE old == sz[p]
           inPlace == Carve(m, p, old, k)
           intoNext == Carve(remove_free_block(m, z), p, old + SizeOf(m, z), k)
           intoPrev == MoveDown(remove_free_block(m, q), q, p, old + SizeOf(m, q), k, c)
           intoBoth == MoveDown(remove_free_block(remove_free_block(m, q), z), q, p,
                                old + SizeOf(m, q) + SizeOf(m, z), k, c)
           longer == IF nextFree /\ ~prevFree /\ old + SizeOf(m, z) >= k THEN Result(intoNext, b, p)
                     ELSE IF prevFree /\ ~nextFree /\ old + SizeOf(m, q) >= k THEN Result(intoPrev, b, q)
                     ELSE IF prevFree /\ nextFree /\ old + SizeOf(m, z) >= k THEN Result(intoBoth, b, q)
                     ELSE MoveAway(h, p, size, c)
<1>12. r = CASE p = Null -> mm_malloc(h, size)
             [] p # Null /\ size = 0 -> Result(mm_free(m, p), b, Null)
             [] p # Null /\ size # 0 /\ k <= old -> Result(inPlace, b, p)
             [] p # Null /\ size # 0 /\ k > old -> longer
  BY <1>8, <1>9, <1>10 DEF mm_realloc, h, k, DSIZE
<1> HIDE DEF inPlace, intoNext, intoPrev, intoBoth
<1>13. CASE k <= old
  <2>1. r = Result(inPlace, b, p)
    BY <1>1, <1>3, <1>11, <1>12, <1>13
  <2>2. PICK C, s : /\ Resized(m, inPlace, b, B, sz, A1, p, k, C, s, p, c)
                    /\ sz[p] < k + 8 => C = B /\ s = sz
    BY <1>1, <1>4, <1>6, <1>13, InPlace DEF inPlace
  <2>3. r.mem = inPlace /\ r.brk = b /\ r.bp = p
    BY <2>1 DEF Result
  <2> QED
    BY <2>2, <2>3 DEF A1, k
<1>14. CASE ~(k <= old)
  <2>1. r = longer
    BY <1>1, <1>3, <1>11, <1>12, <1>14
  <2> SUFFICES r = Result(m, b, Null) \/ \E C, s : Resized(m, r.mem, r.brk, B, sz, A1, p, k, C, s, r.bp, c)
    BY <1>14 DEF A1, k
  <2>2. ASSUME NEW x, NEW o, r = Result(x, b, o), \E C, s : Resized(m, x, b, B, sz, A1, p, k, C, s, o, c)
        PROVE  \E C, s : Resized(m, r.mem, r.brk, B, sz, A1, p, k, C, s, r.bp, c)
    <3>1. r.mem = x /\ r.brk = b /\ r.bp = o
      BY <2>2 DEF Result
    <3> QED
      BY <2>2, <3>1
  <2>3. CASE nextFree /\ ~prevFree /\ old + SizeOf(m, z) >= k
    <3>1. r = Result(intoNext, b, p)
      BY <2>1, <2>3
    <3>2. Ahead(m, b, B, sz, A1, p, z) /\ SizeOf(m, z) = sz[z] /\ k <= sz[p] + sz[z]
      BY <1>1, <1>3, <1>6, <1>9, <1>11, <2>3 DEF Ahead
    <3>3. \E C, s : Resized(m, intoNext, b, B, sz, A1, p, k, C, s, p, c)
      BY <1>1, <1>4, <3>2, IntoNext DEF intoNext
    <3> QED
      BY <2>2, <3>1, <3>3
  <2>4. CASE prevFree /\ ~nextFree /\ old + SizeOf(m, q) >= k
    <3>1. r = Result(intoPrev, b, q)
      BY <2>1, <2>4
    <3>2. k <= sz[p] + sz[q] /\ q \in B /\ q \notin A1 /\ q + sz[q] = p /\ q # p
      BY <1>1, <1>3, <1>9, <1>11, <2>4
    <3>3. intoPrev = Carve(memmove(remove_free_block(m, q), q, p, c), q, sz[p] + sz[q], k)
      BY <1>9 DEF intoPrev, MoveDown
    <3>4. \E C, s : Resized(m, intoPrev, b, B, sz, A1, p, k, C, s, q, c)
      BY <1>1, <1>4, <1>5, <1>6, <3>2, <3>3, IntoPrev
    <3> QED
      BY <2>2, <3>1, <3>4
  <2>5. CASE prevFree /\ nextFree /\ old + SizeOf(m, z) >= k
    <3>1. r = Result(intoBoth, b, q)
      BY <2>1, <2>5
    <3>2. k <= sz[p] + sz[q] + sz[z] /\ q \in B /\ q \notin A1 /\ q + sz[q] = p /\ q # p
          /\ z \in B /\ z \notin A1 /\ z = p + sz[p] /\ z # p /\ z # q
      BY <1>1, <1>3, <1>9, <1>11, <2>5
    <3>3. intoBoth = Carve(memmove(remove_free_block(remove_free_block(m, q), z), q, p, c),
                           q, sz[p] + sz[q] + sz[z], k)
      BY <1>9, <2>5 DEF intoBoth, MoveDown
    <3>4. \E C, s : Resized(m, intoBoth, b, B, sz, A1, p, k, C, s, q, c)
      BY <1>1, <1>4, <1>5, <1>6, <3>2, <3>3, IntoBoth
    <3> QED
      BY <2>2, <3>1, <3>4
  <2>6. CASE r = MoveAway(h, p, size, c)
    BY <1>4, <1>5, <2>6, IntoOther DEF h, k, A1
  <2> QED
    BY <2>1, <2>3, <2>4, <2>5, <2>6
<1> QED
  BY <1>13, <1>14

\* After mm_init there are the prologue and, if there is room for it, one free block.
Started(m, n, b, bp) ==
  /\ \E B, sz : Sound(n, b, B, sz, {Prologue}) /\ Neigh(B, sz, {Prologue}) = {}
  /\ \A a \in Address : n[a] \in Int \/ \E c \in Address : n[a] = m[c]
  /\ bp = Null <=> 4 + EvenUp(CHUNKSIZE) > MAX_HEAP

LEMMA Inits ==
  ASSUME HeapAssumption, NEW m, IsMemory(m), DOMAIN m = Address,
         NEW r, r = mm_init([mem |-> m, brk |-> 0])
  PROVE  Started(m, r.mem, r.brk, r.bp)
<1> DEFINE w == [m EXCEPT ![0] = 0, ![1] = PACK(DSIZE, 1), ![2] = PACK(DSIZE, 1), ![3] = PACK(0, 1)]
           n == rbt_init(w)
           B == {Prologue}
           sz == [x \in B |-> DSIZE]
           h == [mem |-> m, brk |-> 0]
           e == extend_heap([mem |-> n, brk |-> 4], CHUNKSIZE)
<1>1. RootNode = -10 /\ NilNode = -5 /\ Parent = 4 /\ MAX_HEAP \in Nat /\ MAX_HEAP >= 4 /\ Address = -10 .. MAX_HEAP - 1
      /\ Prologue = 2 /\ DSIZE = 2 /\ CHUNKSIZE \in Nat /\ CHUNKSIZE >= 8
  BY DEF RootNode, NilNode, Parent, HeapAssumption, Address, Prologue, DSIZE, BLK_MIN_SIZE
<1>2. \A a \in -10 .. 3 : a \in Address
  BY <1>1
<1>3. r = e
  <2>1. mem_sbrk(h, 4) # h
    <3>1. mem_sbrk(h, 4) = [h EXCEPT !.brk = 4]
      BY <1>1 DEF mem_sbrk
    <3> QED
      BY <3>1
  <2>2. 0 + 1 = 1 /\ 0 + 2 = 2 /\ 0 + 3 = 3 /\ 0 + 4 = 4
    OBVIOUS
  <2> QED
    BY <2>1, <2>2 DEF mm_init
<1>4. /\ IsMemory(w) /\ DOMAIN w = Address /\ w[1] = PACK(DSIZE, 1) /\ w[2] = PACK(DSIZE, 1) /\ w[3] = PACK(0, 1)
      /\ \A a \in Address : w[a] \in Int \/ w[a] = m[a]
  <2>1. IsMemory(w) /\ DOMAIN w = Address
    BY DEF IsMemory
  <2>2. {0, 1, 2, 3} \subseteq Address
    BY <1>2
  <2>3. w[1] = PACK(DSIZE, 1) /\ w[2] = PACK(DSIZE, 1) /\ w[3] = PACK(0, 1) /\ w[0] = 0
    BY <2>2
  <2>4. PACK(DSIZE, 1) \in Int /\ PACK(0, 1) \in Int
    BY <1>1 DEF PACK
  <2>5. \A a \in Address : a \notin {0, 1, 2, 3} => w[a] = m[a]
    OBVIOUS
  <2> HIDE DEF w
  <2>6. \A a \in Address : w[a] \in Int \/ w[a] = m[a]
    BY <2>3, <2>4, <2>5
  <2> QED
    BY <2>1, <2>3, <2>6
<1> HIDE DEF w
<1>5. Tiled(B, sz, 4)
  <2>1. IsEven(4) /\ IsEven(2)
    BY DEF IsEven
  <2>2. B = {2} /\ sz = [x \in {2} |-> 2] /\ sz[2] = 2
    BY <1>1
  <2> HIDE DEF B, sz
  <2> QED
    BY <1>1, <2>1, <2>2 DEF Tiled
<1>6. Room(Address, {}) /\ IsFiniteSet(Address)
  <2>1. 4 <= MAX_HEAP /\ {} \subseteq B /\ Prologue \notin {}
    BY <1>1
  <2>2. Room(Address, {})
    BY <1>5, <2>1, RoomIn
  <2> QED
    BY <1>1, <2>2, FS_Interval
<1>7. IsTree(n, {}) /\ IsMemory(n) /\ DOMAIN n = Address
  BY <1>4, <1>6, InitMakes
<1>8. /\ n[1] = PACK(DSIZE, 1) /\ n[2] = PACK(DSIZE, 1) /\ n[3] = PACK(0, 1)
      /\ \A a \in Address : n[a] \in Int \/ n[a] = m[a]
  <2>1. /\ NilNode + Red = -4 /\ NilNode + Left = -3 /\ NilNode + Right = -2 /\ NilNode + Parent = -1
        /\ RootNode + Red = -9 /\ RootNode + Left = -8 /\ RootNode + Right = -7 /\ RootNode + Parent = -6
    BY <1>1 DEF Red, Left, Right
  <2>2. n = [w EXCEPT ![-5] = 0, ![-4] = 0, ![-3] = -5, ![-2] = -5, ![-1] = -5,
                      ![-10] = 0, ![-9] = 0, ![-8] = -5, ![-7] = -5, ![-6] = -5]
    BY <1>1, <2>1 DEF rbt_init
  <2> DEFINE v == [w EXCEPT ![-5] = 0, ![-4] = 0, ![-3] = -5, ![-2] = -5, ![-1] = -5]
  <2>7. n = [v EXCEPT ![-10] = 0, ![-9] = 0, ![-8] = -5, ![-7] = -5, ![-6] = -5]
    BY <2>2
  <2>8. DOMAIN v = Address /\ DOMAIN n = Address
    BY <1>4, <2>7
  <2>9. \A a \in Address : v[a] \in Int \/ v[a] = w[a]
    BY <1>4
  <2>10. \A a \in Address : a \notin {-5, -4, -3, -2, -1} => v[a] = w[a]
    BY <1>4
  <2> HIDE DEF n, v
  <2>11. \A a \in Address : n[a] \in Int \/ n[a] = v[a]
    BY <2>7, <2>8
  <2>12. \A a \in Address : a \notin {-10, -9, -8, -7, -6} => n[a] = v[a]
    BY <2>7, <2>8
  <2>3. \A a \in Address : a \in Int /\ (a >= 0 => n[a] = w[a])
    BY <1>1, <2>10, <2>12
  <2>4. \A a \in Address : n[a] \in Int \/ n[a] = w[a]
    BY <2>9, <2>11
  <2>5. {1, 2, 3} \subseteq Address
    BY <1>2
  <2>6. n[1] = w[1] /\ n[2] = w[2] /\ n[3] = w[3]
    BY <2>3, <2>5
  <2> QED
    BY <2>4, <2>6, <1>4
<1> HIDE DEF n
<1>9. Sound(n, 4, B, sz, B)
  <2>1. Tags(n, B, sz, B)
    <3>1. PACK(sz[2], Bit(B, 2)) = PACK(DSIZE, 1) /\ 2 - 1 = 1 /\ 2 + sz[2] - 2 = 2 /\ B = {2}
      BY <1>1 DEF Bit
    <3> QED
      BY <1>8, <3>1 DEF Tags
  <2>2. n[4 - 1] = PACK(0, 1) /\ B \ B = {} /\ Prologue \in B
    BY <1>8
  <2> HIDE DEF B, sz
  <2> QED
    BY <1>1, <1>5, <1>7, <2>1, <2>2 DEF Sound, Heaped
<1>10. Neigh(B, sz, B) = {}
  BY DEF Neigh
<1> HIDE DEF sz, e
<1>11. IF 4 + EvenUp(CHUNKSIZE) > MAX_HEAP THEN e = Result(n, 4, Null)
       ELSE \E C, s : Roomy(n, e.mem, e.brk, B, sz, B, CHUNKSIZE, C, s, e.bp)
  <2> HIDE DEF B
  <2> QED
    BY <1>1, <1>9, Extends DEF e
<1>12. CASE 4 + EvenUp(CHUNKSIZE) > MAX_HEAP
  <2>1. e.mem = n /\ e.brk = 4 /\ e.bp = Null
    BY <1>11, <1>12 DEF Result
  <2> QED
    BY <1>3, <1>8, <1>9, <1>10, <1>12, <2>1 DEF Started
<1>13. CASE ~(4 + EvenUp(CHUNKSIZE) > MAX_HEAP)
  <2>1. PICK C, s : Roomy(n, e.mem, e.brk, B, sz, B, CHUNKSIZE, C, s, e.bp)
    BY <1>11, <1>13
  <2>2. /\ Sound(e.mem, e.brk, C, s, B) /\ Turns(n, e.mem, sz, B) /\ e.bp \in C
        /\ Cardinality(Neigh(C, s, B)) <= Cardinality(Neigh(B, sz, B))
    BY <2>1 DEF Roomy
  <2>3. Tiled(C, s, e.brk)
    BY <2>2 DEF Sound, Heaped
  <2>4. Neigh(C, s, B) = {}
    <3>1. IsFiniteSet(Neigh(C, s, B))
      BY <2>3, BlocksFinite
    <3>2. Cardinality(Neigh(C, s, B)) \in Nat
      BY <3>1, FS_CardinalityType
    <3>3. Cardinality({}) = 0
      BY FS_EmptySet
    <3>4. Cardinality(Neigh(C, s, B)) = 0
      BY <1>10, <2>2, <3>2, <3>3
    <3> QED
      BY <3>1, <3>4, FS_EmptySet
  <2>5. e.bp # Null
    <3>1. e.bp \in Nat /\ e.bp >= 2
      BY <2>2, <2>3, Spans
    <3> QED
      BY <3>1 DEF Null
  <2>6. \A a \in Address : e.mem[a] \in Int \/ \E c \in Address : e.mem[a] = m[c]
    BY <1>8, <2>2 DEF Turns
  <2> QED
    <3>1. Sound(e.mem, e.brk, C, s, {Prologue}) /\ Neigh(C, s, {Prologue}) = {}
      BY <2>2, <2>4
    <3> HIDE DEF B
    <3> QED
      <4>1. e.bp = Null <=> 4 + EvenUp(CHUNKSIZE) > MAX_HEAP
        BY <1>13, <2>5
      <4>2. Started(m, e.mem, e.brk, e.bp)
        BY <2>6, <3>1, <4>1 DEF Started
      <4> QED
        BY <1>3, <4>2
<1> QED
  BY <1>12, <1>13

------------------------------------------------------------------------------
\* The driver's view of the blocks. From the prologue, sizes lead through B and on to b.
LEMMA ChainNow ==
  ASSUME HeapAssumption, NEW m, NEW b, NEW B, NEW sz, NEW A, Sound(m, b, B, sz, A)
  PROVE  Chain(m, b).bp = b /\ AllBlocks(m, b) = B
<1> DEFINE X == {[bp |-> p, seen |-> {q \in B : q < p}] : p \in B \union {b}}
           T == {x \in X : x.bp \in B}
           G == [x \in X |-> IF x \in T THEN [bp |-> x.bp + sz[x.bp], seen |-> x.seen \union {x.bp}] ELSE x]
           r == [x \in X |-> x.bp \div 2]
           n == b \div DSIZE
           s == [bp |-> Prologue, seen |-> {}]
<1>1. Tiled(B, sz, b) /\ Tags(m, B, sz, A)
  BY WholeFacts
<1>2. /\ b \in Nat /\ \A p \in B : /\ p \in Nat /\ sz[p] \in Nat /\ p >= 2 /\ sz[p] >= 2 /\ p + sz[p] <= b
                                   /\ p # Prologue => sz[p] >= 8 /\ p >= 4
      /\ \A p, q \in B : p = q \/ p + sz[p] <= q \/ q + sz[q] <= p
  BY <1>1, Spans
<1>3. /\ Prologue \in B /\ IsEven(b) /\ \A p \in B : p + sz[p] \in B \union {b} /\ IsEven(p) /\ IsEven(sz[p])
  BY <1>1 DEF Tiled
<1>4. n \in Nat /\ n = b \div 2 /\ Prologue = 2
  BY <1>2 DEF DSIZE, Prologue
<1>5. \A p \in B : SizeOf(m, p) = sz[p] /\ NEXT_BLKP(m, p) = p + sz[p]
  BY TagsRead DEF Sound
<1>6. \A x \in X : /\ x.bp \in B \union {b} /\ x.seen = {q \in B : q < x.bp} /\ x.bp \in Nat /\ x.bp <= b
                   /\ x = [bp |-> x.bp, seen |-> x.seen] /\ (x.bp \in B <=> x.bp < b)
  BY <1>2
<1>7. \A p \in B \union {b} : [bp |-> p, seen |-> {q \in B : q < p}] \in X
  OBVIOUS
<1>8. s \in X
  <2>1. {q \in B : q < 2} = {}
    BY <1>2
  <2> QED
    BY <2>1, <1>3, <1>4, <1>7
<1> HIDE DEF X
<1>9. ASSUME NEW x \in X, x.bp \in B
      PROVE  [bp |-> x.bp + sz[x.bp], seen |-> x.seen \union {x.bp}] \in X
  <2>1. {q \in B : q < x.bp + sz[x.bp]} = {q \in B : q < x.bp} \union {x.bp}
    BY <1>2, <1>9
  <2>2. x.seen \union {x.bp} = {q \in B : q < x.bp + sz[x.bp]}
    BY <2>1, <1>6
  <2> QED
    BY <2>2, <1>3, <1>7, <1>9
<1>10. /\ \A x \in X : x \in T <=> x.bp \in B
       /\ T \subseteq X
  OBVIOUS
<1> HIDE DEF T
<1>11. G \in [X -> X] /\ \A x \in X : G[x] = IF x \in T THEN [bp |-> x.bp + sz[x.bp], seen |-> x.seen \union {x.bp}] ELSE x
  BY <1>9, <1>10
<1>12. r \in [X -> Int] /\ \A x \in X : r[x] = x.bp \div 2
  BY <1>6
<1> HIDE DEF G, r
<1>13. Steady(X, T, G, r)
  <2>1. \A x \in X : x \in T /\ G[x] \in T => r[G[x]] >= r[x] + 1
    <3> TAKE x \in X
    <3> HAVE x \in T /\ G[x] \in T
    <3>1. G[x].bp = x.bp + sz[x.bp] /\ G[x] \in X /\ x.bp \in B
      BY <1>10, <1>11
    <3>2. x.bp \in Nat /\ sz[x.bp] \in Nat /\ sz[x.bp] >= 2
      BY <3>1, <1>2
    <3>3. (x.bp + sz[x.bp]) \div 2 >= (x.bp \div 2) + 1
      BY <3>2
    <3> QED
      BY <3>1, <3>3, <1>12
  <2> QED
    BY <2>1, <1>11, <1>12 DEF Steady
<1>14. \A x \in X : r[x] < r[s] + n
  <2>1. r[s] = 1
    BY <1>4, <1>8, <1>12
  <2>2. \A x \in X : x.bp \div 2 <= b \div 2
    BY <1>2, <1>6
  <2> QED
    BY <2>1, <2>2, <1>4, <1>6, <1>12
<1> HIDE DEF n
<1>15. PICK f : Walks(f, X, T, G, s, n)
  BY <1>4, <1>8, <1>13, <1>14, Stops
<1>16. /\ f \in [0 .. n -> X] /\ f[0] = s
       /\ \A k \in 0 .. n : k # 0 => f[k - 1] \in X /\ f[k] = G[f[k - 1]]
       /\ f[n] \in X /\ f[n] \notin T
  BY <1>15 DEF Walks
<1> DEFINE Next1(t) == IF t.bp < b /\ SizeOf(m, t.bp) >= DSIZE
                       THEN [bp |-> NEXT_BLKP(m, t.bp), seen |-> t.seen \union {t.bp}] ELSE t
<1>17. \A x \in X : G[x] = Next1(x)
  BY <1>2, <1>5, <1>6, <1>10, <1>11 DEF DSIZE
<1> HIDE DEF s
<1> DEFINE F(g) == [k \in 0 .. n |-> IF k = 0 THEN s ELSE LET t == g[k - 1] IN Next1(t)]
           w == CHOOSE g : g = F(g)
<1>18. Chain(m, b) = w[n]
  BY DEF Chain, While, n, s
<1> HIDE DEF Next1
<1>19. \A k \in 0 .. n : k # 0 => f[k] = Next1(f[k - 1])
  BY <1>16, <1>17
<1>20. f = F(f)
  <2>1. \A k \in 0 .. n : f[k] = F(f)[k]
    BY <1>16, <1>19
  <2> QED
    BY <2>1, <1>16
<1>21. w = F(w)
  BY <1>20
<1> HIDE DEF w
<1>22. \A k \in 0 .. n : w[k] = IF k = 0 THEN s ELSE Next1(w[k - 1])
  BY <1>21
<1>23. f[n] = w[n]
  <2>1. f[0] = w[0]
    BY <1>4, <1>16, <1>22
  <2>2. \A k \in 0 .. n : k # 0 /\ f[k - 1] = w[k - 1] => f[k] = w[k]
    BY <1>19, <1>22
  <2> QED
    BY <1>4, <2>1, <2>2, Alike
<1>24. f[n].bp = b /\ f[n].seen = B
  <2>1. f[n].bp = b /\ f[n].seen = {q \in B : q < b}
    BY <1>6, <1>10, <1>16
  <2>2. {q \in B : q < b} = B
    BY <1>2
  <2> QED
    BY <2>1, <2>2
<1> QED
  BY <1>18, <1>23, <1>24 DEF AllBlocks

\* The words that are always kept.
TagWords(B, sz) == UNION {{p - 1, p + sz[p] - 2} : p \in B}
NodeSpans(F) == UNION {p .. p + Parent : p \in F}
Corners(b) == RootNode .. NilNode + Right \union 1 .. Prologue \union {b - 1}
Frame(B, sz, A, b) == Corners(b) \union TagWords(B, sz) \union NodeSpans(B \ A)
Held(pays) == UNION {p.lo .. p.hi : p \in pays}
LEMMA FrameHas ==
  ASSUME NEW B, NEW sz, NEW A, NEW b
  PROVE  /\ \A x \in B : x - 1 \in Frame(B, sz, A, b) /\ x + sz[x] - 2 \in Frame(B, sz, A, b)
         /\ \A x \in B \ A : x .. x + Parent \subseteq Frame(B, sz, A, b)
<1>1. \A x \in B : {x - 1, x + sz[x] - 2} \in {{p - 1, p + sz[p] - 2} : p \in B}
  OBVIOUS
<1>2. \A x \in B : x - 1 \in TagWords(B, sz) /\ x + sz[x] - 2 \in TagWords(B, sz)
  BY <1>1, Zenon DEF TagWords
<1>3. \A x \in B \ A : (x .. x + Parent) \in {p .. p + Parent : p \in B \ A}
  BY Zenon
<1>4. \A x \in B \ A : x .. x + Parent \subseteq NodeSpans(B \ A)
  BY <1>3, Zenon DEF NodeSpans
<1> QED
  BY <1>2, <1>4, Zenon DEF Frame
LEMMA MeaningNow ==
  ASSUME HeapAssumption, NEW m, NEW b, NEW B, NEW sz, NEW A, Sound(m, b, B, sz, A), NEW pays
  PROVE  /\ Meaning(m, b, pays) = Frame(B, sz, A, b) \union Held(pays)
         /\ \A p \in B : IsFree(m, p) <=> p \notin A
<1>1. AllBlocks(m, b) = B
  BY ChainNow
<1>2. \A p \in B : FTRP(m, p) = p + sz[p] - 2 /\ GET_ALLOC(m[HDRP(p)]) = Bit(A, p)
  BY TagsRead DEF Sound
<1>3. \A p \in B : IsFree(m, p) <=> p \notin A
  BY <1>2 DEF IsFree, Bit
<1>4. {q \in AllBlocks(m, b) : IsFree(m, q)} = B \ A
  BY <1>1, <1>3
<1>5. {{HDRP(p), FTRP(m, p)} : p \in AllBlocks(m, b)} = {{p - 1, p + sz[p] - 2} : p \in B}
  BY <1>1, <1>2 DEF HDRP
<1>6. Meaning(m, b, pays) = Frame(B, sz, A, b) \union Held(pays)
  <2> DEFINE F == {q \in AllBlocks(m, b) : IsFree(m, q)}
             E == {{HDRP(p), FTRP(m, p)} : p \in AllBlocks(m, b)}
  <2>1. Meaning(m, b, pays) = Corners(b) \union (UNION E) \union NodeSpans(F) \union Held(pays)
    BY Zenon DEF Meaning, Held, Corners, NodeSpans
  <2>2. F = B \ A /\ UNION E = TagWords(B, sz)
    BY <1>4, <1>5 DEF TagWords
  <2> HIDE DEF F, E
  <2> QED
    BY <2>1, <2>2, Zenon DEF Frame
<1> QED
  BY <1>3, <1>6

\* Forgetting what has no meaning does not disturb the heap.
Forgotten(m, n, b, B, sz, A, pays) ==
  /\ Sound(n, b, B, sz, A) /\ Forget(n, b, pays) = n
  /\ \A a \in Address : n[a] = Junk \/ n[a] = m[a]
  /\ \A p \in pays : \A a \in p.lo .. p.hi : a \in Address => n[a] = m[a]
LEMMA Forgets ==
  ASSUME HeapAssumption, NEW m, NEW b, NEW B, NEW sz, NEW A, Sound(m, b, B, sz, A), NEW pays,
         NEW n, n = Forget(m, b, pays)
  PROVE  Forgotten(m, n, b, B, sz, A, pays)
<1>1. /\ DOMAIN m = Address /\ b <= MAX_HEAP /\ Tiled(B, sz, b) /\ A \subseteq B /\ Prologue \in A
      /\ Tags(m, B, sz, A) /\ m[b - 1] = PACK(0, 1) /\ IsTree(m, B \ A) /\ \A x \in B \ A : m[x] = sz[x]
  BY DEF Sound, Heaped
<1>2. /\ b \in Nat /\ \A x \in B : /\ x \in Nat /\ sz[x] \in Nat /\ x >= 2 /\ sz[x] >= 2 /\ x + sz[x] <= b
                                   /\ x # Prologue => sz[x] >= 8 /\ x >= 4
  BY <1>1, Spans
<1>3. RootNode = -10 /\ NilNode = -5 /\ Parent = 4 /\ Right = 3 /\ MAX_HEAP \in Nat /\ Address = -10 .. MAX_HEAP - 1
      BY <1>2 DEF RootNode, NilNode, Parent, Right, HeapAssumption, Address
<1> DEFINE keep == Meaning(m, b, pays)
<1>4. keep = Frame(B, sz, A, b) \union Held(pays)
  BY MeaningNow
<1>5. n = [a \in Address |-> IF a \in keep THEN m[a] ELSE Junk]
  BY <1>3 DEF Forget
<1> HIDE DEF keep
<1>6. IsMemory(n) /\ DOMAIN n = Address /\ \A a \in Address : a \in keep => n[a] = m[a]
  BY <1>5 DEF IsMemory
<1>7. b >= 4
  <2>1. Prologue \in B /\ Prologue = 2
    BY <1>1 DEF Prologue, DSIZE
  <2> QED
    BY <2>1, <1>2
<1>8. n[b - 1] = m[b - 1]
  <2>1. b - 1 \in Address /\ b - 1 \in keep
    BY <1>1, <1>2, <1>3, <1>4, <1>7 DEF Frame, Corners
  <2> QED
    BY <2>1, <1>6
<1>9. ASSUME NEW x \in B
      PROVE  n[x - 1] = m[x - 1] /\ n[x + sz[x] - 2] = m[x + sz[x] - 2]
  <2>1. x - 1 \in Address /\ x + sz[x] - 2 \in Address
    <3>1. x \in Nat /\ sz[x] \in Nat /\ x >= 2 /\ sz[x] >= 2 /\ x + sz[x] <= b /\ b <= MAX_HEAP /\ b \in Nat
      BY <1>1, <1>2
    <3> QED
      BY <3>1, <1>3
  <2>2. x - 1 \in keep /\ x + sz[x] - 2 \in keep
    BY FrameHas, <1>4
  <2> QED
    BY <2>1, <2>2, <1>6
<1>10. ASSUME NEW x \in Spots(B \ A), NEW f \in 0 .. Parent
       PROVE  (x = NilNode /\ f = Parent) \/ n[x + f] = m[x + f]
  <2>1. CASE x \in B \ A
    <3>1. x \in Nat /\ x >= 2 /\ x + sz[x] <= b /\ sz[x] >= 8 /\ sz[x] \in Nat /\ f \in 0 .. 4
      BY <2>1, <1>1, <1>2, <1>3
    <3>2. x + f \in Address /\ x + f \in x .. x + Parent
      BY <3>1, <1>1, <1>2, <1>3
    <3>3. x + f \in keep
      BY <3>2, <2>1, <1>4, FrameHas
    <3> QED
      BY <3>2, <3>3, <1>6
  <2>2. CASE x \in {NilNode, RootNode}
    <3>1. (x = NilNode /\ f = Parent) \/ x + f \in RootNode .. NilNode + Right
      BY <2>2, <1>3
    <3>2. x + f \in Address
      BY <2>2, <1>3
    <3>3. x + f \in RootNode .. NilNode + Right => x + f \in keep
      BY <1>4 DEF Frame, Corners
    <3> QED
      BY <3>1, <3>2, <3>3, <1>6
  <2> QED
    BY <2>1, <2>2 DEF Spots
<1>11. IsTree(n, B \ A)
  BY <1>1, <1>6, <1>10, TreeKept
<1>12. Tags(n, B, sz, A)
  BY <1>1, <1>9 DEF Tags
<1>13. \A x \in B \ A : n[x] = m[x]
  <2> TAKE x \in B \ A
  <2>1. x \in Spots(B \ A) /\ 0 \in 0 .. Parent /\ x # NilNode /\ x + 0 = x
    BY <1>2, <1>3 DEF Spots
  <2>2. n[x + 0] = m[x + 0]
    BY <2>1, <1>10
  <2> QED
    BY <2>1, <2>2
<1>14. Sound(n, b, B, sz, A)
  BY <1>1, <1>6, <1>8, <1>11, <1>12, <1>13 DEF Sound, Heaped
<1>15. Forget(n, b, pays) = n
  <2>1. Meaning(n, b, pays) = keep
    BY <1>4, <1>14, MeaningNow
  <2>2. Forget(n, b, pays) = [a \in Address |-> IF a \in keep THEN n[a] ELSE Junk]
    BY <2>1, <1>3 DEF Forget
  <2> QED
    BY <2>2, <1>5
<1>16. \A p \in pays : \A a \in p.lo .. p.hi : a \in Address => n[a] = m[a]
  BY <1>4, <1>6 DEF Held
<1> QED
  BY <1>5, <1>14, <1>15, <1>16 DEF Forgotten

\* A block in use may be filled.
LEMMA Fills ==
  ASSUME HeapAssumption, NEW m, NEW b, NEW B, NEW sz, NEW A, Sound(m, b, B, sz, A), NEW o \in A, o # Prologue,
         NEW size \in Nat, size + 2 <= sz[o], NEW v, NEW n, n = memset(m, o, o + size - 1, v)
  PROVE  /\ Sound(n, b, B, sz, A) /\ \A k \in 0 .. size - 1 : n[o + k] = v
         /\ \A a \in Address : a \notin o .. o + sz[o] - 3 => n[a] = m[a]
         /\ \A a \in Address : n[a] = v \/ n[a] = m[a]
<1>1. /\ DOMAIN m = Address /\ A \subseteq B /\ Tiled(B, sz, b)
      /\ \A x \in B : x \in Nat /\ sz[x] \in Nat /\ \A a \in x .. x + sz[x] - 3 : a \in Address
  BY WholeFacts
<1>2. n = [a \in Address |-> IF a \in o .. o + size - 1 THEN v ELSE m[a]]
  BY <1>1 DEF memset
<1>3. \A a \in o .. o + size - 1 : a \in o .. o + sz[o] - 3 /\ a \in Address
  BY <1>1
<1>4. IsMemory(n) /\ DOMAIN n = Address
  BY <1>2 DEF IsMemory
<1>5. \A a \in Address : a \notin o .. o + sz[o] - 3 => n[a] = m[a]
  BY <1>2, <1>3
<1>6. Sound(n, b, B, sz, A)
  <2>1. o \in B /\ o \notin B \ A /\ Heaped(m, b, B, sz, A, B, B \ A)
    BY <1>1 DEF Sound
  <2>2. Heaped(n, b, B, sz, A, B, B \ A)
    BY <2>1, <1>4, <1>5, PayloadWritten
  <2> QED
    BY <2>2 DEF Sound
<1>7. \A k \in 0 .. size - 1 : n[o + k] = v
  <2> TAKE k \in 0 .. size - 1
  <2>1. o + k \in o .. o + size - 1
    BY <1>1
  <2> QED
    BY <2>1, <1>2, <1>3
<1> QED
  BY <1>2, <1>5, <1>6, <1>7

------------------------------------------------------------------------------
\* Whose the blocks in use are, and what the driver keeps of them: a block is as large as
\* what was asked for, up to seven words, and is filled with its number.
Owners(bl)      == {i \in Ids : bl[i] # Null}
Theirs(bl)      == {Prologue} \union {bl[i] : i \in Owners(bl)}
Extents(bl, bs) == {[lo |-> bl[i], hi |-> bl[i] + bs[i] - 1] : i \in Owners(bl)}
Fitting(size, k) == Adjust(size) <= k /\ k < Adjust(size) + 8
Owns(m, sz, bl, bs, i) ==
  /\ bs[i] \in Sizes /\ bl[i] # Prologue /\ Fitting(bs[i], sz[bl[i]])
  /\ \A k \in 0 .. bs[i] - 1 : m[bl[i] + k] = i
Owned(m, sz, bl, bs) ==
  /\ bl \in [Ids -> Address] /\ bs \in [Ids -> Sizes \union {0}]
  /\ \A i \in Ids : IF bl[i] = Null THEN bs[i] = 0 ELSE Owns(m, sz, bl, bs, i)
  /\ \A i, j \in Owners(bl) : bl[i] = bl[j] => i = j
Filling == Int \union Ids \union {Junk}

\* The inductive invariant: the blocks B of sizes sz lie in the memory as they should, and
\* those in use are the prologue and the ones the driver knows. Where the heap is too small
\* to begin with, mm_init fails every time.
Laid(m, b, B, sz, rs, bl, bs) ==
  /\ Sound(m, b, B, sz, Theirs(bl)) /\ Owned(m, sz, bl, bs)
  /\ rs = Extents(bl, bs) /\ Forget(m, b, rs) = m /\ m \in [Address -> Filling]
Tight == 4 + EvenUp(CHUNKSIZE) > MAX_HEAP
Inv ==
  /\ \E B, sz : Laid(mem, brk, B, sz, ranges, blocks, block_sizes)
  /\ verdict \in {"valid", Full} /\ (verdict = "valid" => ~Tight)

LEMMA SoundMemory ==
  ASSUME HeapAssumption, NEW m, NEW b, NEW B, NEW sz, NEW A, Sound(m, b, B, sz, A)
  PROVE  DOMAIN m = Address /\ IsMemory(m)
BY WholeFacts

LEMMA PayloadIn ==
  ASSUME HeapAssumption, NEW m, NEW b, NEW B, NEW sz, NEW A, Sound(m, b, B, sz, A), NEW x \in B
  PROVE  \A a \in x .. x + sz[x] - 3 : a \in Address
BY WholeFacts

LEMMA FittingFacts ==
  ASSUME TraceAssumption, NEW size \in Sizes, NEW k \in Int, Fitting(size, k)
  PROVE  size \in Nat /\ size >= 1 /\ size + 2 <= k /\ Adjust(size) \in Nat /\ IsEven(Adjust(size)) /\ Adjust(size) >= 8
<1>1. size \in Nat \ {0}
  BY DEF TraceAssumption
<1> QED
  BY <1>1, AdjustFacts DEF Fitting

LEMMA OwnedFacts ==
  ASSUME HeapAssumption, TraceAssumption, NEW m, NEW b, NEW B, NEW sz, NEW A, Sound(m, b, B, sz, A),
         NEW bl, NEW bs, Owned(m, sz, bl, bs), Theirs(bl) \subseteq A, NEW i \in Owners(bl)
  PROVE  /\ i \in Ids /\ bl[i] \in A /\ bl[i] \in B /\ bl[i] \in Nat /\ bl[i] # Prologue /\ bs[i] \in Sizes
         /\ bs[i] \in Nat /\ bs[i] >= 1 /\ bs[i] + 2 <= sz[bl[i]] /\ sz[bl[i]] \in Nat
         /\ Fitting(bs[i], sz[bl[i]])
         /\ \A k \in 0 .. bs[i] - 1 : m[bl[i] + k] = i /\ bl[i] + k \in bl[i] .. bl[i] + sz[bl[i]] - 3
<1>1. i \in Ids /\ bl[i] # Null /\ Owns(m, sz, bl, bs, i)
  BY DEF Owned, Owners
<1>2. bl[i] \in A
  BY DEF Theirs
<1>3. A \subseteq B /\ \A x \in B : x \in Nat /\ sz[x] \in Nat
  BY WholeFacts
<1>4. bl[i] \in B /\ bl[i] \in Nat /\ sz[bl[i]] \in Nat
  BY <1>2, <1>3
<1>5. bs[i] \in Sizes /\ bl[i] # Prologue /\ Fitting(bs[i], sz[bl[i]]) /\ \A k \in 0 .. bs[i] - 1 : m[bl[i] + k] = i
  BY <1>1 DEF Owns
<1>6. bs[i] \in Nat /\ bs[i] >= 1 /\ bs[i] + 2 <= sz[bl[i]]
  <2> DEFINE z == sz[bl[i]]
             q == bs[i]
  <2>1. q \in Sizes /\ z \in Int /\ Fitting(q, z)
    BY <1>4, <1>5
  <2> HIDE DEF q, z
  <2>2. q \in Nat /\ q >= 1 /\ q + 2 <= z
    BY <2>1, FittingFacts
  <2> QED
    BY <2>2 DEF q, z
<1>7. \A k \in 0 .. bs[i] - 1 : bl[i] + k \in bl[i] .. bl[i] + sz[bl[i]] - 3
  <2> TAKE k \in 0 .. bs[i] - 1
  <2> DEFINE p == bl[i]
             z == sz[bl[i]]
             q == bs[i]
  <2>1. p \in Nat /\ z \in Nat /\ q \in Nat /\ q + 2 <= z
    BY <1>4, <1>6
  <2> HIDE DEF p, z, q
  <2>2. \A kk \in 0 .. q - 1 : p + kk \in p .. p + z - 3
    BY <2>1
  <2> QED
    BY <2>2 DEF p, z, q
<1> QED
  BY <1>1, <1>2, <1>4, <1>5, <1>6, <1>7

\* What the others have stays theirs.
LEMMA OwnedOn ==
  ASSUME HeapAssumption, TraceAssumption, NEW m, NEW b, NEW B, NEW sz, NEW A, Sound(m, b, B, sz, A),
         NEW bl, NEW bs, Owned(m, sz, bl, bs), NEW Q, Q \subseteq A, Theirs(bl) \subseteq Q,
         NEW n, NEW s, Turns(m, n, sz, Q), \A x \in Q : s[x] = sz[x]
  PROVE  Owned(n, s, bl, bs)
<1>1. ASSUME NEW i \in Owners(bl)
      PROVE  Owns(n, s, bl, bs, i)
  <2>1. /\ bl[i] # Prologue /\ bs[i] \in Sizes /\ Fitting(bs[i], sz[bl[i]])
        /\ \A k \in 0 .. bs[i] - 1 : m[bl[i] + k] = i /\ bl[i] + k \in bl[i] .. bl[i] + sz[bl[i]] - 3
    BY OwnedFacts
  <2>2. bl[i] \in Q
    BY DEF Theirs
  <2>3. \A k \in 0 .. bs[i] - 1 : n[bl[i] + k] = m[bl[i] + k]
    BY <2>1, <2>2 DEF Turns
  <2> QED
    BY <2>1, <2>2, <2>3 DEF Owns
<1>2. \A i \in Ids : bl[i] # Null => i \in Owners(bl)
  BY DEF Owners
<1> QED
  BY <1>1, <1>2 DEF Owned

LEMMA ForgetsLaid ==
  ASSUME HeapAssumption, TraceAssumption, NEW m, NEW b, NEW B, NEW sz, NEW bl, NEW bs,
         Sound(m, b, B, sz, Theirs(bl)), Owned(m, sz, bl, bs), m \in [Address -> Filling],
         NEW n, n = Forget(m, b, Extents(bl, bs))
  PROVE  Laid(n, b, B, sz, Extents(bl, bs), bl, bs)
<1> DEFINE A == Theirs(bl)
           rs == Extents(bl, bs)
<1> HIDE DEF A, rs
<1>1. Forgotten(m, n, b, B, sz, A, rs)
  BY Forgets DEF A, rs
<1>2. /\ Sound(n, b, B, sz, A) /\ Forget(n, b, rs) = n
      /\ \A a \in Address : n[a] = Junk \/ n[a] = m[a]
      /\ \A p \in rs : \A a \in p.lo .. p.hi : a \in Address => n[a] = m[a]
  BY <1>1 DEF Forgotten
<1>3. n \in [Address -> Filling]
  <2>1. DOMAIN n = Address /\ IsMemory(n)
    BY <1>2, WholeFacts
  <2>2. \A a \in Address : n[a] \in Filling
    BY <1>2 DEF Filling
  <2> QED
    BY <2>1, <2>2 DEF IsMemory
<1>4. ASSUME NEW j \in Owners(bl)
      PROVE  Owns(n, sz, bl, bs, j)
  <2> DEFINE x == bl[j]
             q == bs[j]
  <2>1. /\ x \in B /\ x \in Nat /\ q \in Nat /\ x # Prologue /\ q \in Sizes /\ Fitting(q, sz[x])
        /\ \A k \in 0 .. q - 1 : m[x + k] = j /\ x + k \in x .. x + sz[x] - 3
    BY OwnedFacts
  <2>2. \A a \in x .. x + sz[x] - 3 : a \in Address
    BY <2>1, PayloadIn
  <2>3. [lo |-> x, hi |-> x + q - 1] \in rs
    BY DEF rs, Extents
  <2> HIDE DEF x, q
  <2>4. \A k \in 0 .. q - 1 : n[x + k] = j
    <3> TAKE k \in 0 .. q - 1
    <3>1. x + k \in Address /\ x + k \in x .. x + q - 1
      BY <2>1, <2>2
    <3>2. n[x + k] = m[x + k]
      BY <1>2, <2>3, <3>1
    <3> QED
      BY <2>1, <3>2
  <2> QED
    BY <2>1, <2>4 DEF Owns, x, q
<1>5. \A i \in Ids : bl[i] # Null => i \in Owners(bl)
  BY DEF Owners
<1>6. Owned(n, sz, bl, bs)
  BY <1>4, <1>5 DEF Owned
<1> QED
  BY <1>2, <1>3, <1>6 DEF Laid, A, rs

LEMMA FillingOn ==
  ASSUME NEW m \in [Address -> Filling], NEW n, NEW sz, NEW Q, Turns(m, n, sz, Q), DOMAIN n = Address, IsMemory(n)
  PROVE  n \in [Address -> Filling]
<1>1. \A a \in Address : n[a] \in Filling
  BY DEF Turns, Filling
<1> QED
  BY <1>1 DEF IsMemory

\* The block o, of a size for what i has asked for, is new; bl and bs are what the others have.
Handed(m, b, C, s, o, i, size, bl, bs) ==
  /\ Sound(m, b, C, s, Theirs(bl) \union {o}) /\ o \in C /\ o \notin Theirs(bl)
  /\ i \in Ids /\ bl[i] = Null /\ size \in Sizes /\ Fitting(size, s[o])
  /\ Owned(m, s, bl, bs) /\ m \in [Address -> Filling]

LEMMA HandedFacts ==
  ASSUME HeapAssumption, TraceAssumption, NEW m, NEW b, NEW C, NEW s, NEW o, NEW i, NEW size, NEW bl, NEW bs,
         Handed(m, b, C, s, o, i, size, bl, bs)
  PROVE  /\ Tiled(C, s, b) /\ b \in Nat /\ o \in Nat /\ s[o] \in Nat /\ o + s[o] <= b /\ o >= 2 /\ o # Prologue /\ o # Null
         /\ size \in Nat /\ size >= 1 /\ size + 2 <= s[o] /\ b <= MAX_HEAP
         /\ \A j \in Owners(bl) : j # i /\ bl[j] # o
<1>1. /\ Sound(m, b, C, s, Theirs(bl) \union {o}) /\ o \in C /\ o \notin Theirs(bl)
      /\ i \in Ids /\ bl[i] = Null /\ size \in Sizes /\ Fitting(size, s[o])
  BY DEF Handed
<1>2. Tiled(C, s, b) /\ b <= MAX_HEAP
  BY <1>1, WholeFacts
<1>3. /\ b \in Nat /\ o \in Nat /\ s[o] \in Nat /\ o + s[o] <= b /\ o >= 2
  BY <1>1, <1>2, Spans
<1>4. size \in Nat /\ size >= 1 /\ size + 2 <= s[o]
  <2> DEFINE z == s[o]
  <2>1. size \in Sizes /\ z \in Int /\ Fitting(size, z)
    BY <1>1, <1>3
  <2> HIDE DEF z
  <2>2. size \in Nat /\ size >= 1 /\ size + 2 <= z
    BY <2>1, FittingFacts
  <2> QED
    BY <2>2 DEF z
<1>5. \A j \in Owners(bl) : j # i /\ bl[j] # o
  BY <1>1 DEF Owners, Theirs
<1>6. o # Prologue /\ o # Null
  BY <1>1, <1>3 DEF Theirs, Null
<1> QED
  BY <1>2, <1>3, <1>4, <1>5, <1>6

\* The driver's tests of its range pass.
LEMMA HandedFits ==
  ASSUME HeapAssumption, TraceAssumption, NEW m, NEW b, NEW C, NEW s, NEW o, NEW i, NEW size, NEW bl, NEW bs,
         Handed(m, b, C, s, o, i, size, bl, bs)
  PROVE  RangeError(Extents(bl, bs), b, o, o + size - 1) = "valid"
<1>1. /\ Tiled(C, s, b) /\ b \in Nat /\ o \in Nat /\ s[o] \in Nat /\ o + s[o] <= b /\ o >= 2
      /\ size \in Nat /\ size >= 1 /\ size + 2 <= s[o] /\ \A j \in Owners(bl) : j # i /\ bl[j] # o
  BY HandedFacts
<1>2. /\ Sound(m, b, C, s, Theirs(bl) \union {o}) /\ o \in C /\ Owned(m, s, bl, bs)
  BY DEF Handed
<1>3. IsAligned(o)
  BY <1>1, <1>2 DEF Tiled, IsEven, IsAligned, DSIZE
<1>4. {o, o + size - 1} \subseteq 0 .. b - 1
  BY <1>1
<1>5. ASSUME NEW j \in Owners(bl)
      PROVE  ~Overlaps(o, o + size - 1, [lo |-> bl[j], hi |-> bl[j] + bs[j] - 1])
  <2> DEFINE x == bl[j]
             q == bs[j]
  <2>1. Theirs(bl) \subseteq Theirs(bl) \union {o}
    OBVIOUS
  <2>2. /\ x \in C /\ x \in Nat /\ q \in Nat /\ q + 2 <= s[x] /\ s[x] \in Nat
    BY <1>2, <2>1, OwnedFacts
  <2>3. x # o
    BY <1>1
  <2>4. x + s[x] <= o \/ o + s[o] <= x
    BY <1>1, <1>2, <2>2, <2>3, Spans
  <2> HIDE DEF x, q
  <2>5. x + q - 1 < o \/ o + size - 1 < x
    BY <1>1, <2>2, <2>4
  <2>6. ~Overlaps(o, o + size - 1, [lo |-> x, hi |-> x + q - 1])
    BY <1>1, <2>2, <2>5 DEF Overlaps
  <2> QED
    BY <2>6 DEF x, q
<1>6. \A p \in Extents(bl, bs) : ~Overlaps(o, o + size - 1, p)
  BY <1>5 DEF Extents
<1> QED
  BY <1>3, <1>4, <1>6 DEF RangeError

\* The driver fills the block and notes it.
Noted(m, n, b, C, s, o, i, size, bl, bs) ==
  LET rs == Extents(bl, bs) \union {[lo |-> o, hi |-> o + size - 1]}
      c  == [bl EXCEPT ![i] = o]
  IN  /\ n = Forget(memset(m, o, o + size - 1, i), b, rs) => Laid(n, b, C, s, rs, c, [bs EXCEPT ![i] = size])
      /\ Theirs(c) = Theirs(bl) \union {o}
LEMMA HandedLaid ==
  ASSUME HeapAssumption, TraceAssumption, NEW m, NEW b, NEW C, NEW s, NEW o, NEW i, NEW size, NEW bl, NEW bs,
         Handed(m, b, C, s, o, i, size, bl, bs), NEW n
  PROVE  Noted(m, n, b, C, s, o, i, size, bl, bs)
<1> DEFINE c == [bl EXCEPT ![i] = o]
           d == [bs EXCEPT ![i] = size]
           new == [lo |-> o, hi |-> o + size - 1]
           rs == Extents(bl, bs) \union {new}
           A == Theirs(bl) \union {o}
           l == memset(m, o, o + size - 1, i)
<1>1. /\ Tiled(C, s, b) /\ b \in Nat /\ o \in Nat /\ s[o] \in Nat /\ o + s[o] <= b /\ o >= 2 /\ o # Prologue /\ o # Null
      /\ size \in Nat /\ size >= 1 /\ size + 2 <= s[o] /\ b <= MAX_HEAP
      /\ \A j \in Owners(bl) : j # i /\ bl[j] # o
  BY HandedFacts
<1>2. /\ Sound(m, b, C, s, A) /\ o \in C /\ o \notin Theirs(bl) /\ i \in Ids /\ bl[i] = Null /\ size \in Sizes
      /\ Fitting(size, s[o]) /\ Owned(m, s, bl, bs) /\ m \in [Address -> Filling]
  BY DEF Handed
<1>3. /\ bl \in [Ids -> Address] /\ bs \in [Ids -> Sizes \union {0}]
      /\ \A j \in Ids : IF bl[j] = Null THEN bs[j] = 0 ELSE Owns(m, s, bl, bs, j)
      /\ \A j, k \in Owners(bl) : bl[j] = bl[k] => j = k
  BY <1>2 DEF Owned
<1>4. o \in Address
  BY <1>1 DEF Address, RootNode, HeapAssumption
<1>5. /\ c \in [Ids -> Address] /\ d \in [Ids -> Sizes \union {0}] /\ c[i] = o /\ d[i] = size
      /\ \A j \in Ids : j # i => c[j] = bl[j] /\ d[j] = bs[j]
  BY <1>2, <1>3, <1>4
<1> HIDE DEF c, d
<1>6. Owners(c) = Owners(bl) \union {i} /\ i \notin Owners(bl)
  BY <1>1, <1>2, <1>5 DEF Owners
<1>20. \A j \in Owners(bl) : c[j] = bl[j] /\ d[j] = bs[j]
  BY <1>5, <1>6 DEF Owners
<1>7. Theirs(c) = A
  <2>1. {c[j] : j \in Owners(bl) \union {i}} = {bl[j] : j \in Owners(bl)} \union {o}
    BY <1>5, <1>20
  <2> QED
    BY <2>1, <1>6 DEF Theirs
<1>8. Extents(c, d) = rs
  <2> DEFINE E(x, z) == [lo |-> x, hi |-> x + z - 1]
  <2>1. Extents(c, d) = {E(c[j], d[j]) : j \in Owners(bl) \union {i}}
    BY <1>6 DEF Extents
  <2>2. Extents(bl, bs) = {E(bl[j], bs[j]) : j \in Owners(bl)} /\ new = E(o, size)
    BY DEF Extents
  <2> HIDE DEF E, new
  <2>3. {E(c[j], d[j]) : j \in Owners(bl) \union {i}} = {E(bl[j], bs[j]) : j \in Owners(bl)} \union {E(o, size)}
    BY <1>5, <1>20
  <2> QED
    BY <2>1, <2>2, <2>3
<1>9. /\ Sound(l, b, C, s, A) /\ \A k \in 0 .. size - 1 : l[o + k] = i
      /\ \A a \in Address : a \notin o .. o + s[o] - 3 => l[a] = m[a]
      /\ \A a \in Address : l[a] = i \/ l[a] = m[a]
  BY <1>1, <1>2, Fills
<1>10. ASSUME n = Forget(l, b, rs)
       PROVE  Laid(n, b, C, s, rs, c, d)
  <2> HIDE DEF l, rs, A
  <2>1. Forgotten(l, n, b, C, s, A, rs)
    BY <1>9, <1>10, Forgets
  <2>2. /\ Sound(n, b, C, s, A) /\ Forget(n, b, rs) = n
        /\ \A a \in Address : n[a] = Junk \/ n[a] = l[a]
        /\ \A p \in rs : \A a \in p.lo .. p.hi : a \in Address => n[a] = l[a]
    BY <2>1 DEF Forgotten
  <2>3. n \in [Address -> Filling]
    <3>1. DOMAIN n = Address /\ IsMemory(n)
      BY <2>2, WholeFacts
    <3>2. \A a \in Address : n[a] \in Filling
      BY <1>2, <1>9, <2>2 DEF Filling
    <3> QED
      BY <3>1, <3>2 DEF IsMemory
  <2>4. Owns(n, s, c, d, i)
    <3>1. \A k \in 0 .. size - 1 : o + k \in new.lo .. new.hi /\ o + k \in Address
      BY <1>1 DEF Address, RootNode, HeapAssumption
    <3>2. new \in rs
      BY DEF rs
    <3> HIDE DEF new
    <3>3. \A k \in 0 .. size - 1 : n[o + k] = i
      BY <1>9, <2>2, <3>1, <3>2
    <3> QED
      BY <1>1, <1>2, <1>5, <3>3 DEF Owns
  <2>5. ASSUME NEW j \in Owners(bl)
        PROVE  Owns(n, s, c, d, j)
    <3> DEFINE x == bl[j]
               q == bs[j]
    <3>1. Theirs(bl) \subseteq A
      BY DEF A
    <3>2. /\ j \in Ids /\ x \in C /\ x \in Nat /\ q \in Nat /\ q + 2 <= s[x] /\ s[x] \in Nat /\ x # Prologue /\ q \in Sizes
          /\ Fitting(q, s[x]) /\ q >= 1
          /\ \A k \in 0 .. q - 1 : m[x + k] = j
      BY <1>2, <3>1, OwnedFacts
    <3>3. x # o /\ j # i /\ c[j] = x /\ d[j] = q
      BY <1>1, <1>5, <3>2
    <3>4. (x + s[x] <= o \/ o + s[o] <= x) /\ x + s[x] <= b
      BY <1>1, <1>2, <3>2, <3>3, Spans
    <3>5. [lo |-> x, hi |-> x + q - 1] \in rs
      BY DEF rs, Extents
    <3> HIDE DEF x, q
    <3>6. \A k \in 0 .. q - 1 : /\ x + k \in Address /\ x + k \notin o .. o + s[o] - 3
                                /\ x + k \in x .. x + q - 1
      <4> DEFINE u == s[o]
                 v == s[x]
      <4>1. u \in Nat /\ v \in Nat /\ (x + v <= o \/ o + u <= x) /\ x + v <= b /\ q + 2 <= v
        BY <1>1, <3>2, <3>4
      <4> HIDE DEF u, v
      <4>2. \A k \in 0 .. q - 1 : x + k >= 0 /\ x + k < MAX_HEAP /\ x + k \in Int
        BY <1>1, <3>2, <4>1 DEF HeapAssumption
      <4>3. \A k \in 0 .. q - 1 : x + k \notin o .. o + u - 3 /\ x + k \in x .. x + q - 1
        BY <1>1, <3>2, <4>1
      <4> QED
        BY <4>2, <4>3 DEF Address, RootNode, HeapAssumption, u
    <3>7. \A k \in 0 .. q - 1 : n[x + k] = j
      <4> TAKE k \in 0 .. q - 1
      <4>1. n[x + k] = l[x + k]
        BY <2>2, <3>5, <3>6
      <4>2. l[x + k] = m[x + k]
        BY <1>9, <3>6
      <4> QED
        BY <3>2, <4>1, <4>2
    <3> QED
      BY <3>2, <3>3, <3>7 DEF Owns
  <2>6. \A j \in Ids : IF c[j] = Null THEN d[j] = 0 ELSE Owns(n, s, c, d, j)
    <3> TAKE j \in Ids
    <3>1. CASE j = i
      BY <3>1, <2>4, <1>1, <1>5
    <3>2. CASE j # i /\ bl[j] = Null
      BY <3>2, <1>3, <1>5
    <3>3. CASE j # i /\ bl[j] # Null
      BY <3>3, <2>5, <1>5 DEF Owners
    <3> QED
      BY <3>1, <3>2, <3>3
  <2>7. \A j, k \in Owners(c) : c[j] = c[k] => j = k
    <3>1. \A j \in Owners(bl) : j \in Ids /\ c[j] = bl[j] /\ c[j] # o
      BY <1>1, <1>5 DEF Owners
    <3> QED
      BY <1>3, <1>5, <1>6, <3>1
  <2>8. Owned(n, s, c, d)
    BY <1>5, <2>6, <2>7 DEF Owned
  <2> QED
    BY <1>7, <1>8, <2>2, <2>3, <2>8 DEF Laid
<1> QED
  BY <1>7, <1>10 DEF Noted, c, d

\* What is left when i has given its block back.
Dropped(m, sz, rs, bl, bs, i, c, d) ==
  /\ c = [bl EXCEPT ![i] = Null] /\ d = [bs EXCEPT ![i] = 0] /\ i \in Owners(bl) /\ c[i] = Null
  /\ Owned(m, sz, c, d) /\ Theirs(c) = Theirs(bl) \ {bl[i]} /\ Extents(c, d) = remove_range(rs, bl[i])
LEMMA Drops ==
  ASSUME HeapAssumption, TraceAssumption, NEW m, NEW b, NEW B, NEW sz, NEW rs, NEW bl, NEW bs,
         Laid(m, b, B, sz, rs, bl, bs), NEW i \in Owners(bl)
  PROVE  Dropped(m, sz, rs, bl, bs, i, [bl EXCEPT ![i] = Null], [bs EXCEPT ![i] = 0])
<1> DEFINE c == [bl EXCEPT ![i] = Null]
           d == [bs EXCEPT ![i] = 0]
           O == Owners(bl) \ {i}
<1>1. /\ Sound(m, b, B, sz, Theirs(bl)) /\ Owned(m, sz, bl, bs) /\ rs = Extents(bl, bs)
  BY DEF Laid
<1>2. /\ bl \in [Ids -> Address] /\ bs \in [Ids -> Sizes \union {0}]
      /\ \A j \in Ids : IF bl[j] = Null THEN bs[j] = 0 ELSE Owns(m, sz, bl, bs, j)
      /\ \A j, k \in Owners(bl) : bl[j] = bl[k] => j = k
  BY <1>1 DEF Owned
<1>3. Null \in Address
  BY DEF Address, Null, RootNode, HeapAssumption
<1>4. i \in Ids /\ bl[i] # Null /\ bl[i] # Prologue
  BY <1>2 DEF Owners, Owns
<1>5. /\ c \in [Ids -> Address] /\ d \in [Ids -> Sizes \union {0}] /\ c[i] = Null /\ d[i] = 0
      /\ \A j \in Ids : j # i => c[j] = bl[j] /\ d[j] = bs[j]
  BY <1>2, <1>3, <1>4
<1> HIDE DEF c, d
<1>6. Owners(c) = O
  BY <1>5 DEF Owners
<1>7. \A j \in O : c[j] = bl[j] /\ d[j] = bs[j] /\ bl[j] # bl[i] /\ j \in Ids
  BY <1>2, <1>5 DEF Owners
<1>8. Owned(m, sz, c, d)
  <2>1. \A j \in Ids : IF c[j] = Null THEN d[j] = 0 ELSE Owns(m, sz, c, d, j)
    BY <1>2, <1>5 DEF Owns
  <2>2. \A j, k \in Owners(c) : c[j] = c[k] => j = k
    BY <1>2, <1>6, <1>7
  <2> QED
    BY <1>5, <2>1, <2>2 DEF Owned
<1>9. Theirs(c) = Theirs(bl) \ {bl[i]}
  <2>1. {c[j] : j \in O} = {bl[j] : j \in O}
    BY <1>7
  <2>2. {bl[j] : j \in O} = {bl[j] : j \in Owners(bl)} \ {bl[i]}
    BY <1>7
  <2>3. Theirs(c) = {Prologue} \union {c[j] : j \in O}
    BY <1>6 DEF Theirs
  <2> HIDE DEF O
  <2> QED
    BY <1>4, <2>1, <2>2, <2>3 DEF Theirs
<1>10. Extents(c, d) = remove_range(rs, bl[i])
  <2> DEFINE E(x, z) == [lo |-> x, hi |-> x + z - 1]
  <2>1. Extents(c, d) = {E(c[j], d[j]) : j \in O}
    BY <1>6 DEF Extents
  <2>2. rs = {E(bl[j], bs[j]) : j \in Owners(bl)}
    BY <1>1 DEF Extents
  <2>3. \A x, z : E(x, z).lo = x
    OBVIOUS
  <2> HIDE DEF E
  <2>4. {E(c[j], d[j]) : j \in O} = {p \in rs : p.lo # bl[i]}
    BY <2>2, <2>3, <1>7
  <2> QED
    BY <2>1, <2>4 DEF remove_range
<1> QED
  BY <1>5, <1>8, <1>9, <1>10 DEF Dropped, c, d

\* What the calls of the package give the driver.
LEMMA Malloced ==
  ASSUME HeapAssumption, TraceAssumption, NEW m, NEW b, NEW B, NEW sz, NEW rs, NEW bl, NEW bs,
         Laid(m, b, B, sz, rs, bl, bs), NEW i \in Ids, bl[i] = Null, NEW size \in Sizes,
         NEW r, r = mm_malloc([mem |-> m, brk |-> b], size)
  PROVE  \/ r = Result(m, b, Null)
         \/ \E C, s : /\ Handed(r.mem, r.brk, C, s, r.bp, i, size, bl, bs)
                      /\ Cardinality(Neigh(C, s, Theirs(bl) \union {r.bp})) <= Cardinality(Neigh(B, sz, Theirs(bl)))
<1> DEFINE A == Theirs(bl)
           k == Adjust(size)
<1>1. Sound(m, b, B, sz, A) /\ Owned(m, sz, bl, bs) /\ m \in [Address -> Filling]
  BY DEF Laid
<1>2. size \in Nat \ {0}
  BY DEF TraceAssumption
<1> HIDE DEF A, k
<1>3. r = Result(m, b, Null) \/ \E C, s : Given(m, r.mem, r.brk, B, sz, A, k, C, s, r.bp)
  BY <1>1, <1>2, Mallocs DEF k
<1>4. ASSUME NEW C, NEW s, Given(m, r.mem, r.brk, B, sz, A, k, C, s, r.bp)
      PROVE  Handed(r.mem, r.brk, C, s, r.bp, i, size, bl, bs)
  <2>1. /\ Sound(r.mem, r.brk, C, s, A \union {r.bp}) /\ Turns(m, r.mem, sz, A) /\ r.bp \in C /\ r.bp \notin A
        /\ k <= s[r.bp] /\ s[r.bp] < k + 8
        /\ \A x \in A : x \in C /\ s[x] = sz[x]
    BY <1>4 DEF Given
  <2>2. DOMAIN r.mem = Address /\ IsMemory(r.mem)
    BY <2>1, SoundMemory
  <2>3. r.mem \in [Address -> Filling]
    BY <1>1, <2>1, <2>2, FillingOn
  <2>4. Owned(r.mem, s, bl, bs)
    BY <1>1, <2>1, OwnedOn DEF A
  <2> QED
    BY <2>1, <2>3, <2>4 DEF Handed, Fitting, A, k
<1> QED
  BY <1>3, <1>4 DEF Given, A

LEMMA Freeing ==
  ASSUME HeapAssumption, TraceAssumption, NEW m, NEW b, NEW B, NEW sz, NEW rs, NEW bl, NEW bs,
         Laid(m, b, B, sz, rs, bl, bs), NEW i \in Owners(bl), NEW c, NEW d, Dropped(m, sz, rs, bl, bs, i, c, d),
         NEW n, n = Forget(mm_free(m, bl[i]), b, remove_range(rs, bl[i]))
  PROVE  \E C, s : /\ Laid(n, b, C, s, remove_range(rs, bl[i]), c, d)
                   /\ Cardinality(Neigh(C, s, Theirs(c))) <= Cardinality(Neigh(B, sz, Theirs(bl)))
<1> DEFINE A == Theirs(bl)
           p == bl[i]
           l == mm_free(m, p)
           R == remove_range(rs, p)
<1>1. Sound(m, b, B, sz, A) /\ Owned(m, sz, bl, bs) /\ m \in [Address -> Filling]
  BY DEF Laid
<1>2. Owned(m, sz, c, d) /\ Theirs(c) = A \ {p} /\ Extents(c, d) = R
  BY DEF Dropped
<1>3. p \in A /\ p # Prologue
  BY <1>1, OwnedFacts
<1> HIDE DEF A, p, l, R
<1>4. PICK C, s : Freed(m, l, b, B, sz, A, p, C, s)
  BY <1>1, <1>3, Releases DEF l
<1>5. /\ Sound(l, b, C, s, A \ {p}) /\ Turns(m, l, sz, A \ {p})
      /\ \A x \in A \ {p} : x \in C /\ s[x] = sz[x]
      /\ Cardinality(Neigh(C, s, A \ {p})) <= Cardinality(Neigh(B, sz, A))
  BY <1>4 DEF Freed
<1>6. /\ DOMAIN l = Address /\ IsMemory(l)
  BY <1>5, WholeFacts
<1>7. l \in [Address -> Filling]
  BY <1>1, <1>5, <1>6, FillingOn
<1>8. n = Forget(l, b, R)
  BY DEF l, R, p
<1>10. Laid(n, b, C, s, R, c, d)
  <2>1. Owned(l, s, c, d)
    BY <1>1, <1>2, <1>5, OwnedOn
  <2> QED
    BY <1>2, <1>5, <1>7, <1>8, <2>1, ForgetsLaid
<1> QED
  BY <1>2, <1>5, <1>10 DEF A, R, p

LEMMA Realloced ==
  ASSUME HeapAssumption, TraceAssumption, NEW m, NEW b, NEW B, NEW sz, NEW rs, NEW bl, NEW bs,
         Laid(m, b, B, sz, rs, bl, bs), NEW i \in Owners(bl), NEW c, NEW d, Dropped(m, sz, rs, bl, bs, i, c, d),
         NEW size \in Sizes, NEW r, r = mm_realloc([mem |-> m, brk |-> b], bl[i], size)
  PROVE  \/ r = Result(m, b, Null)
         \/ \E C, s : /\ Handed(r.mem, r.brk, C, s, r.bp, i, size, c, d)
                      /\ bs[i] = size => C = B /\ s = sz /\ r.bp = bl[i]
                      /\ \A k \in 0 .. Min2(size, bs[i]) - 1 : r.mem[r.bp + k] = i
<1> DEFINE A == Theirs(bl)
           p == bl[i]
           z == sz[bl[i]]
           q == bs[i]
           k == Adjust(size)
           n == Min2(z - 2, size)
<1>1. Sound(m, b, B, sz, A) /\ Owned(m, sz, bl, bs) /\ m \in [Address -> Filling]
  BY DEF Laid
<1>2. Owned(m, sz, c, d) /\ Theirs(c) = A \ {p} /\ c[i] = Null /\ i \in Ids
  BY DEF Dropped, Owners
<1>3. /\ p \in A /\ p # Prologue /\ z \in Nat /\ q \in Nat /\ q >= 1 /\ q + 2 <= z /\ Fitting(q, z)
      /\ \A j \in 0 .. q - 1 : m[p + j] = i
  BY <1>1, OwnedFacts
<1>4. size \in Nat \ {0}
  BY DEF TraceAssumption
<1> HIDE DEF A, p, z, q, k, n
<1>5. r = Result(m, b, Null) \/ \E C, s : Regiven(m, b, B, sz, A, p, k, r, n, C, s)
  <2>1. r = mm_realloc([mem |-> m, brk |-> b], p, size) /\ z = sz[p]
    BY DEF p, z
  <2>2. n = Min2(sz[p] - 2, size)
    BY <2>1 DEF n
  <2> QED
    BY <1>1, <1>3, <1>4, <2>1, <2>2, Reallocs DEF k
<1>6. ASSUME NEW C, NEW s, Regiven(m, b, B, sz, A, p, k, r, n, C, s)
      PROVE  /\ Handed(r.mem, r.brk, C, s, r.bp, i, size, c, d)
             /\ q = size => C = B /\ s = sz /\ r.bp = p
             /\ \A j \in 0 .. Min2(size, q) - 1 : r.mem[r.bp + j] = i
  <2>8. /\ Resized(m, r.mem, r.brk, B, sz, A \ {p}, p, k, C, s, r.bp, n)
        /\ (k <= z /\ z < k + 8) => C = B /\ s = sz /\ r.bp = p
    BY <1>6 DEF Regiven, z, p
  <2>1. /\ Sound(r.mem, r.brk, C, s, (A \ {p}) \union {r.bp}) /\ Turns(m, r.mem, sz, A \ {p})
        /\ r.bp \in C /\ r.bp \notin A \ {p} /\ k <= s[r.bp] /\ s[r.bp] < k + 8
        /\ \A x \in A \ {p} : x \in C /\ s[x] = sz[x]
        /\ \A j \in 0 .. n - 1 : r.mem[r.bp + j] = m[p + j]
    BY <2>8 DEF Resized
  <2>2. DOMAIN r.mem = Address /\ IsMemory(r.mem)
    BY <2>1, SoundMemory
  <2>3. r.mem \in [Address -> Filling]
    BY <1>1, <2>1, <2>2, FillingOn
  <2>4. Owned(r.mem, s, c, d)
    BY <1>1, <1>2, <2>1, OwnedOn
  <2>5. Handed(r.mem, r.brk, C, s, r.bp, i, size, c, d)
    BY <1>2, <2>1, <2>3, <2>4 DEF Handed, Fitting, k
  <2>6. q = size => C = B /\ s = sz /\ r.bp = p
    BY <1>3, <2>8 DEF Fitting, k
  <2>7. \A j \in 0 .. Min2(size, q) - 1 : r.mem[r.bp + j] = i
    <3>1. \A j \in 0 .. Min2(size, q) - 1 : j \in 0 .. n - 1 /\ j \in 0 .. q - 1
      BY <1>3, <1>4 DEF n, Min2
    <3> QED
      BY <3>1, <2>1, <1>3
  <2> QED
    BY <2>5, <2>6, <2>7
<1> QED
  BY <1>5, <1>6 DEF p, q

\* After mm_init nobody has a block.
LEMMA StartLaid ==
  ASSUME HeapAssumption, TraceAssumption, NEW m \in [Address -> Filling]
  PROVE  /\ \E B, sz : /\ Laid(Start(m).mem, Start(m).brk, B, sz, {}, [i \in Ids |-> Null], [i \in Ids |-> 0])
                       /\ Neigh(B, sz, {Prologue}) = {}
         /\ Start(m).verdict = IF Tight THEN Full ELSE "valid"
<1> DEFINE bl == [i \in Ids |-> Null]
           bs == [i \in Ids |-> 0]
           r == mm_init([mem |-> m, brk |-> 0])
           n == Forget(r.mem, r.brk, {})
<1>1. mem_reset_brk([mem |-> m, brk |-> 0]) = [mem |-> m, brk |-> 0]
  BY DEF mem_reset_brk
<1>2. Start(m) = [mem |-> n, brk |-> r.brk, verdict |-> IF r.bp = Null THEN Full ELSE "valid"]
  BY <1>1 DEF Start
<1> HIDE DEF r
<1>3. IsMemory(m) /\ DOMAIN m = Address
  BY DEF IsMemory
<1>4. Started(m, r.mem, r.brk, r.bp)
  BY <1>3, Inits DEF r
<1>5. PICK B, sz : Sound(r.mem, r.brk, B, sz, {Prologue}) /\ Neigh(B, sz, {Prologue}) = {}
  BY <1>4 DEF Started
<1>6. r.mem \in [Address -> Filling]
  <2>1. DOMAIN r.mem = Address /\ IsMemory(r.mem)
    BY <1>5, SoundMemory
  <2>2. \A a \in Address : r.mem[a] \in Filling
    BY <1>4 DEF Started, Filling
  <2> QED
    BY <2>1, <2>2 DEF IsMemory
<1>7. Owners(bl) = {}
  BY DEF Owners
<1>8. Theirs(bl) = {Prologue} /\ Extents(bl, bs) = {}
  BY <1>7 DEF Theirs, Extents
<1>9. Owned(r.mem, sz, bl, bs)
  <2>1. Null \in Address
    BY DEF Address, Null, RootNode, HeapAssumption
  <2> QED
    BY <2>1, <1>7 DEF Owned
<1>10. Laid(n, r.brk, B, sz, {}, bl, bs)
  <2>1. n = Forget(r.mem, r.brk, Extents(bl, bs)) /\ Sound(r.mem, r.brk, B, sz, Theirs(bl))
    BY <1>5, <1>8
  <2> HIDE DEF bl, bs, n
  <2>2. Laid(n, r.brk, B, sz, Extents(bl, bs), bl, bs)
    BY <2>1, <1>6, <1>9, ForgetsLaid
  <2> QED
    BY <2>2, <1>8
<1> HIDE DEF n, bl, bs
<1>11. r.bp = Null <=> Tight
  BY <1>4 DEF Started, Tight
<1> QED
  BY <1>2, <1>5, <1>10, <1>11 DEF bl, bs

------------------------------------------------------------------------------
\* The actions of the driver.
Refused ==
  /\ verdict' = Full /\ brk' = brk /\ mem' = mem /\ ranges' = ranges
  /\ blocks' = blocks /\ block_sizes' = block_sizes
Gives(i, size, C, s) ==
  /\ i \in Ids /\ size \in Sizes /\ verdict' = "valid"
  /\ Laid(mem', brk', C, s, ranges', blocks', block_sizes') /\ blocks'[i] # Null
  /\ blocks' = [blocks EXCEPT ![i] = blocks'[i]] /\ block_sizes' = [block_sizes EXCEPT ![i] = size]

LEMMA AcceptRefused ==
  ASSUME NEW B, NEW sz, Laid(mem, brk, B, sz, ranges, blocks, block_sizes),
         NEW r, r = Result(mem, brk, Null), NEW i, NEW size, NEW p, Accept(r, i, size, ranges, p)
  PROVE  Refused
<1>1. r.mem = mem /\ r.brk = brk /\ r.bp = Null
  BY DEF Result
<1>2. Forget(mem, brk, ranges) = mem
  BY DEF Laid
<1>3. Full # "valid"
  BY DEF Full
<1>4. brk' = brk /\ verdict' = Full /\ ranges' = ranges
  BY <1>1, <1>3 DEF Accept
<1>5. mem' = Forget(r.mem, r.brk, ranges') /\ blocks' = blocks /\ block_sizes' = block_sizes
  BY <1>1, <1>3, <1>4 DEF Accept
<1> QED
  BY <1>1, <1>2, <1>4, <1>5 DEF Refused

LEMMA AcceptGives ==
  ASSUME HeapAssumption, TraceAssumption, NEW r, NEW C, NEW s, NEW i, NEW size, NEW c, NEW d,
         Handed(r.mem, r.brk, C, s, r.bp, i, size, c, d), Accept(r, i, size, Extents(c, d), TRUE),
         [blocks EXCEPT ![i] = r.bp] = [c EXCEPT ![i] = r.bp],
         [block_sizes EXCEPT ![i] = size] = [d EXCEPT ![i] = size]
  PROVE  Gives(i, size, C, s) /\ blocks'[i] = r.bp /\ Theirs(blocks') = Theirs(c) \union {r.bp}
<1> DEFINE o == r.bp
           rs == Extents(c, d)
           new == rs \union {[lo |-> o, hi |-> o + size - 1]}
           n == Forget(memset(r.mem, o, o + size - 1, i), r.brk, new)
<1>1. o # Null
  BY HandedFacts
<1>2. RangeError(rs, r.brk, o, o + size - 1) = "valid"
  BY HandedFits
<1>3. Noted(r.mem, n, r.brk, C, s, o, i, size, c, d)
  BY HandedLaid
<1>4. /\ Laid(n, r.brk, C, s, new, [c EXCEPT ![i] = o], [d EXCEPT ![i] = size])
      /\ Theirs([c EXCEPT ![i] = o]) = Theirs(c) \union {o}
  BY <1>3 DEF Noted
<1>5. /\ brk' = r.brk /\ verdict' = "valid" /\ ranges' = new
  BY <1>1, <1>2 DEF Accept
<1>6. mem' = n /\ blocks' = [blocks EXCEPT ![i] = o] /\ block_sizes' = [block_sizes EXCEPT ![i] = size]
  BY <1>5 DEF Accept
<1>7. i \in Ids /\ size \in Sizes /\ c \in [Ids -> Address]
  BY DEF Handed, Owned
<1>8. blocks' = [c EXCEPT ![i] = o] /\ blocks'[i] = o
  BY <1>6, <1>7
<1> HIDE DEF n, new
<1>9. Laid(mem', brk', C, s, ranges', blocks', block_sizes')
  BY <1>4, <1>5, <1>6, <1>8
<1> QED
  BY <1>1, <1>4, <1>5, <1>6, <1>7, <1>8, <1>9 DEF Gives

LEMMA MallocStep ==
  ASSUME HeapAssumption, TraceAssumption, NEW B, NEW sz, Laid(mem, brk, B, sz, ranges, blocks, block_sizes),
         NEW i \in Ids, NEW size \in Sizes, Malloc(i, size)
  PROVE  \/ Refused
         \/ \E C, s : /\ Gives(i, size, C, s)
                      /\ Cardinality(Neigh(C, s, Theirs(blocks'))) <= Cardinality(Neigh(B, sz, Theirs(blocks)))
<1> DEFINE r == mm_malloc([mem |-> mem, brk |-> brk], size)
<1>1. blocks[i] = Null /\ Accept(r, i, size, ranges, TRUE)
  BY DEF Malloc, heap
<1> HIDE DEF r
<1>2. \/ r = Result(mem, brk, Null)
      \/ \E C, s : /\ Handed(r.mem, r.brk, C, s, r.bp, i, size, blocks, block_sizes)
                   /\ Cardinality(Neigh(C, s, Theirs(blocks) \union {r.bp})) <= Cardinality(Neigh(B, sz, Theirs(blocks)))
  BY <1>1, Malloced DEF r
<1>3. CASE r = Result(mem, brk, Null)
  BY <1>1, <1>3, AcceptRefused
<1>4. ASSUME NEW C, NEW s, Handed(r.mem, r.brk, C, s, r.bp, i, size, blocks, block_sizes)
      PROVE  Gives(i, size, C, s) /\ Theirs(blocks') = Theirs(blocks) \union {r.bp}
  <2>1. ranges = Extents(blocks, block_sizes)
    BY DEF Laid
  <2> QED
    BY <1>1, <1>4, <2>1, AcceptGives
<1>5. CASE r # Result(mem, brk, Null)
  <2>1. PICK C, s : /\ Handed(r.mem, r.brk, C, s, r.bp, i, size, blocks, block_sizes)
                    /\ Cardinality(Neigh(C, s, Theirs(blocks) \union {r.bp})) <= Cardinality(Neigh(B, sz, Theirs(blocks)))
    BY <1>2, <1>5
  <2>2. Gives(i, size, C, s) /\ Theirs(blocks') = Theirs(blocks) \union {r.bp}
    BY <1>4, <2>1
  <2>3. Cardinality(Neigh(C, s, Theirs(blocks'))) <= Cardinality(Neigh(B, sz, Theirs(blocks)))
    BY <2>1, <2>2
  <2> QED
    BY <2>2, <2>3
<1> QED
  BY <1>3, <1>5

LEMMA ReallocStep ==
  ASSUME HeapAssumption, TraceAssumption, NEW B, NEW sz, Laid(mem, brk, B, sz, ranges, blocks, block_sizes),
         NEW i \in Ids, NEW size \in Sizes, Realloc(i, size)
  PROVE  \/ Refused
         \/ \E C, s : /\ Gives(i, size, C, s) /\ blocks[i] # Null
                      /\ block_sizes[i] = size => C = B /\ s = sz /\ blocks'[i] = blocks[i]
<1> DEFINE r == mm_realloc([mem |-> mem, brk |-> brk], blocks[i], size)
           kept == Min2(size, block_sizes[i])
           same == \A k \in 0 .. kept - 1 : r.mem[r.bp + k] = i
           rs == IF r.bp = Null THEN ranges ELSE remove_range(ranges, blocks[i])
           c == [blocks EXCEPT ![i] = Null]
           d == [block_sizes EXCEPT ![i] = 0]
<1>1. blocks[i] # Null /\ Accept(r, i, size, rs, same)
  BY DEF Realloc, heap
<1>2. i \in Owners(blocks)
  BY <1>1 DEF Owners
<1>3. Dropped(mem, sz, ranges, blocks, block_sizes, i, c, d)
  BY <1>2, Drops
<1>4. /\ [blocks EXCEPT ![i] = r.bp] = [c EXCEPT ![i] = r.bp]
      /\ [block_sizes EXCEPT ![i] = size] = [d EXCEPT ![i] = size]
  <2> DEFINE x == r.bp
  <2> HIDE DEF x, r
  <2>1. blocks \in [Ids -> Address] /\ block_sizes \in [Ids -> Sizes \union {0}]
    BY DEF Laid, Owned
  <2>2. [blocks EXCEPT ![i] = x] = [c EXCEPT ![i] = x] /\ [block_sizes EXCEPT ![i] = size] = [d EXCEPT ![i] = size]
    BY <2>1
  <2> QED
    BY <2>2 DEF x
<1> HIDE DEF r, c, d
<1>5. \/ r = Result(mem, brk, Null)
      \/ \E C, s : /\ Handed(r.mem, r.brk, C, s, r.bp, i, size, c, d)
                   /\ block_sizes[i] = size => C = B /\ s = sz /\ r.bp = blocks[i]
                   /\ same
  BY <1>2, <1>3, Realloced DEF r
<1>6. CASE r = Result(mem, brk, Null)
  <2>1. rs = ranges
    BY <1>6 DEF Result
  <2> QED
    BY <1>1, <1>6, <2>1, AcceptRefused
<1>7. CASE r # Result(mem, brk, Null)
  <2>1. PICK C, s : /\ Handed(r.mem, r.brk, C, s, r.bp, i, size, c, d)
                    /\ block_sizes[i] = size => C = B /\ s = sz /\ r.bp = blocks[i]
                    /\ same
    BY <1>5, <1>7
  <2>2. r.bp # Null
    BY <2>1, HandedFacts
  <2>3. rs = Extents(c, d)
    BY <2>2, <1>3 DEF Dropped
  <2>4. Accept(r, i, size, Extents(c, d), TRUE)
    <3>1. same = TRUE
      BY <2>1
    <3> HIDE DEF same, rs
    <3> QED
      BY <1>1, <2>3, <3>1
  <2>5. Gives(i, size, C, s) /\ blocks'[i] = r.bp
    <3>1. Handed(r.mem, r.brk, C, s, r.bp, i, size, c, d)
      BY <2>1
    <3> QED
      BY <1>4, <2>4, <3>1, AcceptGives
  <2>6. block_sizes[i] = size => C = B /\ s = sz /\ blocks'[i] = blocks[i]
    BY <2>1, <2>5
  <2> QED
    BY <1>1, <2>5, <2>6
<1> QED
  BY <1>6, <1>7

FreeGives(i, C, s) ==
  /\ verdict' = "valid" /\ Laid(mem', brk', C, s, ranges', blocks', block_sizes') /\ blocks[i] # Null
  /\ blocks' = [blocks EXCEPT ![i] = Null] /\ block_sizes' = [block_sizes EXCEPT ![i] = 0]
LEMMA FreeStep ==
  ASSUME HeapAssumption, TraceAssumption, NEW B, NEW sz, Laid(mem, brk, B, sz, ranges, blocks, block_sizes),
         NEW i \in Ids, Free(i)
  PROVE  \E C, s : /\ FreeGives(i, C, s)
                   /\ Cardinality(Neigh(C, s, Theirs(blocks'))) <= Cardinality(Neigh(B, sz, Theirs(blocks)))
<1> DEFINE c == [blocks EXCEPT ![i] = Null]
           d == [block_sizes EXCEPT ![i] = 0]
<1>1. /\ blocks[i] # Null /\ verdict = "valid" /\ verdict' = verdict /\ brk' = brk /\ blocks' = c /\ block_sizes' = d
      /\ ranges' = remove_range(ranges, blocks[i]) /\ mem' = Forget(mm_free(mem, blocks[i]), brk, ranges')
  BY DEF Free
<1>2. i \in Owners(blocks)
  BY <1>1 DEF Owners
<1>3. Dropped(mem, sz, ranges, blocks, block_sizes, i, c, d)
  BY <1>2, Drops
<1> HIDE DEF c, d
<1>4. mem' = Forget(mm_free(mem, blocks[i]), brk, remove_range(ranges, blocks[i]))
  BY <1>1
<1>5. PICK C, s : /\ Laid(mem', brk, C, s, remove_range(ranges, blocks[i]), c, d)
                  /\ Cardinality(Neigh(C, s, Theirs(c))) <= Cardinality(Neigh(B, sz, Theirs(blocks)))
  BY <1>2, <1>3, <1>4, Freeing
<1>6. Laid(mem', brk', C, s, ranges', blocks', block_sizes')
  BY <1>1, <1>5
<1>7. Cardinality(Neigh(C, s, Theirs(blocks'))) <= Cardinality(Neigh(B, sz, Theirs(blocks)))
  BY <1>1, <1>5
<1>8. FreeGives(i, C, s)
  BY <1>1, <1>6 DEF FreeGives, c, d
<1> QED
  BY <1>7, <1>8

Fresh(m, b, rs, bl, bs, v) ==
  /\ \E B, sz : Laid(m, b, B, sz, rs, bl, bs) /\ Neigh(B, sz, Theirs(bl)) = {}
  /\ v = (IF Tight THEN Full ELSE "valid") /\ bl = [i \in Ids |-> Null] /\ bs = [i \in Ids |-> 0]
LEMMA FreshStart ==
  ASSUME HeapAssumption, TraceAssumption, NEW m \in [Address -> Filling]
  PROVE  Fresh(Start(m).mem, Start(m).brk, {}, [i \in Ids |-> Null], [i \in Ids |-> 0], Start(m).verdict)
<1> DEFINE bl == [i \in Ids |-> Null]
           bs == [i \in Ids |-> 0]
<1>1. Theirs(bl) = {Prologue}
  BY DEF Theirs, Owners
<1>2. PICK B, sz : Laid(Start(m).mem, Start(m).brk, B, sz, {}, bl, bs) /\ Neigh(B, sz, {Prologue}) = {}
  BY StartLaid
<1>3. Start(m).verdict = IF Tight THEN Full ELSE "valid"
  BY StartLaid
<1> HIDE DEF bl, bs
<1> QED
  BY <1>1, <1>2, <1>3 DEF Fresh, bl, bs

LEMMA NewTraceStep ==
  ASSUME HeapAssumption, TraceAssumption, NEW B, NEW sz, Laid(mem, brk, B, sz, ranges, blocks, block_sizes), NewTrace
  PROVE  Fresh(mem', brk', ranges', blocks', block_sizes', verdict')
<1>1. mem \in [Address -> Filling]
  BY DEF Laid
<1>2. /\ mem' = Start(mem).mem /\ brk' = Start(mem).brk /\ verdict' = Start(mem).verdict /\ ranges' = {}
      /\ blocks' = [i \in Ids |-> Null] /\ block_sizes' = [i \in Ids |-> 0]
  BY DEF NewTrace
<1> QED
  BY <1>1, <1>2, FreshStart

LEMMA Inited ==
  ASSUME HeapAssumption, TraceAssumption, Init
  PROVE  Fresh(mem, brk, ranges, blocks, block_sizes, verdict)
<1> DEFINE m == [i \in Address |-> 0]
<1>1. m \in [Address -> Filling]
  BY DEF Filling
<1>2. /\ mem = Start(m).mem /\ brk = Start(m).brk /\ verdict = Start(m).verdict /\ ranges = {}
      /\ blocks = [i \in Ids |-> Null] /\ block_sizes = [i \in Ids |-> 0]
  BY DEF Init
<1> HIDE DEF m
<1> QED
  BY <1>1, <1>2, FreshStart

------------------------------------------------------------------------------
\* Inv is inductive.
LEMMA FreshInv ==
  ASSUME NEW m, NEW b, NEW rs, NEW bl, NEW bs, NEW v, Fresh(m, b, rs, bl, bs, v)
  PROVE  /\ \E B, sz : Laid(m, b, B, sz, rs, bl, bs)
         /\ v \in {"valid", Full} /\ (v = "valid" => ~Tight)
<1>1. Full # "valid"
  BY DEF Full
<1> QED
  BY <1>1 DEF Fresh

LEMMA InvInit ==
  ASSUME HeapAssumption, TraceAssumption, Init
  PROVE  Inv
BY Inited, FreshInv DEF Inv

LEMMA InvNext ==
  ASSUME HeapAssumption, TraceAssumption, Inv, [Next]_vars
  PROVE  Inv'
<1>1. PICK B, sz : Laid(mem, brk, B, sz, ranges, blocks, block_sizes)
  BY DEF Inv
<1>2. verdict \in {"valid", Full} /\ (verdict = "valid" => ~Tight)
  BY DEF Inv
<1>3. ASSUME Refused PROVE Inv'
  <2>1. Full # "valid"
    BY DEF Full
  <2> QED
    BY <1>1, <1>3, <2>1 DEF Refused, Inv
<1>4. ASSUME NEW i, NEW size, NEW C, NEW s, Gives(i, size, C, s), verdict = "valid" PROVE Inv'
  BY <1>2, <1>4 DEF Gives, Inv
<1>5. ASSUME NEW i \in Ids, NEW size \in Sizes, Malloc(i, size) PROVE Inv'
  <2>1. verdict = "valid"
    BY <1>5 DEF Malloc
  <2> QED
    BY <1>1, <1>3, <1>4, <1>5, <2>1, MallocStep
<1>6. ASSUME NEW i \in Ids, NEW size \in Sizes, Realloc(i, size) PROVE Inv'
  <2>1. verdict = "valid"
    BY <1>6 DEF Realloc
  <2> QED
    BY <1>1, <1>3, <1>4, <1>6, <2>1, ReallocStep
<1>7. ASSUME NEW i \in Ids, Free(i) PROVE Inv'
  <2>1. PICK C, s : FreeGives(i, C, s)
    BY <1>1, <1>7, FreeStep
  <2>2. verdict = "valid"
    BY <1>7 DEF Free
  <2> QED
    BY <1>2, <2>1, <2>2 DEF FreeGives, Inv
<1>8. CASE NewTrace
  BY <1>1, <1>8, NewTraceStep, FreshInv DEF Inv
<1>9. CASE UNCHANGED vars
  BY <1>1, <1>2, <1>9 DEF vars, Inv
<1> QED
  BY <1>5, <1>6, <1>7, <1>8, <1>9 DEF Next

\* The blocks of the invariant are those the driver's walk finds.
LEMMA SeenBlocks ==
  ASSUME HeapAssumption, TraceAssumption, NEW m, NEW b, NEW B, NEW sz, NEW rs, NEW bl, NEW bs,
         Laid(m, b, B, sz, rs, bl, bs)
  PROVE  /\ Chain(m, b).bp = b /\ AllBlocks(m, b) = B /\ Theirs(bl) \subseteq B
         /\ {x \in B : IsFree(m, x)} = B \ Theirs(bl) /\ Neighbours(m, b) = Neigh(B, sz, Theirs(bl))
<1>1. Sound(m, b, B, sz, Theirs(bl))
  BY DEF Laid
<1>2. Chain(m, b).bp = b /\ AllBlocks(m, b) = B
  BY <1>1, ChainNow
<1>3. \A x \in B : IsFree(m, x) <=> x \notin Theirs(bl)
  BY <1>1, MeaningNow
<1>4. Tiled(B, sz, b) /\ m[b - 1] = PACK(0, 1) /\ Theirs(bl) \subseteq B
  BY <1>1 DEF Sound, Heaped
<1>5. ~IsFree(m, b) /\ b \notin B
  <2>1. GET_ALLOC(PACK(0, 1)) = 1
    BY DEF GET_ALLOC, PACK
  <2>2. b \notin B
    BY <1>4, Spans
  <2> QED
    BY <1>4, <2>1, <2>2 DEF IsFree, HDRP
<1>6. \A x \in B : NEXT_BLKP(m, x) = x + sz[x] /\ x + sz[x] \in B \union {b}
  BY <1>1, <1>4, TagsRead DEF Sound, Tiled
<1>7. Neighbours(m, b) = Neigh(B, sz, Theirs(bl))
  BY <1>2, <1>3, <1>5, <1>6 DEF Neighbours, Neigh
<1> QED
  BY <1>2, <1>3, <1>4, <1>7

LEMMA InvHeap ==
  ASSUME HeapAssumption, TraceAssumption, Inv
  PROVE  HeapIntact
<1>1. PICK B, sz : Laid(mem, brk, B, sz, ranges, blocks, block_sizes)
  BY DEF Inv
<1>2. verdict \in {"valid", Full}
  BY DEF Inv
<1> DEFINE A == Theirs(blocks)
<1>3. /\ Sound(mem, brk, B, sz, A) /\ Owned(mem, sz, blocks, block_sizes)
      /\ ranges = Extents(blocks, block_sizes) /\ mem \in [Address -> Filling]
  BY <1>1 DEF Laid
<1>4. /\ Chain(mem, brk).bp = brk /\ AllBlocks(mem, brk) = B /\ A \subseteq B /\ {x \in B : IsFree(mem, x)} = B \ A
  BY <1>1, SeenBlocks
<1>5. Tiled(B, sz, brk) /\ brk <= MAX_HEAP /\ mem[brk - 1] = PACK(0, 1)
  BY <1>3 DEF Sound, Heaped
<1>6. Owners(blocks) = Live
  BY DEF Owners, Live
<1>7. TypeOK
  <2>1. mem \in [Address -> Int \union Ids \union {Junk}]
    BY <1>3 DEF Filling
  <2>2. brk \in 0 .. MAX_HEAP
    BY <1>5, Spans DEF HeapAssumption
  <2>3. blocks \in [Ids -> Address] /\ block_sizes \in [Ids -> Sizes \union {0}]
    BY <1>3 DEF Owned
  <2>4. ranges = {[lo |-> blocks[i], hi |-> blocks[i] + block_sizes[i] - 1] : i \in Live}
    BY <1>3, <1>6 DEF Extents
  <2> QED
    BY <1>2, <2>1, <2>2, <2>3, <2>4 DEF TypeOK
<1>8. BlocksTile
  <2>1. \A p \in B : mem[FTRP(mem, p)] = mem[HDRP(p)]
    BY <1>3, TagsRead DEF Sound
  <2> QED
    BY <1>4, <1>5, <2>1 DEF BlocksTile, HDRP
<1>9. NoLeak
  <2>1. FreeBlocks = B \ A
    BY <1>4 DEF FreeBlocks
  <2>2. \A i \in Live : blocks[i] # Prologue
    BY <1>3 DEF Owned, Owns, Live
  <2>3. A = {Prologue} \union {blocks[i] : i \in Live}
    BY <1>6 DEF Theirs, Prologue, DSIZE
  <2>4. Used = A \ {Prologue}
    BY <1>4, <2>1, <2>3 DEF Used
  <2>5. Prologue \notin {blocks[i] : i \in Live}
    BY <2>2
  <2> QED
    BY <2>3, <2>4, <2>5 DEF NoLeak
<1> QED
  BY <1>2, <1>7, <1>8, <1>9 DEF HeapIntact, DriverAccepts

LEMMA InvTree ==
  ASSUME HeapAssumption, TraceAssumption, Inv
  PROVE  TreeIntact
<1>1. PICK B, sz : Laid(mem, brk, B, sz, ranges, blocks, block_sizes)
  BY DEF Inv
<1> DEFINE A == Theirs(blocks)
<1>2. Sound(mem, brk, B, sz, A)
  BY <1>1 DEF Laid
<1>3. FreeBlocks = B \ A
  BY <1>1, SeenBlocks DEF FreeBlocks
<1>4. IsTree(mem, B \ A) /\ \A x \in B \ A : mem[x] = sz[x]
  BY <1>2 DEF Sound, Heaped
<1>5. TreeOf(mem) = B \ A /\ Linked(mem) /\ RedBlack(mem)
  BY <1>4, TreeShows
<1>6. \A x \in B : SizeOf(mem, x) = sz[x]
  BY <1>2, TagsRead DEF Sound
<1> QED
  BY <1>3, <1>4, <1>5, <1>6 DEF TreeIntact, TreeHoldsFreeBlocks

\* After any sequence of mallocs, reallocs and frees that the driver makes, blocks tile the
\* heap, tags say what they are, the free ones are the nodes of a red-black tree, those in
\* use are the ones the driver knows, and each holds what was written to it.
THEOREM Invariant ==
  ASSUME HeapAssumption, TraceAssumption
  PROVE  Spec => []Inv
<1>1. Init => Inv
  BY InvInit
<1>2. Inv /\ [Next]_vars => Inv'
  BY InvNext
<1> QED
  BY <1>1, <1>2, PTL DEF Spec

\* The tags, the blocks in use and the ranges the driver keeps agree after any sequence
\* of requests, and no check of the driver fails: blocks are aligned, in the heap and apart,
\* and realloc keeps what was in them (mm.c, eval_mm_valid).
THEOREM HeapStaysIntact ==
  ASSUME HeapAssumption, TraceAssumption
  PROVE  Spec => []HeapIntact
<1>1. Inv => HeapIntact
  BY InvHeap
<1> QED
  BY <1>1, Invariant, PTL

\* The tree inside the free blocks has exactly these as nodes and stays a red-black tree
\* (red_black_tree.c under insert_free_block and remove_free_block).
THEOREM TreeStaysIntact ==
  ASSUME HeapAssumption, TraceAssumption
  PROVE  Spec => []TreeIntact
<1>1. Inv => TreeIntact
  BY InvTree
<1> QED
  BY <1>1, Invariant, PTL

\* A request that fails leaves the heap as it was, word for word (extend_heap's NULL).
THEOREM FailuresChangeNothing ==
  ASSUME HeapAssumption, TraceAssumption
  PROVE  Spec => FailureChangesNothing
<1> DEFINE Step == verdict = "valid" /\ verdict' = Full => brk' = brk /\ mem' = mem /\ ranges' = ranges
<1>1. ASSUME Inv, [Next]_vars
      PROVE  Step
  <2>1. PICK B, sz : Laid(mem, brk, B, sz, ranges, blocks, block_sizes)
    BY <1>1 DEF Inv
  <2>2. Full # "valid"
    BY DEF Full
  <2>3. ASSUME Refused PROVE Step
    BY <2>3 DEF Refused
  <2>4. ASSUME NEW i \in Ids, NEW size \in Sizes, Malloc(i, size) \/ Realloc(i, size) PROVE Step
    <3>1. Refused \/ verdict' = "valid"
      BY <2>1, <2>4, MallocStep, ReallocStep DEF Gives
    <3> QED
      BY <2>2, <2>3, <3>1
  <2>5. ASSUME NEW i \in Ids, Free(i) PROVE Step
    BY <2>2, <2>5 DEF Free
  <2>6. ASSUME NewTrace PROVE Step
    <3>1. Fresh(mem', brk', ranges', blocks', block_sizes', verdict')
      BY <2>1, <2>6, NewTraceStep
    <3>2. verdict' = IF Tight THEN Full ELSE "valid"
      BY <3>1 DEF Fresh
    <3> QED
      BY <1>1, <2>2, <3>2 DEF Inv
  <2>7. ASSUME UNCHANGED vars PROVE Step
    BY <2>2, <2>7 DEF vars
  <2> QED
    BY <1>1, <2>4, <2>5, <2>6, <2>7 DEF Next
<1> QED
  BY <1>1, Invariant, PTL DEF Spec, FailureChangesNothing

LEMMA NeighCount ==
  ASSUME HeapAssumption, TraceAssumption, NEW m, NEW b, NEW B, NEW sz, NEW rs, NEW bl, NEW bs,
         Laid(m, b, B, sz, rs, bl, bs)
  PROVE  /\ Cardinality(Neighbours(m, b)) = Cardinality(Neigh(B, sz, Theirs(bl)))
         /\ Cardinality(Neigh(B, sz, Theirs(bl))) \in Nat
<1>1. Tiled(B, sz, b)
  BY DEF Laid, Sound, Heaped
<1>2. IsFiniteSet(Neigh(B, sz, Theirs(bl)))
  BY <1>1, BlocksFinite
<1>3. Neighbours(m, b) = Neigh(B, sz, Theirs(bl))
  BY SeenBlocks
<1> QED
  BY <1>2, <1>3, FS_CardinalityType

\* Only a realloc to another size makes more free blocks lie next to each other; malloc
\* and free never do (coalesce, Carve).
THEOREM OnlyReallocsFragment ==
  ASSUME HeapAssumption, TraceAssumption
  PROVE  Spec => OnlyReallocFragments
<1> DEFINE more == Cardinality(Neighbours(mem', brk')) > Cardinality(Neighbours(mem, brk))
           resized == \E i \in Ids : blocks[i] # Null /\ blocks'[i] # Null /\ block_sizes'[i] # block_sizes[i]
           Step == verdict' = "valid" /\ more => resized
<1>1. ASSUME Inv, [Next]_vars
      PROVE  Step
  <2>1. PICK B, sz : Laid(mem, brk, B, sz, ranges, blocks, block_sizes)
    BY <1>1 DEF Inv
  <2> DEFINE old == Cardinality(Neigh(B, sz, Theirs(blocks)))
             Count(C, s) == Cardinality(Neigh(C, s, Theirs(blocks')))
  <2>2. Cardinality(Neighbours(mem, brk)) = old /\ old \in Nat
    BY <2>1, NeighCount
  <2>3. ASSUME NEW C, NEW s, Laid(mem', brk', C, s, ranges', blocks', block_sizes'), Count(C, s) <= old
        PROVE  ~more
    <3>1. Cardinality(Neighbours(mem', brk')) = Count(C, s) /\ Count(C, s) \in Nat
      BY <2>3, NeighCount
    <3> HIDE DEF old, Count
    <3> QED
      BY <2>2, <2>3, <3>1
  <2> HIDE DEF more
  <2>4. ASSUME Refused PROVE Step
    BY <2>4 DEF Refused, Full
  <2>5. ASSUME NEW i \in Ids, NEW size \in Sizes, Malloc(i, size) PROVE Step
    <3>1. CASE Refused
      BY <2>4, <3>1
    <3>2. CASE ~Refused
      <4>1. PICK C, s : Gives(i, size, C, s) /\ Count(C, s) <= old
        BY <2>1, <2>5, <3>2, MallocStep
      <4>2. Laid(mem', brk', C, s, ranges', blocks', block_sizes')
        BY <4>1 DEF Gives
      <4> QED
        BY <2>3, <4>1, <4>2
    <3> QED
      BY <3>1, <3>2
  <2>6. ASSUME NEW i \in Ids, NEW size \in Sizes, Realloc(i, size) PROVE Step
    <3>1. CASE Refused
      BY <2>4, <3>1
    <3>2. CASE ~Refused
      <4>1. PICK C, s : /\ Gives(i, size, C, s) /\ blocks[i] # Null
                        /\ block_sizes[i] = size => C = B /\ s = sz /\ blocks'[i] = blocks[i]
        BY <2>1, <2>6, <3>2, ReallocStep
      <4>2. /\ Laid(mem', brk', C, s, ranges', blocks', block_sizes') /\ blocks'[i] # Null
            /\ blocks' = [blocks EXCEPT ![i] = blocks'[i]] /\ block_sizes' = [block_sizes EXCEPT ![i] = size]
        BY <4>1 DEF Gives
      <4>3. /\ blocks \in [Ids -> Address] /\ block_sizes \in [Ids -> Sizes \union {0}]
        BY <2>1 DEF Laid, Owned
      <4>4. block_sizes'[i] = size
        BY <4>2, <4>3
      <4>5. CASE block_sizes[i] = size
        <5>1. blocks' = blocks
          BY <4>1, <4>2, <4>3, <4>5
        <5>2. C = B /\ s = sz
          BY <4>1, <4>5
        <5>3. Count(C, s) <= old
          <6>1. Count(C, s) = old
            BY <5>1, <5>2
          <6> HIDE DEF old, Count
          <6> QED
            BY <6>1, <2>2
        <5> QED
          BY <2>3, <4>2, <5>3
      <4>6. CASE block_sizes[i] # size
        BY <4>1, <4>2, <4>4, <4>6
      <4> QED
        BY <4>5, <4>6
    <3> QED
      BY <3>1, <3>2
  <2>7. ASSUME NEW i \in Ids, Free(i) PROVE Step
    <3>1. PICK C, s : FreeGives(i, C, s) /\ Count(C, s) <= old
      BY <2>1, <2>7, FreeStep
    <3>2. Laid(mem', brk', C, s, ranges', blocks', block_sizes')
      BY <3>1 DEF FreeGives
    <3> QED
      BY <2>3, <3>1, <3>2
  <2>8. ASSUME NewTrace PROVE Step
    <3>1. Fresh(mem', brk', ranges', blocks', block_sizes', verdict')
      BY <2>1, <2>8, NewTraceStep
    <3>2. PICK C, s : Laid(mem', brk', C, s, ranges', blocks', block_sizes') /\ Neigh(C, s, Theirs(blocks')) = {}
      BY <3>1 DEF Fresh
    <3>3. Count(C, s) = 0
      BY <3>2, FS_EmptySet
    <3>4. Count(C, s) <= old
      BY <2>2, <3>3
    <3> QED
      BY <2>3, <3>2, <3>4
  <2>9. ASSUME UNCHANGED vars PROVE Step
    <3>1. mem' = mem /\ brk' = brk /\ ranges' = ranges /\ blocks' = blocks /\ block_sizes' = block_sizes
      BY <2>9 DEF vars
    <3>2. Laid(mem', brk', B, sz, ranges', blocks', block_sizes')
      BY <2>1, <3>1
    <3>3. Count(B, sz) = old
      BY <3>1
    <3>4. Count(B, sz) <= old
      BY <2>2, <3>3
    <3> QED
      BY <2>3, <3>2, <3>4
  <2> QED
    BY <1>1, <2>5, <2>6, <2>7, <2>8, <2>9 DEF Next
<1>2. Spec => [][Step]_vars
  BY <1>1, Invariant, PTL DEF Spec
<1> QED
  BY <1>2 DEF OnlyReallocFragments

------------------------------------------------------------------------------
\* The driver's blocks as module Allocator sees them: the data of a block in use are its
\* number throughout.
Areas(bl, bs)   == [i \in Ids |-> [lo |-> bl[i], size |-> bs[i]]]
Datas(m, bl, bs) == [i \in Ids |-> [k \in 1 .. bs[i] |-> m[bl[i] + k - 1]]]
Stamps(bs)      == [i \in Ids |-> [k \in 1 .. bs[i] |-> i]]

LEMMA DataStamps ==
  ASSUME HeapAssumption, TraceAssumption, NEW m, NEW b, NEW B, NEW sz, NEW rs, NEW bl, NEW bs,
         Laid(m, b, B, sz, rs, bl, bs)
  PROVE  Datas(m, bl, bs) = Stamps(bs)
<1>1. Sound(m, b, B, sz, Theirs(bl)) /\ Owned(m, sz, bl, bs)
  BY DEF Laid
<1>2. ASSUME NEW i \in Ids, NEW k \in 1 .. bs[i] PROVE m[bl[i] + k - 1] = i
  <2>1. bl[i] # Null
    BY <1>1, <1>2 DEF Owned
  <2>2. i \in Owners(bl)
    BY <2>1 DEF Owners
  <2>3. bs[i] \in Nat /\ bl[i] \in Nat /\ \A j \in 0 .. bs[i] - 1 : m[bl[i] + j] = i
    BY <1>1, <2>2, OwnedFacts
  <2>4. k - 1 \in 0 .. bs[i] - 1 /\ bl[i] + (k - 1) = bl[i] + k - 1
    BY <1>2, <2>3
  <2> QED
    BY <2>3, <2>4
<1> QED
  BY <1>2 DEF Datas, Stamps

\* Areas of different blocks do not meet.
AreaOwn(bl, bs, i) ==
  /\ bl[i] \in Nat /\ bl[i] % 2 = 0 /\ bs[i] \in Nat
  /\ bl[i] .. bl[i] + bs[i] - 1 \subseteq 0 .. MAX_HEAP - 1
  /\ \A j \in Ids \ {i} : (bl[i] .. bl[i] + bs[i] - 1) \intersect (bl[j] .. bl[j] + bs[j] - 1) = {}
LEMMA AreasApart ==
  ASSUME HeapAssumption, TraceAssumption, NEW m, NEW b, NEW B, NEW sz, NEW rs, NEW bl, NEW bs,
         Laid(m, b, B, sz, rs, bl, bs), NEW i \in Owners(bl)
  PROVE  AreaOwn(bl, bs, i)
<1>1. Sound(m, b, B, sz, Theirs(bl)) /\ Owned(m, sz, bl, bs)
  BY DEF Laid
<1>2. Tiled(B, sz, b) /\ b <= MAX_HEAP /\ b \in Nat
  BY <1>1 DEF Sound, Heaped, Tiled
<1>3. \A j \in Owners(bl) : /\ bl[j] \in B /\ bl[j] \in Nat /\ bs[j] \in Nat /\ bs[j] + 2 <= sz[bl[j]]
                            /\ sz[bl[j]] \in Nat
  BY <1>1, OwnedFacts
<1> DEFINE p == bl[i]
           q == bs[i]
           z == sz[bl[i]]
<1>4. p \in B /\ p \in Nat /\ q \in Nat /\ q + 2 <= z /\ z \in Nat /\ p + z <= b
  BY <1>2, <1>3, Spans
<1>5. p % 2 = 0
  BY <1>2, <1>4 DEF Tiled, IsEven
<1>6. ASSUME NEW j \in Ids \ {i}
      PROVE  (p .. p + q - 1) \intersect (bl[j] .. bl[j] + bs[j] - 1) = {}
  <2> DEFINE x == bl[j]
             y == bs[j]
             w == sz[bl[j]]
  <2>1. CASE x = Null
    <3>1. y = 0 /\ x = 0
      BY <2>1, <1>1 DEF Owned, Null
    <3> HIDE DEF x, y
    <3>2. x .. x + y - 1 = {}
      BY <3>1
    <3> QED
      BY <3>2 DEF x, y
  <2>2. CASE x # Null
    <3>1. j \in Owners(bl)
      BY <2>2 DEF Owners
    <3>2. x \in B /\ x \in Nat /\ y \in Nat /\ y + 2 <= w /\ w \in Nat
      BY <1>3, <3>1
    <3>3. x # p
      BY <1>1, <3>1 DEF Owned
    <3>4. x + w <= p \/ p + z <= x
      BY <1>2, <1>4, <3>2, <3>3, Spans
    <3> HIDE DEF x, y, w, p, q, z
    <3>5. \A a \in p .. p + q - 1 : a \notin x .. x + y - 1
      BY <1>4, <3>2, <3>4
    <3>6. (p .. p + q - 1) \intersect (x .. x + y - 1) = {}
      BY <3>5
    <3> QED
      BY <3>6 DEF x, y
  <2> QED
    BY <2>1, <2>2
<1> HIDE DEF z
<1>7. p .. p + q - 1 \subseteq 0 .. MAX_HEAP - 1
  <2> HIDE DEF p, q
  <2> QED
    BY <1>2, <1>4 DEF HeapAssumption
<1> QED
  BY <1>4, <1>5, <1>6, <1>7 DEF AreaOwn

LEMMA GiveMaps ==
  ASSUME HeapAssumption, TraceAssumption, NEW B, NEW sz, Laid(mem, brk, B, sz, ranges, blocks, block_sizes),
         NEW i, NEW size, NEW C, NEW s, Gives(i, size, C, s)
  PROVE  AllocatorView!Give(i, size)
<1> DEFINE area == Areas(blocks, block_sizes)
           after == Areas(blocks', block_sizes')
           a == [lo |-> blocks'[i], size |-> size]
<1>1. /\ i \in Ids /\ size \in Sizes /\ Laid(mem', brk', C, s, ranges', blocks', block_sizes') /\ blocks'[i] # Null
      /\ blocks' = [blocks EXCEPT ![i] = blocks'[i]] /\ block_sizes' = [block_sizes EXCEPT ![i] = size]
  BY DEF Gives
<1>2. blocks \in [Ids -> Address] /\ block_sizes \in [Ids -> Sizes \union {0}]
  BY DEF Laid, Owned
<1>3. /\ block_sizes'[i] = size /\ \A j \in Ids \ {i} : blocks'[j] = blocks[j] /\ block_sizes'[j] = block_sizes[j]
  BY <1>1, <1>2
<1>4. i \in Owners(blocks')
  BY <1>1 DEF Owners
<1>5. /\ blocks'[i] \in Nat /\ blocks'[i] % 2 = 0 /\ size \in Nat
      /\ blocks'[i] .. blocks'[i] + size - 1 \subseteq 0 .. MAX_HEAP - 1
      /\ \A j \in Ids \ {i} : (blocks'[i] .. blocks'[i] + size - 1) \intersect
                              (blocks[j] .. blocks[j] + block_sizes[j] - 1) = {}
  <2>1. AreaOwn(blocks', block_sizes', i)
    BY <1>1, <1>4, AreasApart
  <2> QED
    BY <2>1, <1>3 DEF AreaOwn
<1>6. after[i] = a /\ after = [area EXCEPT ![i] = a]
  BY <1>1, <1>2, <1>3 DEF Areas
<1>7. a \in [lo : Nat, size : {size}] /\ AllocatorView!Usable(i, a)
  <2>1. \A j \in Ids \ {i} : (blocks'[i] .. blocks'[i] + size - 1) \intersect
                             (blocks[j] .. blocks[j] + block_sizes[j] - 1) = {}
    BY <1>5
  <2>2. \A j \in Ids : area[j].lo = blocks[j] /\ area[j].size = block_sizes[j]
    BY DEF Areas
  <2>3. AllocatorView!Extent(a) = blocks'[i] .. blocks'[i] + size - 1
    BY DEF AllocatorView!Extent
  <2>4. \A j \in Ids : AllocatorView!Extent([lo |-> blocks[j], size |-> block_sizes[j]])
                         = blocks[j] .. blocks[j] + block_sizes[j] - 1
    BY DEF AllocatorView!Extent
  <2>5. \A j \in Ids \ {i} : AllocatorView!Extent(a) \intersect
                             AllocatorView!Extent([lo |-> blocks[j], size |-> block_sizes[j]]) = {}
    BY <2>1, <2>3, <2>4
  <2> QED
    BY <1>5, <2>3, <2>5 DEF AllocatorView!Usable
<1>8. Datas(mem', blocks', block_sizes') = [Datas(mem, blocks, block_sizes) EXCEPT ![i] = [k \in 1 .. size |-> i]]
  <2>1. Datas(mem', blocks', block_sizes') = Stamps(block_sizes') /\ Datas(mem, blocks, block_sizes) = Stamps(block_sizes)
    BY <1>1, DataStamps
  <2>2. Stamps(block_sizes') = [Stamps(block_sizes) EXCEPT ![i] = [k \in 1 .. size |-> i]]
    <3>1. Stamps(block_sizes')[i] = [k \in 1 .. size |-> i]
      BY <1>1, <1>3 DEF Stamps
    <3>2. \A j \in Ids \ {i} : Stamps(block_sizes')[j] = Stamps(block_sizes)[j]
      BY <1>3 DEF Stamps
    <3>3. /\ Stamps(block_sizes) = [j \in Ids |-> Stamps(block_sizes)[j]]
          /\ Stamps(block_sizes') = [j \in Ids |-> Stamps(block_sizes')[j]]
      BY DEF Stamps
    <3> QED
      BY <3>1, <3>2, <3>3
  <2> QED
    BY <2>1, <2>2
<1> QED
  BY <1>6, <1>7, <1>8 DEF AllocatorView!Give, Areas, Datas

LEMMA FreeMaps ==
  ASSUME HeapAssumption, TraceAssumption, NEW B, NEW sz, Laid(mem, brk, B, sz, ranges, blocks, block_sizes),
         NEW i \in Ids, NEW C, NEW s, FreeGives(i, C, s)
  PROVE  AllocatorView!Free(i)
<1>1. /\ Laid(mem', brk', C, s, ranges', blocks', block_sizes') /\ blocks[i] # Null
      /\ blocks' = [blocks EXCEPT ![i] = Null] /\ block_sizes' = [block_sizes EXCEPT ![i] = 0]
  BY DEF FreeGives
<1>2. blocks \in [Ids -> Address] /\ block_sizes \in [Ids -> Sizes \union {0}]
  BY DEF Laid, Owned
<1>3. /\ blocks'[i] = 0 /\ block_sizes'[i] = 0
      /\ \A j \in Ids \ {i} : blocks'[j] = blocks[j] /\ block_sizes'[j] = block_sizes[j]
  BY <1>1, <1>2 DEF Null
<1>4. block_sizes[i] > 0
  <2>1. block_sizes[i] \in Sizes
    BY <1>1 DEF Laid, Owned, Owns
  <2>2. \A x \in Sizes : x > 0
    BY DEF TraceAssumption
  <2> QED
    BY <2>1, <2>2
<1>5. Areas(blocks', block_sizes') = [Areas(blocks, block_sizes) EXCEPT ![i] = [lo |-> 0, size |-> 0]]
  BY <1>3 DEF Areas
<1>6. Datas(mem', blocks', block_sizes') = [Datas(mem, blocks, block_sizes) EXCEPT ![i] = << >>]
  <2>1. Datas(mem', blocks', block_sizes') = Stamps(block_sizes') /\ Datas(mem, blocks, block_sizes) = Stamps(block_sizes)
    BY <1>1, DataStamps
  <2>2. Stamps(block_sizes')[i] = << >>
    BY <1>3 DEF Stamps
  <2>3. \A j \in Ids \ {i} : Stamps(block_sizes')[j] = Stamps(block_sizes)[j]
    BY <1>3 DEF Stamps
  <2>4. /\ Stamps(block_sizes) = [j \in Ids |-> Stamps(block_sizes)[j]]
        /\ Stamps(block_sizes') = [j \in Ids |-> Stamps(block_sizes')[j]]
    BY DEF Stamps
  <2>5. Stamps(block_sizes') = [Stamps(block_sizes) EXCEPT ![i] = << >>]
    BY <2>2, <2>3, <2>4
  <2> QED
    BY <2>1, <2>5
<1>7. Areas(blocks, block_sizes)[i].size > 0
  BY <1>4 DEF Areas
<1> QED
  BY <1>5, <1>6, <1>7 DEF AllocatorView!Free, AllocatorView!NoArea, Areas, Datas

LEMMA FreshMaps ==
  ASSUME HeapAssumption, TraceAssumption, NEW m, NEW b, NEW rs, NEW bl, NEW bs, NEW v, Fresh(m, b, rs, bl, bs, v)
  PROVE  Areas(bl, bs) = [i \in Ids |-> [lo |-> 0, size |-> 0]] /\ Datas(m, bl, bs) = [i \in Ids |-> << >>]
<1>1. bl = [i \in Ids |-> Null] /\ bs = [i \in Ids |-> 0] /\ \E B, sz : Laid(m, b, B, sz, rs, bl, bs)
  BY DEF Fresh
<1>2. Datas(m, bl, bs) = Stamps(bs)
  BY <1>1, DataStamps
<1>3. \A i \in Ids : [k \in 1 .. bs[i] |-> i] = << >>
  BY <1>1
<1> QED
  BY <1>1, <1>2, <1>3 DEF Areas, Stamps, Null

\* mm.c is an allocator: each block in use has an aligned area of the heap to itself, and
\* what its user wrote there is there until he frees or resizes it himself (that it outlives
\* resizing is a check of the driver, see HeapStaysIntact).
THEOREM PackageAllocates ==
  ASSUME HeapAssumption, TraceAssumption
  PROVE  Spec => AllocatorSpec
<1>1. Init => AllocatorView!Init
  <2>1. ASSUME Init PROVE AllocatorView!Init
    <3>1. Fresh(mem, brk, ranges, blocks, block_sizes, verdict)
      BY <2>1, Inited
    <3>2. /\ Areas(blocks, block_sizes) = [i \in Ids |-> [lo |-> 0, size |-> 0]]
          /\ Datas(mem, blocks, block_sizes) = [i \in Ids |-> << >>]
      BY <3>1, FreshMaps
    <3> QED
      BY <3>2 DEF AllocatorView!Init, AllocatorView!NoArea, Areas, Datas
  <2> QED
    BY <2>1
<1>2. Inv /\ [Next]_vars => [AllocatorView!Next]_(AllocatorView!vars)
  <2> SUFFICES ASSUME Inv, [Next]_vars
               PROVE  AllocatorView!Next \/ UNCHANGED AllocatorView!vars
    OBVIOUS
  <2>1. PICK B, sz : Laid(mem, brk, B, sz, ranges, blocks, block_sizes)
    BY DEF Inv
  <2>2. ASSUME mem' = mem, blocks' = blocks, block_sizes' = block_sizes PROVE UNCHANGED AllocatorView!vars
    BY <2>2 DEF AllocatorView!vars
  <2>3. ASSUME NEW i \in Ids, NEW size \in Sizes, Malloc(i, size) \/ Realloc(i, size)
        PROVE  AllocatorView!Next \/ UNCHANGED AllocatorView!vars
    <3>1. CASE Refused
      BY <3>1, <2>2 DEF Refused
    <3>2. CASE ~Refused
      <4>1. PICK C, s : Gives(i, size, C, s)
        BY <2>1, <2>3, <3>2, MallocStep, ReallocStep
      <4>2. AllocatorView!Give(i, size)
        BY <2>1, <4>1, GiveMaps
      <4> QED
        BY <4>2 DEF AllocatorView!Next
    <3> QED
      BY <3>1, <3>2
  <2>4. ASSUME NEW i \in Ids, Free(i)
        PROVE  AllocatorView!Next
    <3>1. PICK C, s : FreeGives(i, C, s)
      BY <2>1, <2>4, FreeStep
    <3>2. AllocatorView!Free(i)
      BY <2>1, <3>1, FreeMaps
    <3> QED
      BY <3>2 DEF AllocatorView!Next
  <2>5. ASSUME NewTrace
        PROVE  AllocatorView!Next
    <3>1. Fresh(mem', brk', ranges', blocks', block_sizes', verdict')
      BY <2>1, <2>5, NewTraceStep
    <3>2. /\ Areas(blocks', block_sizes') = [i \in Ids |-> [lo |-> 0, size |-> 0]]
          /\ Datas(mem', blocks', block_sizes') = [i \in Ids |-> << >>]
      BY <3>1, FreshMaps
    <3>3. AllocatorView!Restart
      BY <3>2 DEF AllocatorView!Restart, AllocatorView!NoArea, Areas, Datas
    <3> QED
      BY <3>3 DEF AllocatorView!Next
  <2>6. ASSUME UNCHANGED vars PROVE UNCHANGED AllocatorView!vars
    BY <2>2, <2>6 DEF vars
  <2> QED
    BY <2>3, <2>4, <2>5, <2>6 DEF Next
<1> QED
  BY <1>1, <1>2, Invariant, PTL DEF Spec, AllocatorSpec, AllocatorView!Spec

==============================================================================
