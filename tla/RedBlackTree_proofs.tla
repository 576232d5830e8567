--------------------------- MODULE RedBlackTree_proofs ---------------------------
(***************************************************************************)
(* The tree of free blocks, for a memory of any size and any nodes in it.  *)
(* The nodes are read from the memory as a map t from nodes to fields, and *)
(* what links alone cannot say is named: sub[x], the nodes below and       *)
(* including x, and h[x], the number of black nodes on each way down from  *)
(* x.  A rotation (Turn) is followed first; every round of a loop is then  *)
(* a few rotations and colours, and keeps an invariant of the loop; and    *)
(* the number of nodes below, or not below, the one a loop is at bounds    *)
(* its rounds, so each loop has ended before the bound of While.           *)
(***************************************************************************)
EXTENDS RedBlackTree, FiniteSetTheorems, WellFoundedInduction, NaturalsInduction, TLAPS

Dirs   == {Left, Right}
Spots(N) == N \union {NilNode, RootNode}
Fields == Red .. Parent

\* t is a map of nodes: a function from them to their fields.
IsMap(t, N) == t = [x \in Spots(N) |-> [f \in Fields |-> t[x][f]]]

\* The parts of a tree t with the nodes N: what fields may hold, links that go up as they
\* go down, and the nodes below each node.
Typed(t, N) ==
  /\ \A x \in N : /\ t[x][Red] \in {0, 1}
                  /\ \A d \in Dirs : t[x][d] \in N \union {NilNode}
                  /\ t[x][Parent] \in N \union {RootNode}
  /\ t[RootNode][Left] \in N \union {NilNode}
  /\ t[NilNode][Red] = 0 /\ t[RootNode][Red] = 0

Links(t, N) ==
  /\ \A x \in N, d \in Dirs : t[x][d] # NilNode => t[t[x][d]][Parent] = x
  /\ t[RootNode][Left] # NilNode => t[t[RootNode][Left]][Parent] = RootNode
  /\ \A x \in N : \/ t[x][Parent] = RootNode /\ t[RootNode][Left] = x
                  \/ t[x][Parent] \in N /\ \E d \in Dirs : t[t[x][Parent]][d] = x

Subtrees(t, N, sub) ==
  /\ sub \in [N \union {NilNode} -> SUBSET N]
  /\ sub[NilNode] = {}
  /\ sub[t[RootNode][Left]] = N
  /\ \A x \in N : /\ sub[x] = {x} \union sub[t[x][Left]] \union sub[t[x][Right]]
                  /\ x \notin sub[t[x][Left]] /\ x \notin sub[t[x][Right]]
                  /\ sub[t[x][Left]] \intersect sub[t[x][Right]] = {}

Good(N) == NilNode \notin N /\ RootNode \notin N

Shape(t, N, sub) ==
  Good(N) /\ IsMap(t, N) /\ Typed(t, N) /\ Links(t, N) /\ Subtrees(t, N, sub)

\* a is on side d of x.
Beside(K, d, a, x) == IF d = Left THEN K[a] >= K[x] ELSE K[a] <= K[x]
Ordered(t, N, sub, K) ==
  /\ K \in [N -> Int]
  /\ \A x \in N, d \in Dirs : \A a \in sub[t[x][d]] : Beside(K, d, a, x)

\* A rotation of the map: the writes of left_rotate and right_rotate, in their order.
Side(t, x) == IF t[t[x][Parent]][Left] = x THEN Left ELSE Right
Put(t, x, f, v) == [t EXCEPT ![x][f] = v]
TurnAt(t, x, d, y, c, q, e) ==
  LET t1 == Put(t, x, Opposite(d), c)
      t2 == Put(t1, y, Parent, q)
      t3 == Put(t2, q, e, y)
      t4 == Put(t3, y, d, x)
      t5 == Put(t4, x, Parent, y)
  IN  IF c = NilNode THEN t5 ELSE Put(t5, c, Parent, x)
Turn(t, x, d) ==
  TurnAt(t, x, d, t[x][Opposite(d)], t[t[x][Opposite(d)]][d], t[x][Parent], Side(t, x))

TurnSub(t, sub, x, d) ==
  LET y == t[x][Opposite(d)]
  IN  [sub EXCEPT ![y] = sub[x], ![x] = {x} \union sub[t[x][d]] \union sub[t[y][d]]]

LEMMA PutFields ==
  ASSUME NEW N, NEW t, IsMap(t, N), NEW x \in Spots(N), NEW f \in Fields, NEW v
  PROVE  /\ IsMap(Put(t, x, f, v), N)
         /\ \A z \in Spots(N), g \in Fields :
              Put(t, x, f, v)[z][g] = IF z = x /\ g = f THEN v ELSE t[z][g]
BY DEF IsMap, Put

LEMMA Below ==
  ASSUME NEW N, NEW t, NEW sub, Shape(t, N, sub)
  PROVE  /\ \A x \in N : x \in sub[x] /\ sub[x] \subseteq N
         /\ \A x \in N, d \in Dirs : t[x][d] # NilNode =>
              /\ t[x][d] \in N /\ t[t[x][d]][Parent] = x /\ t[x][d] # x
              /\ sub[t[x][d]] \subseteq sub[x] /\ x \notin sub[t[x][d]]
              /\ t[x][d] # t[x][Opposite(d)]
<1>1. \A x \in N : x \in sub[x] /\ sub[x] \subseteq N
  BY DEF Shape, Subtrees
<1>2. \A x \in N, d \in Dirs : sub[t[x][d]] \subseteq sub[x] /\ x \notin sub[t[x][d]]
  BY DEF Shape, Subtrees, Dirs
<1>3. \A x \in N, d \in Dirs : t[x][d] # NilNode => t[x][d] \in N /\ t[t[x][d]][Parent] = x
  BY DEF Shape, Typed, Links
<1>4. \A x \in N : t[x][Left] # NilNode => t[x][Left] # t[x][Right]
  <2>1. \A x \in N : t[x][Left] # NilNode => t[x][Left] \in sub[t[x][Left]]
    BY <1>1, <1>3 DEF Dirs
  <2>2. \A x \in N : sub[t[x][Left]] \intersect sub[t[x][Right]] = {}
    BY DEF Shape, Subtrees
  <2> QED
    BY <2>1, <2>2
<1>5. \A x \in N, d \in Dirs : t[x][d] # NilNode => t[x][d] # t[x][Opposite(d)]
  BY <1>4 DEF Dirs, Opposite, Left, Right
<1> QED
  BY <1>1, <1>2, <1>3, <1>5

LEMMA SideIs ==
  ASSUME NEW N, NEW t, NEW sub, Shape(t, N, sub), NEW x \in N
  PROVE  /\ Side(t, x) \in Dirs
         /\ t[t[x][Parent]][Side(t, x)] = x
         /\ t[x][Parent] = RootNode => Side(t, x) = Left
         /\ t[x][Parent] \in N => t[t[x][Parent]][Opposite(Side(t, x))] # x
         /\ t[x][Parent] # x
<1>1. \A z \in N : z \in sub[z]
  BY DEF Shape, Subtrees
<1>2. \A p \in N : ~(t[p][Left] = x /\ t[p][Right] = x)
  BY <1>1 DEF Shape, Subtrees
<1>3. t[x][Parent] # x
  BY <1>1 DEF Shape, Subtrees, Links, Dirs, Good
<1> QED
  <2> USE DEF Dirs, Left, Right, Opposite
  <2>1. CASE t[x][Parent] = RootNode
    BY <2>1, <1>3 DEF Side, Shape, Links, Good
  <2>2. CASE t[x][Parent] \in N
    BY <2>2, <1>2, <1>3 DEF Side, Shape, Links, Good
  <2> QED
    BY <2>1, <2>2 DEF Shape, Links

LEMMA Above ==
  ASSUME NEW N, NEW t, NEW sub, Shape(t, N, sub), NEW x \in N
  PROVE  /\ t[x][Parent] \in N \union {RootNode} /\ t[x][Parent] # x
         /\ Side(t, x) \in Dirs /\ t[t[x][Parent]][Side(t, x)] = x
         /\ t[x][Parent] = RootNode => Side(t, x) = Left /\ sub[x] = N
         /\ t[x][Parent] \in N =>
              /\ t[t[x][Parent]][Opposite(Side(t, x))] # x
              /\ sub[x] \subseteq sub[t[x][Parent]] /\ t[x][Parent] \notin sub[x]
<1> DEFINE p == t[x][Parent]
           e == Side(t, x)
<1>1. e \in Dirs /\ t[p][e] = x /\ p # x /\ (p = RootNode => e = Left) /\ (p \in N => t[p][Opposite(e)] # x)
  BY SideIs
<1> HIDE DEF e
<1>2. p \in N \union {RootNode}
  BY DEF Shape, Typed
<1>3. p = RootNode => sub[x] = N
  BY <1>1 DEF Shape, Subtrees
<1>4. x # NilNode
  BY DEF Shape, Good
<1>5. p \in N => sub[x] \subseteq sub[p] /\ p \notin sub[x]
  BY <1>1, <1>4, Below
<1> QED
  BY <1>1, <1>2, <1>3, <1>5 DEF e

\* The fields after a rotation.
LEMMA TurnFields ==
  ASSUME NEW N, NEW t, NEW sub, Shape(t, N, sub), NEW x \in N, NEW d \in Dirs,
         t[x][Opposite(d)] # NilNode,
         NEW y, y = t[x][Opposite(d)], NEW c, c = t[y][d], NEW q, q = t[x][Parent],
         NEW e, e = Side(t, x), NEW u, u = Turn(t, x, d)
  PROVE  /\ IsMap(u, N)
         /\ y \in N /\ y # x /\ c \in N \union {NilNode} /\ c # x /\ c # y
         /\ q \in N \union {RootNode} /\ q # x /\ q # y /\ q # c /\ e \in Dirs /\ t[q][e] = x
         /\ t[y][Parent] = x
         /\ \A z \in Spots(N) : u[z][Red] = t[z][Red]
         /\ \A z \in N : u[z][Parent] = IF z = x THEN y ELSE IF z = y THEN q
                                        ELSE IF z = c THEN x ELSE t[z][Parent]
         /\ u[NilNode][Parent] = t[NilNode][Parent]
         /\ \A z \in Spots(N), b \in Dirs :
              u[z][b] = IF z = x /\ b = Opposite(d) THEN c ELSE IF z = y /\ b = d THEN x
                        ELSE IF z = q /\ b = e THEN y ELSE t[z][b]
<1>0. u = TurnAt(t, x, d, y, c, q, e)
  BY DEF Turn
<1> USE DEF Dirs, Left, Right, Opposite
<1>1. y \in N /\ t[y][Parent] = x /\ y # x /\ sub[y] \subseteq sub[x] /\ x \notin sub[y]
  BY Below DEF Shape, Typed
<1>2. c \in N \union {NilNode} /\ (c # NilNode => t[c][Parent] = y /\ c # y /\ sub[c] \subseteq sub[y])
  BY <1>1, Below DEF Shape, Typed
<1>3. c # y /\ c # x
  BY <1>1, <1>2, Below DEF Shape, Good
<1>4. /\ q \in N \union {RootNode} /\ q # x /\ e \in {Left, Right} /\ t[q][e] = x
      /\ q \in N => sub[x] \subseteq sub[q] /\ q \notin sub[x]
  BY Above
<1>5. q # y /\ q # c
  <2>1. y \in sub[x] /\ (c \in N => c \in sub[x])
    BY <1>1, <1>2, Below DEF Shape, Good
  <2> QED
    BY <1>1, <1>2, <1>4, <2>1 DEF Shape, Good, RootNode, NilNode
<1> DEFINE t1 == Put(t, x, Opposite(d), c)
           t2 == Put(t1, y, Parent, q)
           t3 == Put(t2, q, e, y)
           t4 == Put(t3, y, d, x)
           t5 == Put(t4, x, Parent, y)
           t6 == Put(t5, c, Parent, x)
<1>6. u = IF c = NilNode THEN t5 ELSE t6
  BY <1>0 DEF TurnAt
<1>7. {x, y, q, c} \subseteq Spots(N) /\ {d, Opposite(d), e, Parent} \subseteq Fields
  BY <1>1, <1>2, <1>4 DEF Spots, Fields, Red, Parent
<1> HIDE DEF t1, t2, t3, t4, t5, t6
<1>8. /\ IsMap(t1, N)
      /\ \A z \in Spots(N), g \in Fields :
           t1[z][g] = IF z = x /\ g = Opposite(d) THEN c ELSE t[z][g]
  <2>1. IsMap(t, N)
    BY DEF Shape
  <2> QED
    BY <1>7, <2>1, PutFields DEF t1
<1>9. /\ IsMap(t2, N)
      /\ \A z \in Spots(N), g \in Fields :
           t2[z][g] = IF z = y /\ g = Parent THEN q ELSE t1[z][g]
  BY <1>7, <1>8, PutFields DEF t2
<1>10. /\ IsMap(t3, N)
       /\ \A z \in Spots(N), g \in Fields :
            t3[z][g] = IF z = q /\ g = e THEN y ELSE t2[z][g]
  BY <1>7, <1>9, PutFields DEF t3
<1>11. /\ IsMap(t4, N)
       /\ \A z \in Spots(N), g \in Fields :
            t4[z][g] = IF z = y /\ g = d THEN x ELSE t3[z][g]
  BY <1>7, <1>10, PutFields DEF t4
<1>12. /\ IsMap(t5, N)
       /\ \A z \in Spots(N), g \in Fields :
            t5[z][g] = IF z = x /\ g = Parent THEN y ELSE t4[z][g]
  BY <1>7, <1>11, PutFields DEF t5
<1>13. /\ IsMap(t6, N)
       /\ \A z \in Spots(N), g \in Fields :
            t6[z][g] = IF z = c /\ g = Parent THEN x ELSE t5[z][g]
  BY <1>7, <1>12, PutFields DEF t6
<1>14. /\ IsMap(u, N)
       /\ \A z \in Spots(N), g \in Fields :
            u[z][g] = IF z = c /\ g = Parent /\ c # NilNode THEN x ELSE t5[z][g]
  BY <1>6, <1>12, <1>13
<1>15. x # NilNode /\ y # NilNode /\ q # NilNode /\ N \subseteq Spots(N)
       /\ NilNode \in Spots(N) /\ NilNode \notin N
  BY <1>1, <1>4 DEF Shape, Good, Spots, RootNode, NilNode
<1> USE DEF Fields, Red, Parent
<1>16. \A z \in Spots(N) : u[z][Red] = t[z][Red]
  BY <1>4, <1>8, <1>9, <1>10, <1>11, <1>12, <1>14
<1>17. \A z \in Spots(N) : u[z][Parent] = IF z = c /\ c # NilNode THEN x ELSE IF z = x THEN y
                                        ELSE IF z = y THEN q ELSE t[z][Parent]
  BY <1>4, <1>8, <1>9, <1>10, <1>11, <1>12, <1>14
<1>18. \A z \in Spots(N), b \in Dirs :
         u[z][b] = IF z = y /\ b = d THEN x ELSE IF z = q /\ b = e THEN y 
                   ELSE IF z = x /\ b = Opposite(d) THEN c ELSE t[z][b]
  BY <1>4, <1>8, <1>9, <1>10, <1>11, <1>12, <1>14
<1>19. \A z \in N : u[z][Parent] = IF z = x THEN y ELSE IF z = y THEN q
                                    ELSE IF z = c THEN x ELSE t[z][Parent]
  BY <1>1, <1>3, <1>15, <1>17
<1>20. u[NilNode][Parent] = t[NilNode][Parent]
  BY <1>15, <1>17
<1>21. \A z \in Spots(N), b \in Dirs :
         u[z][b] = IF z = x /\ b = Opposite(d) THEN c ELSE IF z = y /\ b = d THEN x
                   ELSE IF z = q /\ b = e THEN y ELSE t[z][b]
  BY <1>1, <1>4, <1>18
<1>22. c \in N \union {NilNode} /\ t[y][Parent] = x
  BY <1>1, <1>2
<1> QED
  BY <1>1, <1>3, <1>4, <1>5, <1>14, <1>16, <1>19, <1>20, <1>21, <1>22

\* A rotation keeps the nodes and their order, and what is below the other nodes.
LEMMA TurnShape ==
  ASSUME NEW N, NEW t, NEW sub, Shape(t, N, sub), NEW x \in N, NEW d \in Dirs,
         t[x][Opposite(d)] # NilNode
  PROVE  Shape(Turn(t, x, d), N, TurnSub(t, sub, x, d))
<1> DEFINE y == t[x][Opposite(d)]
           c == t[y][d]
           q == t[x][Parent]
           e == Side(t, x)
           u == Turn(t, x, d)
           v == TurnSub(t, sub, x, d)
<1>1. /\ IsMap(u, N)
      /\ y \in N /\ y # x /\ c \in N \union {NilNode} /\ c # x /\ c # y
      /\ q \in N \union {RootNode} /\ q # x /\ q # y /\ q # c /\ e \in Dirs /\ t[q][e] = x
      /\ t[y][Parent] = x
      /\ \A z \in Spots(N) : u[z][Red] = t[z][Red]
      /\ \A z \in N : u[z][Parent] = IF z = x THEN y ELSE IF z = y THEN q
                                     ELSE IF z = c THEN x ELSE t[z][Parent]
      /\ \A z \in Spots(N), b \in Dirs :
              u[z][b] = IF z = x /\ b = Opposite(d) THEN c ELSE IF z = y /\ b = d THEN x
                        ELSE IF z = q /\ b = e THEN y ELSE t[z][b]
  BY TurnFields
<1>2. v = [sub EXCEPT ![y] = sub[x], ![x] = {x} \union sub[t[x][d]] \union sub[c]]
  BY DEF TurnSub
<1> HIDE DEF y, c, q, e, u, v
<1>3. Good(N) /\ Typed(t, N) /\ Links(t, N) /\ Subtrees(t, N, sub)
  BY DEF Shape
<1>4. N \subseteq Spots(N) /\ RootNode \in Spots(N) /\ NilNode \in Spots(N)
      /\ RootNode \notin N /\ NilNode \notin N /\ RootNode # NilNode
  BY <1>3 DEF Spots, Good, RootNode, NilNode
<1>5. Typed(u, N)
  BY <1>1, <1>3, <1>4 DEF Typed, Dirs, Left, Right, Red, Parent
<1>6. Links(u, N)
  <2>1. \A z \in N, b \in Dirs : t[z][b] # NilNode =>
           /\ t[z][b] \in N /\ t[t[z][b]][Parent] = z /\ t[z][b] # t[z][Opposite(b)]
    BY Below
  <2>2. q \in N => t[q][Opposite(e)] # x
    BY Above DEF q, e
  <2>3. /\ t[x][Parent] = q /\ t[x][Opposite(d)] = y /\ t[y][d] = c
        /\ q = RootNode => e = Left
    BY Above DEF q, y, c, e
  <2> USE DEF Dirs, Left, Right, Opposite
  <2>4. ASSUME NEW z \in N, NEW b \in Dirs, u[z][b] # NilNode
        PROVE  u[u[z][b]][Parent] = z
    <3>1. CASE z = x /\ b = Opposite(d)
      BY <3>1, <2>4, <1>1, <1>4
    <3>2. CASE z = y /\ b = d
      BY <3>2, <1>1, <1>4
    <3>3. CASE z = q /\ b = e
      BY <3>3, <1>1, <1>4
    <3>4. CASE ~(z = x /\ b = Opposite(d)) /\ ~(z = y /\ b = d) /\ ~(z = q /\ b = e)
      <4> DEFINE w == t[z][b]
      <4>1. u[z][b] = w
        BY <3>4, <1>1, <1>4
      <4>2. w \in N /\ t[w][Parent] = z /\ w # t[z][Opposite(b)]
        BY <4>1, <2>1, <2>4
      <4>3. w # x
        BY <4>2, <3>4, <2>2, <2>3, <1>1
      <4>4. w # y
        BY <4>2, <3>4, <2>3, <1>1
      <4>5. w # c
        BY <4>2, <3>4, <2>1, <2>3, <1>1, <1>4
      <4> HIDE DEF w
      <4> QED
        BY <4>1, <4>2, <4>3, <4>4, <4>5, <1>1
    <3> QED
      BY <3>1, <3>2, <3>3, <3>4
  <2>5. u[RootNode][Left] # NilNode => u[u[RootNode][Left]][Parent] = RootNode
    <3>1. t[RootNode][Left] # NilNode => /\ t[RootNode][Left] \in N
                                         /\ t[t[RootNode][Left]][Parent] = RootNode
      BY <1>3 DEF Links, Typed
    <3>2. CASE q = RootNode
      BY <3>2, <2>3, <1>1, <1>4
    <3>3. CASE q # RootNode
      <4>1. u[RootNode][Left] = t[RootNode][Left]
        BY <3>3, <1>1, <1>4
      <4>2. c # NilNode => t[c][Parent] = y
        BY <2>1, <2>3, <1>1
      <4> QED
        BY <3>1, <3>3, <4>1, <4>2, <2>3, <1>1, <1>4
    <3> QED
      BY <3>2, <3>3
  <2>6. ASSUME NEW z \in N
        PROVE  \/ u[z][Parent] = RootNode /\ u[RootNode][Left] = z
               \/ u[z][Parent] \in N /\ \E b \in Dirs : u[u[z][Parent]][b] = z
    <3>1. CASE z = x
      BY <3>1, <1>1, <1>4
    <3>2. CASE z = y
      BY <3>2, <1>1, <1>4, <2>3
    <3>3. CASE z = c
      BY <3>3, <1>1, <1>4
    <3>4. CASE z \notin {x, y, c}
      <4>1. u[z][Parent] = t[z][Parent]
        BY <3>4, <1>1
      <4>2. \/ t[z][Parent] = RootNode /\ t[RootNode][Left] = z
            \/ t[z][Parent] \in N /\ \E b \in Dirs : t[t[z][Parent]][b] = z
        BY <1>3 DEF Links
      <4>3. CASE t[z][Parent] = RootNode /\ t[RootNode][Left] = z
        BY <3>4, <4>1, <4>3, <1>1, <1>4
      <4>4. ASSUME t[z][Parent] \in N, NEW b \in Dirs, t[t[z][Parent]][b] = z
            PROVE  u[z][Parent] \in N /\ u[u[z][Parent]][b] = z
        BY <3>4, <4>1, <4>4, <1>1, <1>4, <2>3
      <4> QED
        BY <4>2, <4>3, <4>4
    <3> QED
      BY <3>1, <3>2, <3>3, <3>4
  <2> QED
    BY <2>4, <2>5, <2>6 DEF Links
<1>7. Subtrees(u, N, v)
  <2>1. /\ sub \in [N \union {NilNode} -> SUBSET N] /\ sub[NilNode] = {}
        /\ sub[t[RootNode][Left]] = N
    BY <1>3 DEF Subtrees
  <2>2. ASSUME NEW z \in N, NEW b \in Dirs
        PROVE  /\ sub[z] = {z} \union sub[t[z][b]] \union sub[t[z][Opposite(b)]]
               /\ z \notin sub[t[z][b]] /\ z \notin sub[t[z][Opposite(b)]]
               /\ sub[t[z][b]] \intersect sub[t[z][Opposite(b)]] = {}
    BY <1>3 DEF Subtrees, Dirs, Left, Right, Opposite
  <2>3. /\ t[x][Parent] = q /\ t[x][Opposite(d)] = y /\ t[y][d] = c
        /\ q = RootNode => e = Left
    BY Above DEF q, y, c, e
  <2>4. /\ v \in [N \union {NilNode} -> SUBSET N]
        /\ v[y] = sub[x] /\ v[x] = {x} \union sub[t[x][d]] \union sub[c]
        /\ \A z \in N \union {NilNode} : z \notin {x, y} => v[z] = sub[z]
    <3>1. t[x][d] \in N \union {NilNode}
      BY <1>3 DEF Typed
    <3> QED
      BY <3>1, <2>1, <1>1, <1>2
  <2>5. v[u[RootNode][Left]] = N
    <3>1. CASE q = RootNode
      BY <3>1, <2>1, <2>3, <2>4, <1>1, <1>4
    <3>2. CASE q # RootNode
      <4>1. u[RootNode][Left] = t[RootNode][Left]
        BY <3>2, <1>1, <1>4 DEF Dirs
      <4>2. t[RootNode][Left] \in N \union {NilNode}
        BY <1>3 DEF Typed
      <4>3. t[RootNode][Left] # x /\ t[RootNode][Left] # y
        BY <3>2, <2>3, <1>1, <1>3, <1>4 DEF Links
      <4> QED
        BY <4>1, <4>2, <4>3, <2>1, <2>4
    <3> QED
      BY <3>1, <3>2
  <2>6. /\ \A z \in N, b \in Dirs : t[z][b] # NilNode => t[t[z][b]][Parent] = z
        /\ q \in N => t[q][Opposite(e)] # x
        /\ Opposite(d) \in Dirs /\ Opposite(e) \in Dirs
        /\ \A b \in Dirs : Opposite(b) # b /\ Opposite(Opposite(b)) = b /\ Opposite(b) \in Dirs
        /\ \A z \in N, b \in Dirs : t[z][b] \in N \union {NilNode}
    <3>1. \A b \in Dirs : Opposite(b) # b /\ Opposite(Opposite(b)) = b /\ Opposite(b) \in Dirs
      BY DEF Dirs, Opposite, Left, Right
    <3> QED
      BY <3>1, <1>1, <1>3, Above DEF q, e, Links, Typed
  <2>7. ASSUME NEW z \in N
        PROVE  \E b \in Dirs : 
                 /\ v[z] = {z} \union v[u[z][b]] \union v[u[z][Opposite(b)]]
                 /\ z \notin v[u[z][b]] /\ z \notin v[u[z][Opposite(b)]]
                 /\ v[u[z][b]] \intersect v[u[z][Opposite(b)]] = {}
    <3> DEFINE r == t[x][d]
               s == t[y][Opposite(d)]
    <3>1. /\ r \in N \union {NilNode} /\ r # x /\ r # y
          /\ s \in N \union {NilNode} /\ s # x /\ s # y
      BY <2>3, <2>6, <1>1, <1>4, Below
    <3>2. /\ sub[x] = {x} \union sub[r] \union sub[y] /\ sub[y] = {y} \union sub[c] \union sub[s]
          /\ x \notin sub[r] /\ x \notin sub[y] /\ y \notin sub[c] /\ y \notin sub[s]
          /\ sub[r] \intersect sub[y] = {} /\ sub[c] \intersect sub[s] = {}
      BY <2>2, <2>3, <1>1
    <3>3. CASE z = x
      <4>1. u[x][d] = r /\ u[x][Opposite(d)] = c
        BY <1>1, <1>4, <2>6
      <4>2. v[r] = sub[r] /\ v[c] = sub[c]
        BY <2>4, <3>1, <1>1
      <4> QED
        BY <3>2, <3>3, <4>1, <4>2, <2>4
    <3>4. CASE z = y
      <4>1. u[y][d] = x /\ u[y][Opposite(d)] = s
        BY <1>1, <1>4, <2>6
      <4>2. v[s] = sub[s] /\ v[x] = {x} \union sub[r] \union sub[c] /\ v[y] = sub[x]
        BY <2>4, <3>1
      <4>3. y \in sub[y]
        BY <3>2
      <4> QED
        BY <3>2, <3>4, <4>1, <4>2, <4>3, <1>1
    <3>5. CASE z = q
      <4> DEFINE w == t[q][Opposite(e)]
      <4>1. u[q][e] = y /\ u[q][Opposite(e)] = w
        BY <3>5, <1>1, <1>4, <2>6
      <4>2. w # x /\ w # y /\ w \in N \union {NilNode}
        BY <3>5, <1>1, <1>4, <2>6
      <4>3. v[w] = sub[w] /\ v[y] = sub[x] /\ v[q] = sub[q]
        BY <3>5, <4>2, <1>1, <2>4
      <4>4. /\ sub[q] = {q} \union sub[x] \union sub[w] /\ q \notin sub[x] /\ q \notin sub[w]
            /\ sub[x] \intersect sub[w] = {}
        BY <3>5, <2>2, <1>1
      <4> HIDE DEF w
      <4> QED
        BY <3>5, <4>1, <4>3, <4>4, <1>1
    <3>6. CASE z \notin {x, y, q}
      <4>1. u[z][Left] = t[z][Left] /\ u[z][Right] = t[z][Right]
        BY <3>6, <1>1, <1>4 DEF Dirs
      <4>2. \A b \in Dirs : t[z][b] \notin {x, y}
        BY <3>6, <2>3, <2>6, <1>1, <1>4
      <4>3. v[z] = sub[z] /\ v[t[z][Left]] = sub[t[z][Left]] /\ v[t[z][Right]] = sub[t[z][Right]]
        BY <3>6, <4>2, <2>4, <2>6 DEF Dirs
      <4>4. Left \in Dirs /\ Opposite(Left) = Right
        BY DEF Dirs, Left, Right, Opposite
      <4> QED
        BY <4>1, <4>3, <4>4, <2>2
    <3> QED
      BY <3>3, <3>4, <3>5, <3>6
  <2>8. ASSUME NEW z \in N
        PROVE  /\ v[z] = {z} \union v[u[z][Left]] \union v[u[z][Right]]
               /\ z \notin v[u[z][Left]] /\ z \notin v[u[z][Right]]
               /\ v[u[z][Left]] \intersect v[u[z][Right]] = {}
    <3>1. PICK b \in Dirs :
                 /\ v[z] = {z} \union v[u[z][b]] \union v[u[z][Opposite(b)]]
                 /\ z \notin v[u[z][b]] /\ z \notin v[u[z][Opposite(b)]]
                 /\ v[u[z][b]] \intersect v[u[z][Opposite(b)]] = {}
      BY <2>7
    <3>2. (b = Left /\ Opposite(b) = Right) \/ (b = Right /\ Opposite(b) = Left)
      BY DEF Dirs, Left, Right, Opposite
    <3>3. CASE b = Left /\ Opposite(b) = Right
      BY <3>1, <3>3
    <3>4. CASE b = Right /\ Opposite(b) = Left
      BY <3>1, <3>4
    <3> QED
      BY <3>2, <3>3, <3>4
  <2>9. v[NilNode] = {}
    BY <2>1, <2>4, <1>1, <1>4
  <2> QED
    BY <2>4, <2>5, <2>8, <2>9 DEF Subtrees
<1> QED
  BY <1>1, <1>3, <1>5, <1>6, <1>7 DEF Shape, u, v

LEMMA TurnOrder ==
  ASSUME NEW N, NEW t, NEW sub, NEW K, Shape(t, N, sub), Ordered(t, N, sub, K),
         NEW x \in N, NEW d \in Dirs, t[x][Opposite(d)] # NilNode
  PROVE  Ordered(Turn(t, x, d), N, TurnSub(t, sub, x, d), K)
<1> DEFINE y == t[x][Opposite(d)]
           c == t[y][d]
           q == t[x][Parent]
           e == Side(t, x)
           u == Turn(t, x, d)
           v == TurnSub(t, sub, x, d)
           r == t[x][d]
<1>1. /\ y \in N /\ y # x /\ c \in N \union {NilNode} /\ c # x /\ c # y
      /\ q \in N \union {RootNode} /\ q # x /\ q # y /\ t[q][e] = x
      /\ t[y][Parent] = x /\ t[x][Parent] = q /\ t[x][Opposite(d)] = y /\ t[y][d] = c
      /\ \A z \in Spots(N), b \in Dirs :
              u[z][b] = IF z = x /\ b = Opposite(d) THEN c ELSE IF z = y /\ b = d THEN x
                        ELSE IF z = q /\ b = e THEN y ELSE t[z][b]
  BY TurnFields
<1>2. v = [sub EXCEPT ![y] = sub[x], ![x] = {x} \union sub[r] \union sub[c]]
  BY DEF TurnSub
<1>3. t[x][d] = r /\ t[x][Opposite(d)] = y /\ (q \in N => t[q][Opposite(e)] # x)
  BY Above
<1> HIDE DEF y, c, q, e, u, v, r
<1>4. /\ Good(N) /\ sub \in [N \union {NilNode} -> SUBSET N] /\ sub[NilNode] = {}
      /\ \A z \in N, b \in Dirs : t[z][b] \in N \union {NilNode}
      /\ N \subseteq Spots(N)
  BY DEF Shape, Typed, Subtrees, Spots
<1>5. \A b \in Dirs : Opposite(b) # b /\ Opposite(Opposite(b)) = b /\ Opposite(b) \in Dirs
  BY DEF Dirs, Opposite, Left, Right
<1>6. /\ v[y] = sub[x] /\ v[x] = {x} \union sub[r] \union sub[c]
      /\ \A z \in N \union {NilNode} : z \notin {x, y} => v[z] = sub[z]
  BY <1>1, <1>2, <1>3, <1>4
<1>7. K \in [N -> Int] /\ \A z \in N, b \in Dirs : \A a \in sub[t[z][b]] : Beside(K, b, a, z)
  BY DEF Ordered
<1>8. /\ \A z \in N, b \in Dirs : t[z][b] # NilNode => t[t[z][b]][Parent] = z /\ t[z][b] # t[z][Opposite(b)]
      /\ \A z \in N : z \in sub[z] /\ sub[z] \subseteq N
      /\ \A z \in N, b \in Dirs : sub[t[z][b]] \subseteq N
      /\ sub[c] \subseteq sub[y]
  <2>1. c # NilNode => sub[c] \subseteq sub[y]
    BY <1>1, Below
  <2> QED
    BY <1>4, <2>1, Below
<1>9. ASSUME NEW z \in N, NEW b \in Dirs, NEW a \in v[u[z][b]]
      PROVE  Beside(K, b, a, z)
  <2>1. CASE z = x /\ b = Opposite(d)
    <3>1. v[u[z][b]] = sub[c]
      BY <2>1, <1>1, <1>4, <1>6
    <3> QED
      BY <2>1, <3>1, <1>9, <1>7, <1>8, <1>3
  <2>2. CASE z = y /\ b = d
    <3>1. v[u[z][b]] = {x} \union sub[r] \union sub[c]
      BY <2>2, <1>1, <1>4, <1>5, <1>6
    <3>2. Beside(K, d, x, y)
      <4>1. Beside(K, Opposite(d), y, x)
        BY <1>1, <1>5, <1>7, <1>8
      <4> QED
        BY <4>1, <1>1, <1>7 DEF Beside, Dirs, Left, Right, Opposite
    <3>3. CASE a \in sub[r]
      <4>1. Beside(K, d, a, x) /\ a \in N
        BY <3>3, <1>3, <1>7, <1>8
      <4> QED
        BY <2>2, <3>2, <4>1, <1>1, <1>7 DEF Beside
    <3>4. CASE a \in sub[c]
      BY <3>4, <2>2, <1>1, <1>7
    <3> QED
      BY <1>9, <2>2, <3>1, <3>2, <3>3, <3>4
  <2>3. CASE z = q /\ b = e
    <3>1. v[u[z][b]] = sub[x]
      BY <2>3, <1>1, <1>4, <1>6
    <3> QED
      BY <2>3, <3>1, <1>1, <1>7, <1>9
  <2>4. CASE ~(z = x /\ b = Opposite(d)) /\ ~(z = y /\ b = d) /\ ~(z = q /\ b = e)
    <3>1. u[z][b] = t[z][b]
      BY <2>4, <1>1, <1>4
    <3>2. t[z][b] # y
      <4>1. t[z][b] = y => z = x
        BY <1>1, <1>4, <1>8 DEF Good
      <4>2. b # Opposite(d) => b = d
        BY DEF Dirs, Left, Right, Opposite
      <4>3. t[x][d] # y
        BY <1>1, <1>4, <1>5, <1>8 DEF Good
      <4> QED
        BY <2>4, <4>1, <4>2, <4>3
    <3>3. t[z][b] # x
      <4>1. t[z][b] = x => z = q
        BY <1>1, <1>4, <1>8 DEF Good
      <4>2. z = q /\ b # e => b = Opposite(e)
        BY Above DEF q, e, Dirs, Left, Right, Opposite
      <4> QED
        BY <2>4, <4>1, <4>2, <1>3
    <3>4. v[u[z][b]] = sub[t[z][b]]
      BY <3>1, <3>2, <3>3, <1>4, <1>6
    <3> QED
      BY <3>4, <1>7, <1>9
  <2> QED
    BY <2>1, <2>2, <2>3, <2>4
<1> QED
  BY <1>7, <1>9 DEF Ordered, u, v

------------------------------------------------------------------------------
\* Nodes in a memory whose words are D do not overlap, and View reads them.
IsMemory(m) == m = [a \in DOMAIN m |-> m[a]]
Room(D, N) == /\ D \subseteq Int /\ N \subseteq Int /\ Good(N)
              /\ \A x \in Spots(N), f \in 0 .. Parent : x + f \in D
              /\ \A x, y \in Spots(N) : x < y => x + NodeWords <= y
View(m, N) == [x \in Spots(N) |-> [f \in Fields |-> m[x + f]]]

\* Only fields of nodes differ.
Same(m, n, N) ==
  /\ IsMemory(n) /\ DOMAIN n = DOMAIN m
  /\ \A a \in DOMAIN m : (\A x \in Spots(N), f \in Fields : a # x + f) => n[a] = m[a]
  /\ \A a \in DOMAIN m : n[a] = m[a] \/ n[a] \in Int
Poke(m, a, v) == [m EXCEPT ![a] = v]

LEMMA Poked ==
  ASSUME NEW N, NEW m, IsMemory(m), Room(DOMAIN m, N), NEW x \in Spots(N), NEW f \in Fields, NEW v \in Int
  PROVE  /\ Same(m, Poke(m, x + f, v), N)
         /\ View(Poke(m, x + f, v), N) = Put(View(m, N), x, f, v)
<1>1. x + f \in DOMAIN m
  BY DEF Room, Fields, Red, Parent
<1>2. ASSUME NEW y \in Spots(N), NEW g \in Fields
      PROVE  /\ y + g \in DOMAIN m
             /\ x + f = y + g => y = x /\ g = f
  BY DEF Room, Fields, Red, Parent, NodeWords, Spots, NilNode, RootNode
<1>3. Same(m, Poke(m, x + f, v), N)
  BY <1>1 DEF Same, Poke, IsMemory
<1>4. ASSUME NEW y \in Spots(N), NEW g \in Fields
      PROVE  Poke(m, x + f, v)[y + g] = IF y = x /\ g = f THEN v ELSE m[y + g]
  BY <1>1, <1>2 DEF Poke
<1>5. View(Poke(m, x + f, v), N)
        = [y \in Spots(N) |-> [g \in Fields |-> IF y = x /\ g = f THEN v ELSE m[y + g]]]
  BY <1>4 DEF View
<1>6. Put(View(m, N), x, f, v)
        = [y \in Spots(N) |-> [g \in Fields |-> IF y = x /\ g = f THEN v ELSE m[y + g]]]
  BY DEF View, Put
<1> QED
  BY <1>3, <1>5, <1>6

LEMMA Viewed ==
  ASSUME NEW N, NEW m
  PROVE  /\ IsMap(View(m, N), N)
         /\ \A x \in Spots(N), f \in Fields : View(m, N)[x][f] = m[x + f]
BY DEF View, IsMap

LEMMA SameStill ==
  ASSUME NEW N, NEW l, NEW m, NEW n, Same(l, m, N), Same(m, n, N)
  PROVE  Same(l, n, N)
BY DEF Same

\* m has come from l by writes to nodes, and its nodes are those of t.
Now(l, m, N, t) == IsMemory(l) /\ Room(DOMAIN l, N) /\ Same(l, m, N) /\ View(m, N) = t

LEMMA PokeNow ==
  ASSUME NEW N, NEW l, NEW m, NEW t, Now(l, m, N, t),
         NEW x \in Spots(N), NEW f \in Fields, NEW v \in Int
  PROVE  Now(l, Poke(m, x + f, v), N, Put(t, x, f, v))
<1>1. IsMemory(m) /\ Room(DOMAIN m, N) /\ Same(l, m, N)
  BY DEF Same, Now
<1>2. Same(m, Poke(m, x + f, v), N) /\ View(Poke(m, x + f, v), N) = Put(View(m, N), x, f, v)
  BY <1>1, Poked
<1> QED
  BY <1>1, <1>2, SameStill DEF Now

LEMMA ReadNow ==
  ASSUME NEW N, NEW l, NEW m, NEW t, Now(l, m, N, t)
  PROVE  IsMap(t, N) /\ \A x \in Spots(N), f \in Fields : m[x + f] = t[x][f]
BY Viewed DEF Now

LEMMA rotateTurns ==
  ASSUME NEW N, NEW l, NEW m, NEW t, NEW sub, Now(l, m, N, t), Shape(t, N, sub),
         NEW x \in N, NEW d \in Dirs, t[x][Opposite(d)] # NilNode
  PROVE  Now(l, rotate(m, x, d), N, Turn(t, x, d))
<1> DEFINE y == t[x][Opposite(d)]
           c == t[y][d]
           q == t[x][Parent]
           e == Side(t, x)
           t1 == Put(t, x, Opposite(d), c)
           t2 == Put(t1, y, Parent, q)
           t3 == Put(t2, q, e, y)
           t4 == Put(t3, y, d, x)
           t5 == Put(t4, x, Parent, y)
           t6 == Put(t5, c, Parent, x)
           m1 == Poke(m, x + Opposite(d), c)
           m2 == Poke(m1, y + Parent, q)
           m3 == Poke(m2, q + e, y)
           m4 == Poke(m3, y + d, x)
           m5 == Poke(m4, x + Parent, y)
           m6 == Poke(m5, c + Parent, x)
<1>1. /\ y \in N /\ c \in N \union {NilNode} /\ q \in N \union {RootNode} /\ e \in Dirs
  BY TurnFields
<1>2. {x, y, c, q, NilNode, RootNode} \subseteq Spots(N)
  BY <1>1 DEF Spots
<1>0. {x, y, c, q} \subseteq Int
  <2>1. N \subseteq Int
    BY DEF Now, Room
  <2>2. NilNode \in Int /\ RootNode \in Int
    BY DEF NilNode, RootNode
  <2> HIDE DEF y, c, q, e, t1, t2, t3, t4, t5, t6, m1, m2, m3, m4, m5, m6
  <2> QED
    BY <1>1, <2>1, <2>2
<1>3. {d, Opposite(d), e, Left, Right, Parent} \subseteq Fields
  BY <1>1 DEF Fields, Dirs, Left, Right, Opposite, Red, Parent
<1>4. Turn(t, x, d) = IF c = NilNode THEN t5 ELSE t6
  BY DEF Turn, TurnAt
<1>5. m[x + Opposite(d)] = y /\ m[x + Parent] = q
  BY <1>2, <1>3, ReadNow
<1>6. m[y + d] = c /\ m[q + Left] = t[q][Left]
  BY <1>2, <1>3, ReadNow
<1>7. SideOf(m, x) = e
  BY <1>5, <1>6 DEF SideOf, Side
<1>8. rotate(m, x, d) = IF c = NilNode THEN m5 ELSE m6
  BY <1>5, <1>6, <1>7 DEF rotate, Poke
<1> HIDE DEF y, c, q, e, t1, t2, t3, t4, t5, t6, m1, m2, m3, m4, m5, m6
<1>9. Now(l, m1, N, t1)
  BY <1>0, <1>2, <1>3, PokeNow DEF m1, t1
<1>10. Now(l, m2, N, t2)
  BY <1>0, <1>2, <1>3, <1>9, PokeNow DEF m2, t2
<1>11. Now(l, m3, N, t3)
  BY <1>0, <1>2, <1>3, <1>10, PokeNow DEF m3, t3
<1>12. Now(l, m4, N, t4)
  BY <1>0, <1>2, <1>3, <1>11, PokeNow DEF m4, t4
<1>13. Now(l, m5, N, t5)
  BY <1>0, <1>2, <1>3, <1>12, PokeNow DEF m5, t5
<1>14. Now(l, m6, N, t6)
  BY <1>0, <1>2, <1>3, <1>13, PokeNow DEF m6, t6
<1> QED
  BY <1>4, <1>8, <1>13, <1>14

------------------------------------------------------------------------------
\* A set of numbers that has 0 and with each number the next has all.
LEMMA Induction ==
  ASSUME NEW P \in SUBSET Nat, 0 \in P, \A n \in P : n + 1 \in P
  PROVE  P = Nat
<1> DEFINE R == OpToRel(<, Nat)
           S == Nat \ P
<1>1. CASE S = {}
  BY <1>1
<1>2. CASE S # {}
  <2>1. PICK m \in S : \A k \in S : ~(<<k, m>> \in R)
    BY <1>2, NatLessThanWellFounded, WFMin
  <2>2. \A k, l \in Nat : k < l => <<k, l>> \in R
    BY DEF OpToRel
  <2> HIDE DEF R
  <2>3. m \in Nat /\ m # 0 /\ m - 1 \in Nat /\ m - 1 < m
    OBVIOUS
  <2>4. m - 1 \in P
    BY <2>1, <2>2, <2>3
  <2>5. (m - 1) + 1 \in P /\ (m - 1) + 1 = m
    BY <2>3, <2>4
  <2> QED
    BY <2>5
<1> QED
  BY <1>1, <1>2

\* Rounds of a loop: G is a round, T where it goes on, r what grows as long as it does.
Steady(X, T, G, r) ==
  /\ G \in [X -> X] /\ r \in [X -> Int]
  /\ \A x \in X : x \notin T => G[x] = x
  /\ \A x \in X : x \in T /\ G[x] \in T => r[G[x]] >= r[x] + 1
Rounded(f, X, T, G, r, s, n) ==
  /\ f \in [0 .. n -> X]
  /\ f[0] = s /\ \A k \in 0 .. n : k # 0 => f[k] = G[f[k - 1]]
  /\ \A k \in 0 .. n : f[k] \notin T \/ r[f[k]] >= r[s] + k
LEMMA LoopsTo ==
  ASSUME NEW X, NEW T, NEW G, NEW r, Steady(X, T, G, r), NEW s \in X, NEW n \in Nat
  PROVE  \E f : Rounded(f, X, T, G, r, s, n)
<1>0. /\ G \in [X -> X] /\ r \in [X -> Int]
      /\ \A x \in X : x \notin T => G[x] = x
      /\ \A x \in X : x \in T /\ G[x] \in T => r[G[x]] >= r[x] + 1
  BY DEF Steady
<1> DEFINE F(f, k) == /\ f \in [0 .. k -> X]
                      /\ f[0] = s /\ \A i \in 0 .. k : i # 0 => f[i] = G[f[i - 1]]
                      /\ \A i \in 0 .. k : f[i] \notin T \/ r[f[i]] >= r[s] + i
           P == {k \in Nat : \E f : F(f, k)}
<1>1. 0 \in P
  <2> DEFINE f == [i \in 0 .. 0 |-> s]
  <2>1. F(f, 0)
    BY <1>0
  <2> QED
    BY <2>1, Zenon
<1>2. ASSUME NEW k \in P PROVE k + 1 \in P
  <2>1. PICK f : F(f, k)
    OBVIOUS
  <2> DEFINE g == [i \in 0 .. k + 1 |-> IF i = k + 1 THEN G[f[k]] ELSE f[i]]
  <2>2. k \in Nat /\ k \in 0 .. k /\ f[k] \in X
    BY <2>1
  <2>3. g[k + 1] = G[f[k]] /\ \A i \in 0 .. k : g[i] = f[i] /\ i # k + 1
    BY <2>2
  <2>4. g \in [0 .. k + 1 -> X]
    BY <2>1, <2>2, <1>0
  <2>5. \A i \in 0 .. k + 1 : i \in 0 .. k \/ i = k + 1
    BY <2>2
  <2> HIDE DEF g
  <2>6. g[0] = s /\ \A i \in 0 .. k + 1 : i # 0 => g[i] = G[g[i - 1]]
    <3>1. ASSUME NEW i \in 0 .. k, i # 0 PROVE g[i] = G[g[i - 1]]
      <4>1. i - 1 \in 0 .. k
        BY <3>1
      <4> QED
        BY <3>1, <4>1, <2>1, <2>3
    <3>2. g[k + 1] = G[g[(k + 1) - 1]]
      BY <2>2, <2>3
    <3> QED
      BY <2>1, <2>2, <2>3, <2>5, <3>1, <3>2
  <2>7. G[f[k]] \notin T \/ r[G[f[k]]] >= r[s] + (k + 1)
    <3>1. f[k] \notin T \/ r[f[k]] >= r[s] + k
      BY <2>1, <2>2
    <3>2. r[f[k]] \in Int /\ r[G[f[k]]] \in Int /\ r[s] \in Int
      BY <2>2, <1>0
    <3>3. CASE f[k] \notin T
      BY <3>3, <2>2, <1>0
    <3>4. CASE f[k] \in T /\ G[f[k]] \in T
      <4>1. r[G[f[k]]] >= r[f[k]] + 1
        BY <3>4, <2>2, <1>0
      <4> QED
        BY <3>1, <3>2, <3>4, <4>1, <2>2
    <3> QED
      BY <3>3, <3>4
  <2>8. \A i \in 0 .. k + 1 : g[i] \notin T \/ r[g[i]] >= r[s] + i
    BY <2>1, <2>3, <2>5, <2>7
  <2>9. F(g, k + 1)
    BY <2>4, <2>6, <2>8
  <2> HIDE DEF F
  <2> QED
    BY <2>9, <2>2
<1>3. P = Nat
  <2>1. P \in SUBSET Nat
    OBVIOUS
  <2> HIDE DEF P
  <2> QED
    BY <1>1, <1>2, <2>1, Induction
<1>4. PICK f : F(f, n)
  BY <1>3
<1>5. Rounded(f, X, T, G, r, s, n)
  BY <1>4 DEF Rounded
<1> QED
  BY <1>5

\* Functions that begin alike and go on alike.
LEMMA Alike ==
  ASSUME NEW n \in Nat, NEW f, NEW g, f[0] = g[0],
         \A k \in 0 .. n : k # 0 /\ f[k - 1] = g[k - 1] => f[k] = g[k]
  PROVE  f[n] = g[n]
<1> DEFINE P == {k \in Nat : k <= n => f[k] = g[k]}
<1>1. 0 \in P
  OBVIOUS
<1>2. ASSUME NEW k \in P PROVE k + 1 \in P
  <2>1. CASE k + 1 <= n
    <3>1. k + 1 \in 0 .. n /\ k + 1 # 0 /\ (k + 1) - 1 = k /\ f[k] = g[k]
      BY <2>1
    <3> QED
      BY <3>1
  <2> QED
    BY <2>1
<1>3. P = Nat
  <2>1. P \in SUBSET Nat
    OBVIOUS
  <2> HIDE DEF P
  <2> QED
    BY <1>1, <1>2, <2>1, Induction
<1> QED
  BY <1>3

------------------------------------------------------------------------------
\* h is the number of black nodes on each way down; one is missing on side D of P.
Gap(P, D, z, d) == IF z = P /\ d = D THEN 1 ELSE 0
Level(t, N, h, P, D) ==
  /\ h \in [N \union {NilNode} -> Nat] /\ h[NilNode] = 0
  /\ \A z \in N, d \in Dirs : h[z] = h[t[z][d]] + 1 - t[z][Red] + Gap(P, D, z, d)

\* No red node has a red child, but x may have a red parent.
Calm(t, N, x) ==
  \A z \in N, d \in Dirs : t[z][Red] = 1 /\ t[z][d] # x => t[t[z][d]][Red] = 0
Rooted(t, x) == t[RootNode][Left] = x \/ t[t[RootNode][Left]][Red] = 0

InsInv(t, N, sub, h, K, x) ==
  /\ Shape(t, N, sub) /\ Ordered(t, N, sub, K) /\ Level(t, N, h, NilNode, Left)
  /\ Calm(t, N, x) /\ Rooted(t, x) /\ x \in N /\ t[x][Red] = 1

Colours == {0, 1}
LEMMA Recolour ==
  ASSUME NEW N, NEW t, NEW sub, NEW K, Shape(t, N, sub), Ordered(t, N, sub, K),
         NEW x \in N, NEW v \in Colours
  PROVE  /\ Shape(Put(t, x, Red, v), N, sub) /\ Ordered(Put(t, x, Red, v), N, sub, K)
         /\ \A z \in Spots(N), d \in Dirs : Put(t, x, Red, v)[z][d] = t[z][d]
         /\ \A z \in Spots(N) : Put(t, x, Red, v)[z][Parent] = t[z][Parent]
         /\ \A z \in Spots(N) : Put(t, x, Red, v)[z][Red] = IF z = x THEN v ELSE t[z][Red]
<1> DEFINE u == Put(t, x, Red, v)
<1>1. x \in Spots(N) /\ Red \in Fields /\ IsMap(t, N) /\ Parent \in Fields /\ Dirs \subseteq Fields
      /\ Red \notin Dirs /\ Red # Parent
  BY DEF Spots, Fields, Shape, Red, Parent, Dirs, Left, Right
<1>2. IsMap(u, N) /\ \A z \in Spots(N), g \in Fields : u[z][g] = IF z = x /\ g = Red THEN v ELSE t[z][g]
  BY <1>1, PutFields
<1> HIDE DEF u
<1>3. /\ \A z \in Spots(N), d \in Dirs : u[z][d] = t[z][d]
      /\ \A z \in Spots(N) : u[z][Parent] = t[z][Parent]
      /\ \A z \in Spots(N) : u[z][Red] = IF z = x THEN v ELSE t[z][Red]
  BY <1>1, <1>2
<1>4. /\ N \subseteq Spots(N) /\ NilNode \in Spots(N) /\ RootNode \in Spots(N)
      /\ x # NilNode /\ x # RootNode /\ Left \in Dirs /\ Right \in Dirs
  BY DEF Spots, Shape, Good, Dirs
<1>5. Typed(u, N)
  BY <1>3, <1>4 DEF Typed, Shape, Colours
<1>6. Links(u, N)
  <2>1. Links(t, N) /\ Typed(t, N)
    BY DEF Shape
  <2>2. \A z \in N, d \in Dirs : t[z][d] \in Spots(N) /\ t[z][Parent] \in Spots(N)
    BY <2>1 DEF Typed, Spots
  <2>3. t[RootNode][Left] \in Spots(N)
    BY <2>1 DEF Typed, Spots
  <2> QED
    BY <1>3, <1>4, <2>1, <2>2, <2>3 DEF Links
<1>7. Subtrees(u, N, sub)
  <2>1. Subtrees(t, N, sub)
    BY DEF Shape
  <2>2. u[RootNode][Left] = t[RootNode][Left]
    BY <1>3, <1>4
  <2>3. \A z \in N : u[z][Left] = t[z][Left] /\ u[z][Right] = t[z][Right]
    BY <1>3, <1>4
  <2> QED
    BY <2>1, <2>2, <2>3 DEF Subtrees
<1>8. Ordered(u, N, sub, K)
  BY <1>3, <1>4 DEF Ordered
<1> QED
  BY <1>2, <1>3, <1>5, <1>6, <1>7, <1>8 DEF Shape, u

TCrown(t, top, g, d) == Turn(Put(Put(t, top, Red, 0), g, Red, 1), g, Opposite(d))

LEMMA Opposites ==
  /\ \A d \in Dirs : Opposite(d) \in Dirs /\ Opposite(d) # d /\ Opposite(Opposite(d)) = d
  /\ \A d, b \in Dirs : b = d \/ b = Opposite(d)
  /\ Left \in Dirs /\ Right \in Dirs /\ Opposite(Left) = Right
BY DEF Dirs, Opposite, Left, Right

\* The links and colours of u are those of t but for g, its child top on side d, and the
\* parent of g.
CrownOf(t, u, N, g, d, top) ==
  /\ u[g][d] = t[top][Opposite(d)] /\ u[g][Opposite(d)] = t[g][Opposite(d)]
  /\ u[top][d] = t[top][d] /\ u[top][Opposite(d)] = g
  /\ \A z \in N, f \in Dirs : z \notin {g, top} =>
       u[z][f] = IF z = t[g][Parent] /\ f = Side(t, g) THEN top ELSE t[z][f]
  /\ u[RootNode][Left] = IF t[RootNode][Left] = g THEN top ELSE t[RootNode][Left]
  /\ u[g][Parent] = top /\ u[top][Parent] = t[g][Parent]
  /\ \A z \in N : z \notin {g, top, t[top][Opposite(d)]} => u[z][Parent] = t[z][Parent]
  /\ \A z \in Spots(N) : u[z][Red] = IF z = g THEN 1 ELSE IF z = top THEN 0 ELSE t[z][Red]

LEMMA Crowned ==
  ASSUME NEW N, NEW t, NEW sub, NEW h, NEW K, NEW P, NEW D,
         Shape(t, N, sub), Ordered(t, N, sub, K), Level(t, N, h, P, D),
         NEW g \in N, NEW d \in Dirs, NEW top \in N, t[g][d] = top,
         NEW x, Calm(t, N, x), Rooted(t, x), x # g,
         t[top][Red] = 1, t[g][Red] = 0, t[t[g][Opposite(d)]][Red] = 0,
         t[t[top][Opposite(d)]][Red] = 0,
         P # top, ~(P = g /\ D = d), ~(P = t[g][Parent] /\ D = Side(t, g))
  PROVE  /\ \E sub2, h2 :
              /\ Shape(TCrown(t, top, g, d), N, sub2) /\ Ordered(TCrown(t, top, g, d), N, sub2, K)
              /\ Level(TCrown(t, top, g, d), N, h2, P, D)
              /\ Calm(TCrown(t, top, g, d), N, x) /\ Rooted(TCrown(t, top, g, d), x)
         /\ CrownOf(t, TCrown(t, top, g, d), N, g, d, top)
<1> DEFINE a == Put(t, top, Red, 0)
           b == Put(a, g, Red, 1)
           o == Opposite(d)
           c == t[top][o]
           q == t[g][Parent]
           e == Side(b, g)
           u == TCrown(t, top, g, d)
           v == TurnSub(b, sub, g, o)
           w == t[g][o]
           k == [h EXCEPT ![top] = @ + 1, ![g] = @ - 1]
<1>1. /\ Shape(a, N, sub) /\ Ordered(a, N, sub, K)
      /\ \A z \in Spots(N), f \in Dirs : a[z][f] = t[z][f]
      /\ \A z \in Spots(N) : a[z][Parent] = t[z][Parent]
      /\ \A z \in Spots(N) : a[z][Red] = IF z = top THEN 0 ELSE t[z][Red]
  <2>1. 0 \in Colours
    BY DEF Colours
  <2> HIDE DEF a, b, o, c, q, e, u, v, w, k
  <2> QED
    BY <2>1, Recolour DEF a
<1> HIDE DEF a
<1>2. /\ Shape(b, N, sub) /\ Ordered(b, N, sub, K)
      /\ \A z \in Spots(N), f \in Dirs : b[z][f] = a[z][f]
      /\ \A z \in Spots(N) : b[z][Parent] = a[z][Parent]
      /\ \A z \in Spots(N) : b[z][Red] = IF z = g THEN 1 ELSE a[z][Red]
  <2>1. 1 \in Colours
    BY DEF Colours
  <2> HIDE DEF o, c, q, e, u, v, w, k
  <2> QED
    BY <1>1, <2>1, Recolour
<1> HIDE DEF b
<1>3. /\ N \subseteq Spots(N) /\ NilNode \in Spots(N) /\ RootNode \in Spots(N)
      /\ NilNode \notin N /\ RootNode \notin N /\ RootNode # NilNode
  BY DEF Spots, Shape, Good, RootNode, NilNode
<1>4. /\ \A z \in Spots(N), f \in Dirs : b[z][f] = t[z][f]
      /\ \A z \in Spots(N) : b[z][Parent] = t[z][Parent]
      /\ \A z \in Spots(N) : b[z][Red] = IF z = g THEN 1 ELSE IF z = top THEN 0 ELSE t[z][Red]
  BY <1>1, <1>2
<1>5. o \in Dirs /\ Opposite(o) = d /\ o # d
  BY Opposites
<1>6. b[g][Opposite(o)] = top /\ b[top][o] = c /\ b[g][Parent] = q
  BY <1>3, <1>4, <1>5
<1>7. top # NilNode
  BY <1>3
<1> HIDE DEF o, c, q, e, u, v, w, k
<1>8. u = Turn(b, g, o)
  BY DEF u, o, TCrown, b, a
<1>9. /\ top # g /\ c \in N \union {NilNode} /\ c # g /\ c # top
      /\ q \in N \union {RootNode} /\ q # g /\ q # top /\ q # c /\ e \in Dirs /\ b[q][e] = g
      /\ \A z \in Spots(N) : u[z][Red] = b[z][Red]
      /\ \A z \in N : u[z][Parent] = IF z = g THEN top ELSE IF z = top THEN q
                                     ELSE IF z = c THEN g ELSE b[z][Parent]
      /\ \A z \in Spots(N), f \in Dirs :
              u[z][f] = IF z = g /\ f = d THEN c ELSE IF z = top /\ f = o THEN g
                        ELSE IF z = q /\ f = e THEN top ELSE b[z][f]
  BY <1>2, <1>5, <1>6, <1>7, <1>8, TurnFields DEF e
<1>10. Shape(u, N, v) /\ Ordered(u, N, v, K)
  BY <1>2, <1>5, <1>6, <1>7, <1>8, TurnShape, TurnOrder DEF v
<1>11. /\ w \in N \union {NilNode} /\ w # top /\ w # g
       /\ t[top][Parent] = g /\ (c # NilNode => t[c][Parent] = top) /\ (c = NilNode \/ c # t[top][d])
       /\ t[top][d] # top /\ t[top][d] # g /\ t[top][d] \in N \union {NilNode}
  <2>1. /\ \A z \in N : z \in sub[z]
        /\ \A z \in N, f \in Dirs : t[z][f] # NilNode =>
              /\ t[z][f] \in N /\ t[t[z][f]][Parent] = z /\ t[z][f] # z
              /\ z \notin sub[t[z][f]] /\ sub[t[z][f]] \subseteq sub[z]
              /\ t[z][f] # t[z][Opposite(f)]
    BY Below
  <2>2. t[top][o] = c /\ t[g][o] = w /\ Opposite(d) = o
    BY DEF o, c, w
  <2>3. t[top][d] \in N \union {NilNode} /\ w \in N \union {NilNode}
    BY <1>5, <2>2 DEF Shape, Typed
  <2>4. t[top][Parent] = g /\ (w # NilNode => t[w][Parent] = g /\ w # g)
    BY <1>3, <1>5, <2>1, <2>2
  <2>5. (c # NilNode => t[c][Parent] = top) /\ (t[top][d] # NilNode => t[top][d] # c)
    BY <1>5, <2>1, <2>2
  <2>6. w # top
    BY <1>3, <2>1, <2>2
  <2>7. t[top][d] # top /\ t[top][d] # g
    BY <1>3, <2>1, <2>3
  <2>8. c = NilNode \/ c # t[top][d]
    BY <2>5
  <2> QED
    BY <1>3, <2>2, <2>3, <2>4, <2>5, <2>6, <2>7, <2>8
<1>12. \A z \in N, f \in Dirs : z # g /\ ~(z = q /\ f = e) => t[z][f] # top /\ t[z][f] # g
  <2>1. \A z \in N, f \in Dirs : t[z][f] # NilNode => t[t[z][f]][Parent] = z
    BY Below
  <2>2. q \in N => t[q][Opposite(e)] # g
    BY <1>2, <1>3, <1>4, <1>5, <1>6, <1>9, Above, Opposites DEF e
  <2>3. t[g][Parent] = q
    BY DEF q
  <2>4. \A f \in Dirs : f # e => f = Opposite(e)
    BY <1>9, Opposites
  <2> QED
    BY <2>1, <2>2, <2>3, <2>4, <1>3, <1>11
<1>13. /\ t[top][o] = c /\ t[g][d] = top /\ t[g][o] = w /\ d \in Dirs
       /\ \A f \in Dirs : f = d \/ f = o
  BY <1>5, Opposites DEF c, w, o
<1>14. /\ u[g][d] = c /\ u[g][o] = w /\ u[top][d] = t[top][d] /\ u[top][o] = g
       /\ \A z \in N, f \in Dirs : z \notin {g, top} => u[z][f] = IF z = q /\ f = e THEN top ELSE t[z][f]
       /\ \A z \in Spots(N) : u[z][Red] = IF z = g THEN 1 ELSE IF z = top THEN 0 ELSE t[z][Red]
  <2>1. u[g][d] = c /\ u[g][o] = w
    BY <1>3, <1>4, <1>5, <1>9, <1>13
  <2>2. u[top][d] = t[top][d] /\ u[top][o] = g
    BY <1>3, <1>4, <1>5, <1>9, <1>13
  <2>3. \A z \in N, f \in Dirs : z \notin {g, top} => u[z][f] = IF z = q /\ f = e THEN top ELSE t[z][f]
    BY <1>3, <1>4, <1>9
  <2> QED
    BY <2>1, <2>2, <2>3, <1>4, <1>9
<1>15. /\ h \in [N \union {NilNode} -> Nat] /\ h[NilNode] = 0
       /\ \A z \in N, f \in Dirs : h[z] = h[t[z][f]] + 1 - t[z][Red] + Gap(P, D, z, f)
  BY DEF Level
<1>16. /\ h[g] = h[top] + 1 /\ h[top] = h[c] + Gap(P, D, top, o)
       /\ h[top] = h[w] + Gap(P, D, g, o) /\ h[top] = h[t[top][d]] + Gap(P, D, top, d)
       /\ h[c] \in Nat /\ h[top] \in Nat /\ h[g] \in Nat /\ h[w] \in Nat /\ h[t[top][d]] \in Nat
       /\ Gap(P, D, top, o) = 0 /\ Gap(P, D, top, d) = 0 /\ Gap(P, D, g, d) = 0
  <2>1. h[g] = h[top] + 1 - t[g][Red] + Gap(P, D, g, d) /\ h[g] = h[w] + 1 - t[g][Red] + Gap(P, D, g, o)
    BY <1>13, <1>15, <1>5
  <2>2. h[top] = h[t[top][d]] + 1 - t[top][Red] + Gap(P, D, top, d)
    BY <1>13, <1>15, <1>5
  <2>3. h[top] = h[c] + 1 - t[top][Red] + Gap(P, D, top, o)
    BY <1>13, <1>15, <1>5
  <2>4. h[w] \in Nat /\ h[t[top][d]] \in Nat /\ h[c] \in Nat /\ h[top] \in Nat /\ h[g] \in Nat
    BY <1>15, <1>11, <1>9
  <2>5. Gap(P, D, top, o) = 0 /\ Gap(P, D, top, d) = 0 /\ Gap(P, D, g, d) = 0
        /\ Gap(P, D, g, o) \in Int
    BY DEF Gap
  <2> QED
    BY <2>1, <2>2, <2>3, <2>4, <2>5
<1>17. /\ k \in [N \union {NilNode} -> Nat]
       /\ k[g] = h[top] /\ k[top] = h[top] + 1
       /\ \A z \in N \union {NilNode} : z \notin {g, top} => k[z] = h[z]
  BY <1>3, <1>9, <1>15, <1>16 DEF k
<1>18. Level(u, N, k, P, D)
  <2>1. k[NilNode] = 0
    BY <1>3, <1>15, <1>17
  <2>2. ASSUME NEW z \in N, NEW f \in Dirs
        PROVE  k[z] = k[u[z][f]] + 1 - u[z][Red] + Gap(P, D, z, f)
    <3>1. CASE z = g
      <4>1. k[c] = h[top] /\ k[w] = h[w]
        BY <1>9, <1>11, <1>16, <1>17
      <4>2. (f = d /\ u[g][f] = c) \/ (f = o /\ u[g][f] = w)
        BY <1>3, <1>13, <1>14
      <4>3. u[g][Red] = 1
        BY <1>3, <1>14
      <4>4. CASE f = d /\ u[g][f] = c
        BY <3>1, <4>1, <4>3, <4>4, <1>16, <1>17
      <4>5. CASE f = o /\ u[g][f] = w
        <5>1. Gap(P, D, g, o) \in Int
          BY DEF Gap
        <5> QED
          BY <3>1, <4>1, <4>3, <4>5, <5>1, <1>16, <1>17
      <4> QED
        BY <4>2, <4>4, <4>5
    <3>2. CASE z = top
      <4>1. k[t[top][d]] = h[top] /\ k[g] = h[top]
        BY <1>11, <1>16, <1>17
      <4>2. u[top][f] \in {t[top][d], g} /\ u[top][Red] = 0
        BY <1>3, <1>9, <1>13, <1>14
      <4>3. Gap(P, D, top, f) = 0
        BY DEF Gap
      <4> QED
        BY <3>2, <4>1, <4>2, <4>3, <1>16, <1>17
    <3>3. CASE z \notin {g, top} /\ z = q /\ f = e
      <4>1. u[z][f] = top /\ u[z][Red] = t[z][Red] /\ t[z][f] = g
        BY <3>3, <1>3, <1>4, <1>9, <1>14
      <4>2. h[z] = h[g] + 1 - t[z][Red] + Gap(P, D, z, f)
        BY <4>1, <1>15
      <4>3. k[z] = h[z]
        BY <3>3, <1>17
      <4> QED
        BY <4>1, <4>2, <4>3, <1>16, <1>17
    <3>4. CASE z \notin {g, top} /\ ~(z = q /\ f = e)
      <4>1. u[z][f] = t[z][f] /\ u[z][Red] = t[z][Red] /\ t[z][f] \notin {g, top}
        BY <3>4, <1>3, <1>12, <1>14
      <4>2. t[z][f] \in N \union {NilNode}
        BY DEF Shape, Typed
      <4> QED
        BY <3>4, <4>1, <4>2, <1>15, <1>17
    <3> QED
      BY <3>1, <3>2, <3>3, <3>4
  <2> QED
    BY <2>1, <2>2, <1>17 DEF Level
<1>19. Calm(u, N, x)
  <2>1. \A z \in N, f \in Dirs : t[z][Red] = 1 /\ t[z][f] # x => t[t[z][f]][Red] = 0
    BY DEF Calm
  <2>2. t[c][Red] = 0 /\ t[w][Red] = 0
    BY DEF w, c, o
  <2>3. {c, w} \subseteq Spots(N) /\ top \in Spots(N)
    BY <1>9, <1>11 DEF Spots
  <2>4. u[c][Red] = 0 /\ u[w][Red] = 0 /\ u[top][Red] = 0
    BY <2>2, <2>3, <1>9, <1>11, <1>14
  <2>5. ASSUME NEW z \in N, NEW f \in Dirs, u[z][Red] = 1, u[z][f] # x
        PROVE  u[u[z][f]][Red] = 0
    <3>1. z # top
      BY <2>4, <2>5
    <3>2. CASE z = g
      BY <3>2, <2>4, <1>13, <1>14
    <3>3. CASE z # g /\ z = q /\ f = e
      BY <3>1, <3>3, <2>4, <1>14
    <3>4. CASE z # g /\ ~(z = q /\ f = e)
      <4>1. u[z][f] = t[z][f] /\ t[z][Red] = 1 /\ t[z][f] \notin {g, top}
        BY <3>1, <3>4, <2>5, <1>3, <1>12, <1>14
      <4>2. t[z][f] \in Spots(N)
        BY DEF Shape, Typed, Spots
      <4> QED
        BY <4>1, <4>2, <2>1, <2>5, <1>14
    <3> QED
      BY <3>2, <3>3, <3>4
  <2> QED
    BY <2>5 DEF Calm
<1>20. Rooted(u, x) /\ u[RootNode][Left] = IF t[RootNode][Left] = g THEN top ELSE t[RootNode][Left]
  <2>1. Typed(t, N) /\ Links(t, N)
    BY DEF Shape
  <2>2. CASE q = RootNode
    <3>1. e = Left
      BY <2>2, <1>2, <1>6, Above DEF e
    <3>2. u[RootNode][Left] = top
      BY <2>2, <3>1, <1>3, <1>9, Opposites
    <3>3. t[RootNode][Left] = g
      BY <2>2, <3>1, <1>3, <1>4, <1>9, Opposites
    <3> QED
      BY <3>2, <3>3, <1>3, <1>14, <1>9 DEF Rooted
  <2>3. CASE q # RootNode
    <3> DEFINE r == t[RootNode][Left]
    <3>1. t[r][Parent] = RootNode \/ r = NilNode
      BY <2>1 DEF Links
    <3>2. r # g /\ r \in Spots(N)
      BY <3>1, <2>1, <2>3, <1>3, <1>11 DEF q, Typed, Spots
    <3>3. u[RootNode][Left] = r
      BY <2>3, <1>3, <1>4, <1>9, Opposites
    <3>4. r = x \/ t[r][Red] = 0
      BY <3>2 DEF Rooted
    <3> HIDE DEF r
    <3>5. Rooted(u, x)
      BY <3>2, <3>3, <3>4, <1>14 DEF Rooted
    <3> QED
      BY <3>2, <3>3, <3>5 DEF r
  <2> QED
    BY <2>2, <2>3
<1>21. CrownOf(t, u, N, g, d, top)
  <2>1. e = Side(t, g)
    <3>1. b[g][Parent] = t[g][Parent]
      BY <1>3, <1>4
    <3>2. q \in Spots(N) /\ Left \in Dirs
      BY <1>9, Opposites DEF Spots
    <3>3. b[t[g][Parent]][Left] = t[t[g][Parent]][Left]
      BY <3>2, <1>4 DEF q
    <3> QED
      BY <3>1, <3>3 DEF e, Side
  <2>2. u[g][Parent] = top /\ u[top][Parent] = t[g][Parent]
    BY <1>9 DEF q
  <2>3. \A z \in N : z \notin {g, top, c} => u[z][Parent] = t[z][Parent]
    BY <1>3, <1>4, <1>9
  <2> QED
    BY <1>14, <1>20, <2>1, <2>2, <2>3 DEF CrownOf, c, w, o, q
<1> QED
  BY <1>10, <1>18, <1>19, <1>20, <1>21 DEF u

\* The same, with names for what it takes and what it gives.
Crownable(t, N, sub, h, K, P, D, x, g, d, top) ==
  /\ Shape(t, N, sub) /\ Ordered(t, N, sub, K) /\ Level(t, N, h, P, D)
  /\ g \in N /\ d \in Dirs /\ top \in N /\ t[g][d] = top
  /\ Calm(t, N, x) /\ Rooted(t, x) /\ x # g
  /\ t[top][Red] = 1 /\ t[g][Red] = 0 /\ t[t[g][Opposite(d)]][Red] = 0
  /\ t[t[top][Opposite(d)]][Red] = 0
  /\ P # top /\ ~(P = g /\ D = d) /\ ~(P = t[g][Parent] /\ D = Side(t, g))
Balanced(v, N, sub, h, K, P, D, x) ==
  /\ Shape(v, N, sub) /\ Ordered(v, N, sub, K) /\ Level(v, N, h, P, D)
  /\ Calm(v, N, x) /\ Rooted(v, x)
CrownsTo(v, N, K, P, D, x) == \E sub, h : Balanced(v, N, sub, h, K, P, D, x)

LEMMA CrownedTo ==
  ASSUME NEW N, NEW t, NEW sub, NEW h, NEW K, NEW P, NEW D, NEW x, NEW g, NEW d, NEW top,
         Crownable(t, N, sub, h, K, P, D, x, g, d, top)
  PROVE  CrownsTo(TCrown(t, top, g, d), N, K, P, D, x) /\ CrownOf(t, TCrown(t, top, g, d), N, g, d, top)
<1>1. /\ Shape(t, N, sub) /\ Ordered(t, N, sub, K) /\ Level(t, N, h, P, D)
      /\ g \in N /\ d \in Dirs /\ top \in N /\ t[g][d] = top
      /\ Calm(t, N, x) /\ Rooted(t, x) /\ x # g
      /\ t[top][Red] = 1 /\ t[g][Red] = 0 /\ t[t[g][Opposite(d)]][Red] = 0
      /\ t[t[top][Opposite(d)]][Red] = 0
      /\ P # top /\ ~(P = g /\ D = d) /\ ~(P = t[g][Parent] /\ D = Side(t, g))
  BY DEF Crownable
<1>2. /\ \E sub2, h2 :
              /\ Shape(TCrown(t, top, g, d), N, sub2) /\ Ordered(TCrown(t, top, g, d), N, sub2, K)
              /\ Level(TCrown(t, top, g, d), N, h2, P, D)
              /\ Calm(TCrown(t, top, g, d), N, x) /\ Rooted(TCrown(t, top, g, d), x)
      /\ CrownOf(t, TCrown(t, top, g, d), N, g, d, top)
  BY <1>1, Crowned
<1> QED
  BY <1>2 DEF CrownsTo, Balanced

Even(t, N, h) == /\ h \in [N \union {NilNode} -> Nat] /\ h[NilNode] = 0
                 /\ \A z \in N, d \in Dirs : h[z] = h[t[z][d]] + 1 - t[z][Red]
LEMMA Gapless ==
  ASSUME NEW t, NEW N, NEW h, Typed(t, N), NilNode \notin N
  PROVE  Level(t, N, h, NilNode, Left) <=> Even(t, N, h)
<1>1. \A z \in N, d \in Dirs : Gap(NilNode, Left, z, d) = 0
  BY DEF Gap
<1>2. CASE h \in [N \union {NilNode} -> Nat]
  <2>1. \A z \in N, d \in Dirs : h[t[z][d]] + 1 - t[z][Red] + Gap(NilNode, Left, z, d)
                                   = h[t[z][d]] + 1 - t[z][Red]
    <3> TAKE z \in N, d \in Dirs
    <3>1. h[t[z][d]] \in Nat /\ (t[z][Red] = 0 \/ t[z][Red] = 1)
      BY <1>2 DEF Typed
    <3>2. Gap(NilNode, Left, z, d) = 0
      BY <1>1
    <3> QED
      BY <3>1, <3>2
  <2> QED
    BY <1>2, <2>1 DEF Level, Even
<1> QED
  BY <1>2 DEF Level, Even

\* The places of a red node with a red parent.
LEMMA RedParent ==
  ASSUME NEW N, NEW t, NEW sub, NEW h, NEW K, NEW x, InsInv(t, N, sub, h, K, x),
         NEW p, p = t[x][Parent], t[p][Red] = 1, NEW g, g = t[p][Parent], NEW d, d = Side(t, p)
  PROVE  /\ p \in N /\ g \in N /\ d \in Dirs /\ t[g][d] = p /\ t[g][Red] = 0
         /\ t[g][Opposite(d)] # p /\ t[g][Opposite(d)] \in N \union {NilNode}
         /\ t[p][d] = x \/ t[p][Opposite(d)] = x
         /\ x # p /\ x # g /\ p # g /\ t[RootNode][Left] # x
         /\ sub[x] \subseteq sub[p] /\ sub[p] \subseteq sub[g] /\ g \notin sub[p]
<1>1. /\ Shape(t, N, sub) /\ Calm(t, N, x) /\ Rooted(t, x) /\ x \in N /\ t[x][Red] = 1
      /\ Typed(t, N) /\ Links(t, N) /\ Good(N)
  BY DEF InsInv, Shape
<1>2. p \in N
  BY <1>1 DEF Typed
<1>3. t[RootNode][Left] # x
  BY <1>1, <1>2 DEF Links, Good
<1>4. t[t[RootNode][Left]][Red] = 0
  BY <1>1, <1>3 DEF Rooted
<1>5. g \in N
  BY <1>1, <1>2, <1>4 DEF Links
<1>6. /\ d \in Dirs /\ t[g][d] = p /\ t[g][Opposite(d)] # p
      /\ sub[p] \subseteq sub[g] /\ g \notin sub[p] /\ p # g
  BY <1>1, <1>2, <1>5, Above
<1>7. sub[x] \subseteq sub[p] /\ p \notin sub[x] /\ t[p][Side(t, x)] = x /\ Side(t, x) \in Dirs /\ x # p
  BY <1>1, <1>2, Above
<1>8. x \in sub[x]
  BY <1>1, Below
<1>9. x # g
  BY <1>6, <1>7, <1>8
<1>10. t[g][Red] = 0
  BY <1>1, <1>2, <1>5, <1>6, <1>7 DEF Calm, Typed
<1>11. t[g][Opposite(d)] \in N \union {NilNode}
  BY <1>1, <1>5, <1>6, Opposites DEF Typed
<1>12. t[p][d] = x \/ t[p][Opposite(d)] = x
  BY <1>6, <1>7, Opposites
<1> QED
  BY <1>2, <1>3, <1>5, <1>6, <1>7, <1>9, <1>10, <1>11, <1>12

\* The children and colours that a rotation at x leaves.
TurnLinks(t, u, N, x, d, y, c, q, e) ==
  /\ c \in N \union {NilNode} /\ c # x /\ c # y
  /\ \A z \in Spots(N) : u[z][Red] = t[z][Red]
  /\ \A z \in Spots(N), b \in Dirs :
       u[z][b] = IF z = x /\ b = Opposite(d) THEN c ELSE IF z = y /\ b = d THEN x
                 ELSE IF z = q /\ b = e THEN y ELSE t[z][b]
LEMMA TurnedLinks ==
  ASSUME NEW N, NEW t, NEW sub, Shape(t, N, sub), NEW x \in N, NEW d \in Dirs,
         t[x][Opposite(d)] # NilNode, NEW u, u = Turn(t, x, d)
  PROVE  TurnLinks(t, u, N, x, d, t[x][Opposite(d)], t[t[x][Opposite(d)]][d], t[x][Parent], Side(t, x))
BY TurnFields DEF TurnLinks

\* The first of the two rotations, where x is on the inner side of p.
InnerOf(t, v, N, sub, h, K, x, p, g, d) ==
  /\ Shape(v, N, TurnSub(t, sub, p, d)) /\ Ordered(v, N, TurnSub(t, sub, p, d), K)
  /\ Level(v, N, h, NilNode, Left) /\ Calm(v, N, p) /\ Rooted(v, p)
  /\ v[g][d] = x /\ v[x][d] = p /\ v[g][Opposite(d)] = t[g][Opposite(d)]
  /\ v[x][Opposite(d)] = t[x][Opposite(d)] /\ t[t[x][Opposite(d)]][Red] = 0
  /\ \A z \in Spots(N) : v[z][Red] = t[z][Red]
LEMMA InnerTurn ==
  ASSUME NEW N, NEW t, NEW sub, NEW h, NEW K, NEW x, InsInv(t, N, sub, h, K, x),
         NEW p, p = t[x][Parent], t[p][Red] = 1, NEW g, g = t[p][Parent], NEW d, d = Side(t, p),
         t[p][Opposite(d)] = x, NEW v, v = Turn(t, p, d)
  PROVE  InnerOf(t, v, N, sub, h, K, x, p, g, d)
<1> DEFINE o == Opposite(d)
           c == t[x][d]
<1>1. /\ p \in N /\ g \in N /\ d \in Dirs /\ t[g][d] = p /\ t[g][Red] = 0
      /\ x # p /\ x # g /\ p # g /\ t[RootNode][Left] # x
      /\ t[g][Opposite(d)] # p
  BY RedParent
<1>2. /\ Shape(t, N, sub) /\ Ordered(t, N, sub, K) /\ Level(t, N, h, NilNode, Left)
      /\ Calm(t, N, x) /\ Rooted(t, x) /\ x \in N /\ t[x][Red] = 1
  BY DEF InsInv
<1>3. x # NilNode /\ N \subseteq Spots(N) /\ NilNode \in Spots(N) /\ RootNode \in Spots(N)
      /\ RootNode \notin N /\ NilNode \notin N
  BY <1>2 DEF Shape, Good, Spots
<1>4. o \in Dirs /\ o # d /\ Opposite(o) = d /\ (\A f \in Dirs : f = d \/ f = o)
  BY <1>1, Opposites
<1>5. Shape(v, N, TurnSub(t, sub, p, d)) /\ Ordered(v, N, TurnSub(t, sub, p, d), K)
  BY <1>1, <1>2, <1>3, TurnShape, TurnOrder
<1>6. /\ c \in N \union {NilNode} /\ c # x /\ c # p
      /\ \A z \in Spots(N) : v[z][Red] = t[z][Red]
      /\ \A z \in Spots(N), b \in Dirs :
              v[z][b] = IF z = p /\ b = o THEN c ELSE IF z = x /\ b = d THEN p
                        ELSE IF z = g /\ b = d THEN x ELSE t[z][b]
  <2>1. TurnLinks(t, v, N, p, d, t[p][Opposite(d)], t[t[p][Opposite(d)]][d], t[p][Parent], Side(t, p))
    BY <1>1, <1>2, <1>3, TurnedLinks
  <2>2. TurnLinks(t, v, N, p, d, x, c, g, d)
    BY <2>1
  <2> HIDE DEF c
  <2> QED
    BY <2>2 DEF TurnLinks
<1> HIDE DEF o, c
<1>7. t[p][o] = x /\ t[x][d] = c /\ t[g][o] # p
  BY <1>1 DEF o, c
<1>8. v[g][d] = x /\ v[x][d] = p /\ v[g][o] = t[g][o] /\ v[x][o] = t[x][o]
      /\ v[p][o] = c /\ v[p][d] = t[p][d]
  BY <1>1, <1>2, <1>3, <1>4, <1>6
<1>9. \A z \in N, f \in Dirs : z \notin {p, x} /\ ~(z = g /\ f = d) => v[z][f] = t[z][f]
                                  /\ t[z][f] # x /\ t[z][f] # p
  <2>1. \A z \in N, f \in Dirs : t[z][f] # NilNode => t[t[z][f]][Parent] = z
    BY <1>2, Below
  <2>2. \A z \in N, f \in Dirs : z \notin {p, x} /\ ~(z = g /\ f = d) => v[z][f] = t[z][f]
    BY <1>3, <1>6
  <2>3. \A z \in N, f \in Dirs : z # p => t[z][f] # x
    BY <1>3, <2>1
  <2>4. \A z \in N, f \in Dirs : t[z][f] = p => z = g
    BY <1>1, <1>3, <2>1
  <2> QED
    BY <1>4, <1>7, <2>2, <2>3, <2>4
<1>10. /\ t[c][Red] = 0 /\ t[t[x][o]][Red] = 0 /\ t[t[p][d]][Red] = 0 /\ t[p][d] # x
  <2>1. \A z \in N, f \in Dirs : t[z][Red] = 1 /\ t[z][f] # x => t[t[z][f]][Red] = 0
    BY <1>2 DEF Calm
  <2>2. t[x][o] # x
    BY <1>2, <1>3, <1>4, Below
  <2>3. t[p][d] # x
    BY <1>1, <1>2, <1>3, <1>4, <1>7, Below
  <2> QED
    BY <2>1, <2>2, <2>3, <1>1, <1>2, <1>4, <1>6, <1>7
<1>11. {c, t[x][o], t[p][d], x, p, g} \subseteq Spots(N)
  <2>1. c \in N \union {NilNode} /\ x \in N /\ p \in N /\ g \in N
    BY <1>1, <1>2, <1>6
  <2>2. t[x][o] \in N \union {NilNode} /\ t[p][d] \in N \union {NilNode}
    BY <1>1, <1>2, <1>4 DEF Shape, Typed
  <2> QED
    BY <2>1, <2>2 DEF Spots
<1>12. Level(v, N, h, NilNode, Left)
  <2>1. /\ h \in [N \union {NilNode} -> Nat] /\ h[NilNode] = 0
        /\ \A z \in N, f \in Dirs : h[z] = h[t[z][f]] + 1 - t[z][Red]
    <3>1. Typed(t, N)
      BY <1>2 DEF Shape
    <3>2. Even(t, N, h)
      BY <1>2, <1>3, <3>1, Gapless
    <3> QED
      BY <3>2 DEF Even
  <2>2. h[p] = h[x] /\ h[x] = h[c] /\ h[x] = h[t[x][o]] /\ h[p] = h[t[p][d]]
    <3>1. h[p] = h[x] + 1 - t[p][Red] /\ h[p] = h[t[p][d]] + 1 - t[p][Red]
      BY <2>1, <1>1, <1>4, <1>7
    <3>2. h[x] = h[c] + 1 - t[x][Red] /\ h[x] = h[t[x][o]] + 1 - t[x][Red]
      BY <2>1, <1>1, <1>2, <1>4, <1>7
    <3>3. t[x][o] \in N \union {NilNode} /\ t[p][d] \in N \union {NilNode}
      BY <1>1, <1>2, <1>4 DEF Shape, Typed
    <3>4. h[x] \in Nat /\ h[p] \in Nat /\ h[c] \in Nat /\ h[t[x][o]] \in Nat /\ h[t[p][d]] \in Nat
      BY <2>1, <3>3, <1>1, <1>2, <1>6
    <3> QED
      BY <1>2, <3>1, <3>2, <3>4
  <2>3. h[p] \in Nat
    BY <2>1, <1>1
  <2>4. ASSUME NEW z \in N, NEW f \in Dirs PROVE h[z] = h[v[z][f]] + 1 - v[z][Red]
    <3>1. v[z][Red] = t[z][Red]
      BY <1>3, <1>6
    <3>2. CASE z = p
      <4>1. v[z][f] \in {c, t[p][d]}
        BY <3>2, <1>4, <1>8
      <4>2. h[v[z][f]] = h[p] /\ v[z][Red] = 1
        BY <3>1, <3>2, <4>1, <2>2
      <4> QED
        BY <3>2, <4>2, <2>3
    <3>3. CASE z = x
      <4>1. v[z][f] \in {p, t[x][o]}
        BY <3>3, <1>4, <1>8
      <4>2. h[v[z][f]] = h[p] /\ v[z][Red] = 1
        BY <3>1, <3>3, <4>1, <2>2, <1>2
      <4> QED
        BY <3>3, <4>2, <2>2, <2>3
    <3>4. CASE z = g /\ f = d
      <4>1. h[g] = h[p] + 1 - t[g][Red]
        BY <2>1, <1>1
      <4> QED
        BY <3>1, <3>4, <4>1, <2>2, <1>8
    <3>5. CASE z \notin {p, x} /\ ~(z = g /\ f = d)
      BY <3>1, <3>5, <2>1, <1>9
    <3> QED
      BY <3>2, <3>3, <3>4, <3>5
  <2> QED
    <3>1. Typed(v, N)
      BY <1>5 DEF Shape
    <3>2. Even(v, N, h)
      BY <2>1, <2>4 DEF Even
    <3> QED
      BY <1>3, <3>1, <3>2, Gapless
<1>13. Calm(v, N, p)
  <2>1. \A z \in N, f \in Dirs : t[z][Red] = 1 /\ t[z][f] # x => t[t[z][f]][Red] = 0
    BY <1>2 DEF Calm
  <2>2. ASSUME NEW z \in N, NEW f \in Dirs, v[z][Red] = 1, v[z][f] # p
        PROVE  v[v[z][f]][Red] = 0
    <3>1. CASE z = p
      <4>1. v[z][f] \in {c, t[p][d]}
        BY <3>1, <1>4, <1>8
      <4> QED
        BY <4>1, <1>6, <1>10, <1>11
    <3>2. CASE z = x
      <4>1. v[z][f] = t[x][o]
        BY <2>2, <3>2, <1>4, <1>8
      <4> QED
        BY <4>1, <1>6, <1>10, <1>11
    <3>3. CASE z = g /\ f = d
      <4>1. v[g][Red] = 0
        BY <1>1, <1>3, <1>6
      <4>2. v[g][Red] = 1
        BY <2>2, <3>3
      <4> QED
        BY <4>1, <4>2
    <3>4. CASE z \notin {p, x} /\ ~(z = g /\ f = d)
      <4>1. v[z][f] = t[z][f] /\ t[z][f] # x /\ t[z][f] \in Spots(N)
        BY <3>4, <1>2, <1>9 DEF Shape, Typed, Spots
      <4> QED
        BY <2>1, <2>2, <4>1, <1>3, <1>6
    <3> QED
      BY <3>1, <3>2, <3>3, <3>4
  <2> QED
    BY <2>2 DEF Calm
<1>14. Rooted(v, p)
  <2>1. v[RootNode][Left] = t[RootNode][Left]
    BY <1>1, <1>2, <1>3, <1>6, Opposites
  <2>2. t[RootNode][Left] \in Spots(N)
    BY <1>2 DEF Shape, Typed, Spots
  <2> DEFINE r == t[RootNode][Left]
  <2>3. v[r][Red] = t[r][Red]
    BY <2>2, <1>6
  <2>4. r # x /\ (r = x \/ t[r][Red] = 0)
    BY <1>1, <1>2 DEF Rooted
  <2> HIDE DEF r
  <2>5. v[r][Red] = 0
    BY <2>3, <2>4
  <2> QED
    BY <2>1, <2>5 DEF Rooted, r
<1> QED
  BY <1>5, <1>6, <1>8, <1>10, <1>12, <1>13, <1>14 DEF o, InnerOf

LEMMA Smaller ==
  ASSUME NEW S, IsFiniteSet(S), NEW T \in SUBSET S, NEW U \in SUBSET T, NEW e \in T, e \notin U
  PROVE  Cardinality(U) + 1 <= Cardinality(T) /\ Cardinality(U) \in Nat /\ Cardinality(T) \in Nat
         /\ Cardinality(T) <= Cardinality(S)
<1>1. IsFiniteSet(T) /\ Cardinality(T) <= Cardinality(S)
  BY FS_Subset
<1>2. IsFiniteSet(U) /\ Cardinality(U) <= Cardinality(T) /\ (Cardinality(U) = Cardinality(T) => U = T)
  BY <1>1, FS_Subset
<1>3. Cardinality(U) # Cardinality(T)
  BY <1>2
<1>4. Cardinality(U) \in Nat /\ Cardinality(T) \in Nat
  BY <1>1, <1>2, FS_CardinalityType
<1> QED
  BY <1>1, <1>2, <1>3, <1>4

\* A round of the loop of rbt_insert on the map.
Bright(t, p, u, g) == Put(Put(Put(t, p, Red, 0), u, Red, 0), g, Red, 1)
TStep(t, x, p, g, d, u) ==
  IF t[u][Red] = 1 THEN [m |-> Bright(t, p, u, g), x |-> g]
  ELSE IF t[p][Opposite(d)] = x THEN [m |-> TCrown(Turn(t, p, d), x, g, d), x |-> p]
  ELSE [m |-> TCrown(t, p, g, d), x |-> x]

\* The links of v are those of t; of the nodes p, u and g, g alone is red.
BrightOf(t, v, N, p, u, g) ==
  /\ \A z \in Spots(N), f \in Dirs : v[z][f] = t[z][f]
  /\ \A z \in Spots(N) : v[z][Red] = IF z = g THEN 1 ELSE IF z \in {p, u} THEN 0 ELSE t[z][Red]
Trio(N, p, u, g) == p \in N /\ u \in N /\ g \in N
Whole(t, N, sub, K) == Shape(t, N, sub) /\ Ordered(t, N, sub, K)
LEMMA ThreeColours ==
  ASSUME NEW N, NEW t, NEW sub, NEW K, Whole(t, N, sub, K),
         NEW p, NEW u, NEW g, Trio(N, p, u, g)
  PROVE  /\ Shape(Bright(t, p, u, g), N, sub) /\ Ordered(Bright(t, p, u, g), N, sub, K)
         /\ BrightOf(t, Bright(t, p, u, g), N, p, u, g)
<1> DEFINE a == Put(t, p, Red, 0)
           b == Put(a, u, Red, 0)
           v == Bright(t, p, u, g)
<1>5. v = Put(b, g, Red, 1)
  BY DEF Bright
<1> HIDE DEF a, b, v
<1>1. Shape(t, N, sub) /\ Ordered(t, N, sub, K)
  BY DEF Whole
<1>2. p \in N /\ u \in N /\ g \in N
  BY DEF Trio
<1>3. 0 \in Colours
  BY DEF Colours
<1>4. 1 \in Colours
  BY DEF Colours
<1>7. /\ Shape(a, N, sub) /\ Ordered(a, N, sub, K)
      /\ \A z \in Spots(N), f \in Dirs : a[z][f] = t[z][f]
      /\ \A z \in Spots(N) : a[z][Parent] = t[z][Parent]
      /\ \A z \in Spots(N) : a[z][Red] = IF z = p THEN 0 ELSE t[z][Red]
  BY <1>1, <1>2, <1>3, Recolour DEF a
<1>8. /\ Shape(b, N, sub) /\ Ordered(b, N, sub, K)
      /\ \A z \in Spots(N), f \in Dirs : b[z][f] = a[z][f]
      /\ \A z \in Spots(N) : b[z][Parent] = a[z][Parent]
      /\ \A z \in Spots(N) : b[z][Red] = IF z = u THEN 0 ELSE a[z][Red]
  BY <1>7, <1>2, <1>3, Recolour DEF b
<1>9. /\ Shape(v, N, sub) /\ Ordered(v, N, sub, K)
      /\ \A z \in Spots(N), f \in Dirs : v[z][f] = b[z][f]
      /\ \A z \in Spots(N) : v[z][Parent] = b[z][Parent]
      /\ \A z \in Spots(N) : v[z][Red] = IF z = g THEN 1 ELSE b[z][Red]
  BY <1>5, <1>8, <1>2, <1>4, Recolour
<1>10. BrightOf(t, v, N, p, u, g)
  BY <1>7, <1>8, <1>9 DEF BrightOf
<1> QED
  BY <1>9, <1>10 DEF v

\* Where the uncle is red, the red parent is moved two levels up.
LEMMA Brightened ==
  ASSUME NEW N, NEW t, NEW sub, NEW h, NEW K, NEW x, InsInv(t, N, sub, h, K, x),
         NEW p, p = t[x][Parent], t[p][Red] = 1, NEW g, g = t[p][Parent], NEW d, d = Side(t, p),
         NEW u, u = t[g][Opposite(d)], t[u][Red] = 1
  PROVE  \E k : InsInv(Bright(t, p, u, g), N, sub, k, K, g)
<1> DEFINE v == Bright(t, p, u, g)
           k == [h EXCEPT ![p] = @ + 1, ![u] = @ + 1]
<1>1. /\ p \in N /\ g \in N /\ d \in Dirs /\ t[g][d] = p /\ t[g][Red] = 0
      /\ u # p /\ u \in N \union {NilNode}
      /\ x # p /\ x # g /\ p # g /\ t[RootNode][Left] # x
  BY RedParent
<1>2. /\ Shape(t, N, sub) /\ Ordered(t, N, sub, K) /\ Level(t, N, h, NilNode, Left)
      /\ Calm(t, N, x) /\ Rooted(t, x) /\ x \in N /\ t[x][Red] = 1 /\ Typed(t, N)
  BY DEF InsInv, Shape
<1>3. NilNode \notin N /\ N \subseteq Spots(N) /\ NilNode \in Spots(N) /\ RootNode \in Spots(N)
      /\ RootNode \notin N
  BY <1>2 DEF Shape, Good, Spots
<1>4. u \in N /\ u # g /\ t[u][Parent] = g
  <2>1. u \in N
    <3>1. t[NilNode][Red] = 0
      BY <1>2 DEF Typed
    <3>2. u # NilNode
      BY <3>1
    <3> QED
      BY <3>2, <1>1
  <2>2. Opposite(d) \in Dirs
    BY <1>1, Opposites
  <2>3. \A z \in N, f \in Dirs : t[z][f] # NilNode => t[t[z][f]][Parent] = z /\ t[z][f] # z
    BY <1>2, Below
  <2>4. t[g][Opposite(d)] # NilNode
    BY <2>1, <1>3
  <2>5. t[t[g][Opposite(d)]][Parent] = g /\ t[g][Opposite(d)] # g
    BY <2>2, <2>3, <2>4, <1>1
  <2> QED
    BY <2>1, <2>5
<1>5. Whole(t, N, sub, K)
  BY <1>2 DEF Whole
<1>6. Trio(N, p, u, g)
  BY <1>1, <1>4 DEF Trio
<1>9. Shape(v, N, sub) /\ Ordered(v, N, sub, K)
  BY <1>5, <1>6, ThreeColours
<1>10. /\ \A z \in Spots(N), f \in Dirs : v[z][f] = t[z][f]
       /\ \A z \in Spots(N) : v[z][Red] = IF z = g THEN 1 ELSE IF z \in {p, u} THEN 0 ELSE t[z][Red]
  <2>1. BrightOf(t, v, N, p, u, g)
    BY <1>5, <1>6, ThreeColours
  <2> HIDE DEF v
  <2> QED
    BY <2>1 DEF BrightOf
<1> HIDE DEF v, k
<1>11. \A z \in N, f \in Dirs : z # g => t[z][f] # p /\ t[z][f] # u
  <2>1. \A z \in N, f \in Dirs : t[z][f] # NilNode => t[t[z][f]][Parent] = z
    BY <1>2, Below
  <2> QED
    <3>1. t[p][Parent] = g /\ t[u][Parent] = g /\ p # NilNode /\ u # NilNode
      BY <1>1, <1>3, <1>4
    <3>2. ASSUME NEW z \in N, NEW f \in Dirs, t[z][f] = p \/ t[z][f] = u PROVE z = g
      <4>1. t[t[z][f]][Parent] = z
        BY <2>1, <3>1, <3>2
      <4> QED
        BY <4>1, <3>1, <3>2
    <3> QED
      BY <3>2
<1>12. Opposite(d) \in Dirs /\ \A f \in Dirs : t[g][f] \in {p, u}
  BY <1>1, Opposites
<1>13. Even(t, N, h)
  BY <1>2, <1>3, Gapless
<1>14. /\ k \in [N \union {NilNode} -> Nat]
       /\ k[p] = h[p] + 1 /\ k[u] = h[u] + 1
       /\ \A z \in N \union {NilNode} : z \notin {p, u} => k[z] = h[z]
  <2>1. h \in [N \union {NilNode} -> Nat]
    BY <1>13 DEF Even
  <2>2. k = [z \in N \union {NilNode} |-> IF z = p \/ z = u THEN h[z] + 1 ELSE h[z]]
    BY <2>1, <1>1, <1>4 DEF k
  <2> HIDE DEF k
  <2>3. \A z \in N \union {NilNode} : k[z] \in Nat /\ k[z] = IF z = p \/ z = u THEN h[z] + 1 ELSE h[z]
    <3> TAKE z \in N \union {NilNode}
    <3>1. k[z] = IF z = p \/ z = u THEN h[z] + 1 ELSE h[z]
      BY <2>2
    <3>2. h[z] \in Nat
      BY <2>1
    <3> QED
      BY <3>1, <3>2
  <2>4. k \in [N \union {NilNode} -> Nat]
    BY <2>2, <2>3
  <2> QED
    BY <2>3, <2>4, <1>1, <1>4
<1>15. Even(v, N, k)
  <2>1. /\ h \in [N \union {NilNode} -> Nat]
        /\ \A z \in N, f \in Dirs : h[z] = h[t[z][f]] + 1 - t[z][Red]
    BY <1>13 DEF Even
  <2>2. k[NilNode] = 0
    BY <1>1, <1>3, <1>4, <1>13, <1>14 DEF Even
  <2>3. ASSUME NEW z \in N, NEW f \in Dirs PROVE k[z] = k[v[z][f]] + 1 - v[z][Red]
    <3>1. v[z][f] = t[z][f] /\ t[z][f] \in N \union {NilNode}
      BY <1>2, <1>3, <1>10 DEF Typed
    <3>2. h[z] = h[t[z][f]] + 1 - t[z][Red] /\ h[z] \in Nat /\ h[t[z][f]] \in Nat
      BY <2>1, <3>1
    <3>3. CASE z = g
      <4>1. t[g][f] = p \/ t[g][f] = u
        BY <1>12
      <4>2. k[t[g][f]] = h[t[g][f]] + 1 /\ v[g][Red] = 1 /\ k[g] = h[g]
        BY <4>1, <1>1, <1>3, <1>4, <1>10, <1>14
      <4>3. h[z] = h[t[z][f]] + 1 - 0 /\ h[z] \in Nat /\ h[t[z][f]] \in Nat /\ v[z][f] = t[z][f]
        BY <3>1, <3>2, <3>3, <1>1
      <4>4. v[g][f] = t[g][f] /\ k[v[g][f]] = h[t[g][f]] + 1
        BY <3>3, <4>2, <4>3
      <4>6. k[g] = h[g] /\ h[g] = h[t[g][f]] + 1 - 0 /\ h[t[g][f]] \in Nat
        BY <3>3, <4>2, <4>3
      <4>7. \A a, b \in Nat : a = b + 1 - 0 => a = (b + 1) + 1 - 1
        OBVIOUS
      <4>8. h[g] \in Nat
        BY <3>3, <4>3
      <4>5. k[g] = (h[t[g][f]] + 1) + 1 - 1
        BY <4>6, <4>7, <4>8
      <4> QED
        BY <3>3, <4>2, <4>4, <4>5
    <3>4. CASE z # g /\ z \in {p, u}
      <4>1. k[t[z][f]] = h[t[z][f]] /\ k[z] = h[z] + 1 /\ v[z][Red] = 0 /\ t[z][Red] = 1
        BY <3>1, <3>4, <1>3, <1>10, <1>11, <1>14
      <4> QED
        BY <3>1, <3>2, <4>1
    <3>5. CASE z # g /\ z \notin {p, u}
      <4>1. k[t[z][f]] = h[t[z][f]] /\ k[z] = h[z] /\ v[z][Red] = t[z][Red]
        BY <3>1, <3>5, <1>3, <1>10, <1>11, <1>14, ZenonT(30)
      <4> QED
        BY <3>1, <3>2, <4>1
    <3> QED
      BY <3>3, <3>4, <3>5
  <2> QED
    BY <2>2, <2>3, <1>14 DEF Even
<1>16. Level(v, N, k, NilNode, Left)
  <2>1. Typed(v, N)
    BY <1>9 DEF Shape
  <2> QED
    BY <2>1, <1>3, <1>15, Gapless
<1>17. Calm(v, N, g)
  <2>1. \A z \in N, f \in Dirs : t[z][Red] = 1 /\ t[z][f] # x => t[t[z][f]][Red] = 0
    BY <1>2 DEF Calm
  <2>2. ASSUME NEW z \in N, NEW f \in Dirs, v[z][Red] = 1, v[z][f] # g
        PROVE  v[v[z][f]][Red] = 0
    <3>1. v[z][f] = t[z][f] /\ t[z][f] \in Spots(N)
      BY <1>2, <1>3, <1>10 DEF Typed, Spots
    <3>2. CASE t[z][f] \in {p, u}
      BY <2>2, <3>1, <3>2, <1>10
    <3>3. CASE t[z][f] \notin {p, u}
      <4>1. z # g
        BY <3>3, <1>12
      <4>2. t[z][Red] = 1 /\ z # p
        BY <2>2, <4>1, <1>3, <1>10, SMTT(25)
      <4>3. t[z][f] # x
        BY <4>2, <1>2, <1>3, Below
      <4> QED
        BY <2>1, <2>2, <3>1, <3>3, <4>2, <4>3, <1>10
    <3> QED
      BY <3>2, <3>3
  <2> QED
    BY <2>2 DEF Calm
<1>18. Rooted(v, g)
  <2>1. t[RootNode][Left] \in Spots(N) /\ v[RootNode][Left] = t[RootNode][Left]
    BY <1>2, <1>3, <1>10, Opposites DEF Typed, Spots
  <2> QED
    BY <2>1, <1>1, <1>2, <1>10 DEF Rooted
<1>19. v[g][Red] = 1
  BY <1>1, <1>3, <1>10
<1>20. InsInv(v, N, sub, k, K, g)
  BY <1>1, <1>9, <1>16, <1>17, <1>18, <1>19 DEF InsInv
<1> QED
  BY <1>20 DEF v

\* What a round leaves: the same invariant, further up or at the end.
Onward(v, N, sub, K, x, y) ==
  /\ y \in N
  /\ \E sub2, k : /\ InsInv(v, N, sub2, k, K, y)
                  /\ \/ sub2 = sub /\ Cardinality(sub[x]) + 1 <= Cardinality(sub[y])
                     \/ v[v[y][Parent]][Red] = 0

LEMMA InsStep ==
  ASSUME NEW N, NEW t, NEW sub, NEW h, NEW K, NEW x, InsInv(t, N, sub, h, K, x), IsFiniteSet(N),
         NEW p, p = t[x][Parent], t[p][Red] = 1, NEW g, g = t[p][Parent], NEW d, d = Side(t, p),
         NEW u, u = t[g][Opposite(d)]
  PROVE  Onward(TStep(t, x, p, g, d, u).m, N, sub, K, x, TStep(t, x, p, g, d, u).x)
<1> DEFINE o == Opposite(d)
<1>1. /\ p \in N /\ g \in N /\ d \in Dirs /\ t[g][d] = p /\ t[g][Red] = 0
      /\ u # p /\ u \in N \union {NilNode}
      /\ t[p][d] = x \/ t[p][o] = x
      /\ x # p /\ x # g /\ p # g /\ t[RootNode][Left] # x
      /\ sub[x] \subseteq sub[p] /\ sub[p] \subseteq sub[g] /\ g \notin sub[p]
  BY RedParent
<1>2. /\ Shape(t, N, sub) /\ Ordered(t, N, sub, K) /\ Level(t, N, h, NilNode, Left)
      /\ Calm(t, N, x) /\ Rooted(t, x) /\ x \in N /\ t[x][Red] = 1
  BY DEF InsInv
<1>3. NilNode \notin N
  BY <1>2 DEF Shape, Good
<1>4. t[u][Red] \in {0, 1}
  BY <1>1, <1>2 DEF Shape, Typed
<1>5. CASE t[u][Red] = 1
  <2> DEFINE v == Bright(t, p, u, g)
  <2>1. TStep(t, x, p, g, d, u).m = v /\ TStep(t, x, p, g, d, u).x = g
    BY <1>5 DEF TStep
  <2>2. PICK k : InsInv(v, N, sub, k, K, g)
    BY <1>5, Brightened
  <2>3. Cardinality(sub[x]) + 1 <= Cardinality(sub[g])
    <3>1. g \in sub[g] /\ sub[g] \subseteq N
      <4>1. \A y \in N : y \in sub[y] /\ sub[y] \subseteq N
        BY <1>2, Below
      <4> QED
        BY <4>1, <1>1
    <3> QED
      BY <3>1, <1>1, Smaller
  <2> QED
    BY <2>1, <2>2, <2>3, <1>1 DEF Onward
<1>6. CASE t[u][Red] # 1 /\ t[p][o] = x
  <2> DEFINE a == Turn(t, p, d)
             v == TCrown(a, x, g, d)
  <2>1. TStep(t, x, p, g, d, u).m = v /\ TStep(t, x, p, g, d, u).x = p
    BY <1>6 DEF TStep
  <2>2. /\ Shape(a, N, TurnSub(t, sub, p, d)) /\ Ordered(a, N, TurnSub(t, sub, p, d), K)
        /\ Level(a, N, h, NilNode, Left) /\ Calm(a, N, p) /\ Rooted(a, p)
        /\ a[g][d] = x /\ a[x][d] = p /\ a[g][o] = u
        /\ a[x][o] = t[x][o] /\ t[t[x][o]][Red] = 0
        /\ \A z \in Spots(N) : a[z][Red] = t[z][Red]
    <3>1. InnerOf(t, a, N, sub, h, K, x, p, g, d)
      BY <1>6, InnerTurn
    <3> QED
      BY <3>1 DEF InnerOf
  <2> HIDE DEF a, o
  <2>3. {x, g, u, p, t[x][o]} \subseteq Spots(N)
    <3>1. o \in Dirs
      BY <1>1, Opposites DEF o
    <3> QED
      <4>1. x \in N /\ g \in N /\ p \in N /\ u \in N \union {NilNode} /\ t[x][o] \in N \union {NilNode}
        BY <3>1, <1>1, <1>2 DEF Shape, Typed
      <4> QED
        BY <4>1 DEF Spots
  <2>4. a[x][Red] = 1 /\ a[g][Red] = 0 /\ a[a[g][o]][Red] = 0 /\ a[a[x][o]][Red] = 0
        /\ a[p][Red] = 1
    BY <2>2, <2>3, <1>1, <1>2, <1>4, <1>6
  <2> DEFINE s2 == TurnSub(t, sub, p, d)
  <2> HIDE DEF s2, v
  <2>5. /\ Shape(a, N, s2) /\ Ordered(a, N, s2, K)
    BY <2>2 DEF s2
  <2>6. CrownsTo(v, N, K, NilNode, Left, p) /\ CrownOf(a, v, N, g, d, x)
    <3>1. a[a[g][Opposite(d)]][Red] = 0 /\ a[a[x][Opposite(d)]][Red] = 0
      BY <2>4 DEF o
    <3>2. Crownable(a, N, s2, h, K, NilNode, Left, p, g, d, x)
      <4>1. a[g][Parent] # NilNode
        <5>1. a[g][Parent] \in N \union {RootNode}
          BY <2>5, <1>1 DEF Shape, Typed
        <5> QED
          BY <5>1, <1>3 DEF RootNode, NilNode
      <4> QED
        BY <2>2, <2>4, <2>5, <3>1, <4>1, <1>1, <1>2, <1>3 DEF Crownable
    <3> QED
      BY <3>2, CrownedTo DEF v
  <2>7. PICK sub2, h2 : Balanced(v, N, sub2, h2, K, NilNode, Left, p)
    BY <2>6 DEF CrownsTo
  <2>8. v[x][d] = p /\ v[p][Red] = 1 /\ v[x][Red] = 0
    BY <2>2, <2>3, <2>4, <2>6, <1>1 DEF CrownOf
  <2>9. v[p][Parent] = x
    <3>1. Shape(v, N, sub2)
      BY <2>7 DEF Balanced
    <3>2. \A z \in N, f \in Dirs : v[z][f] # NilNode => v[v[z][f]][Parent] = z
      BY <3>1, Below
    <3>3. x \in N /\ p \in N /\ d \in Dirs /\ x # NilNode /\ p # NilNode
      BY <1>1, <1>2, <1>3
    <3> QED
      BY <2>8, <3>2, <3>3
  <2>10. InsInv(v, N, sub2, h2, K, p)
    BY <2>7, <2>8, <1>1 DEF InsInv, Balanced
  <2>11. v[v[p][Parent]][Red] = 0
    BY <2>8, <2>9
  <2>12. Onward(v, N, sub, K, x, p)
    BY <2>10, <2>11, <1>1 DEF Onward
  <2> QED
    BY <2>1, <2>12
<1>7. CASE t[u][Red] # 1 /\ t[p][o] # x
  <2> DEFINE v == TCrown(t, p, g, d)
  <2>1. TStep(t, x, p, g, d, u).m = v /\ TStep(t, x, p, g, d, u).x = x
    BY <1>7 DEF TStep
  <2> HIDE DEF v
  <2>2. t[p][d] = x /\ t[u][Red] = 0
    BY <1>1, <1>4, <1>7
  <2>3. t[p][o] # x /\ o \in Dirs
    BY <1>1, <1>7, Opposites
  <2>4. t[t[g][o]][Red] = 0 /\ t[t[p][o]][Red] = 0
    BY <2>2, <2>3, <1>1, <1>2 DEF Calm
  <2>6. CrownsTo(v, N, K, NilNode, Left, x) /\ CrownOf(t, v, N, g, d, p)
    <3>1. Crownable(t, N, sub, h, K, NilNode, Left, x, g, d, p)
      <4>1. t[g][Parent] # NilNode
        <5>1. t[g][Parent] \in N \union {RootNode}
          BY <1>1, <1>2 DEF Shape, Typed
        <5> QED
          BY <5>1, <1>3 DEF RootNode, NilNode
      <4> QED
        BY <2>2, <2>4, <4>1, <1>1, <1>2, <1>3 DEF Crownable
    <3> QED
      BY <3>1, CrownedTo DEF v
  <2>7. PICK sub2, h2 : Balanced(v, N, sub2, h2, K, NilNode, Left, x)
    BY <2>6 DEF CrownsTo
  <2>8. v[p][d] = x /\ v[x][Red] = 1 /\ v[p][Red] = 0
    <3>1. x \in Spots(N) /\ p \in Spots(N)
      BY <1>1, <1>2 DEF Spots
    <3> QED
      BY <2>2, <2>6, <3>1, <1>1, <1>2 DEF CrownOf
  <2>9. v[x][Parent] = p
    <3>1. Shape(v, N, sub2)
      BY <2>7 DEF Balanced
    <3>2. \A z \in N, f \in Dirs : v[z][f] # NilNode => v[v[z][f]][Parent] = z
      BY <3>1, Below
    <3>3. x \in N /\ p \in N /\ d \in Dirs /\ x # NilNode /\ p # NilNode
      BY <1>1, <1>2, <1>3
    <3> QED
      BY <2>8, <3>2, <3>3
  <2>10. InsInv(v, N, sub2, h2, K, x)
    BY <2>7, <2>8, <1>2 DEF InsInv, Balanced
  <2> QED
    BY <2>1, <2>8, <2>9, <2>10, <1>2 DEF Onward
<1> QED
  BY <1>5, <1>6, <1>7

------------------------------------------------------------------------------
\* The words of a memory bound the number of its nodes.
LEMMA RoomFor ==
  ASSUME NEW D, NEW N, IsFiniteSet(D), Room(D, N)
  PROVE  /\ IsFiniteSet(N) /\ Cardinality(N) \in Nat
         /\ Cardinality(D) \div NodeWords \in Nat
         /\ Cardinality(N) + 2 <= Cardinality(D) \div NodeWords
<1> DEFINE S == Spots(N)
           F == 0 .. Parent
           f == [w \in S \X F |-> w[1] + w[2]]
<1>1. S \subseteq Int /\ N \subseteq S
  BY DEF Room, Spots, NilNode, RootNode
<1>2. S \subseteq D
  <2>1. \A x \in S : x + 0 \in D /\ x + 0 = x
    BY <1>1 DEF Room, Parent
  <2> QED
    BY <2>1
<1>3. IsFiniteSet(S) /\ IsFiniteSet(N) /\ Cardinality(S) \in Nat /\ Cardinality(N) \in Nat
      /\ Cardinality(D) \in Nat
  BY <1>1, <1>2, FS_Subset, FS_CardinalityType
<1>4. Cardinality(S) = Cardinality(N) + 2
  <2>1. NilNode \notin N /\ RootNode \notin N \union {NilNode}
    BY DEF Room, Good, RootNode, NilNode
  <2>2. IsFiniteSet(N \union {NilNode}) /\ Cardinality(N \union {NilNode}) = Cardinality(N) + 1
    BY <2>1, <1>3, FS_AddElement
  <2>3. Cardinality((N \union {NilNode}) \union {RootNode}) = Cardinality(N \union {NilNode}) + 1
    BY <2>1, <2>2, FS_AddElement
  <2>4. S = (N \union {NilNode}) \union {RootNode}
    BY DEF Spots
  <2> QED
    BY <2>2, <2>3, <2>4, <1>3
<1>5. IsFiniteSet(F) /\ Cardinality(F) = 5
  <2>1. 0 \in Int /\ Parent \in Int
    BY DEF Parent
  <2>2. IsFiniteSet(F) /\ Cardinality(F) = IF 0 > Parent THEN 0 ELSE Parent - 0 + 1
    BY <2>1, FS_Interval
  <2> QED
    BY <2>2 DEF Parent
<1>6. IsFiniteSet(S \X F) /\ Cardinality(S \X F) = Cardinality(S) * 5
  BY <1>3, <1>5, FS_Product
<1>7. f \in Injection(S \X F, D)
  <2>1. f \in [S \X F -> D]
    BY DEF Room
  <2>2. ASSUME NEW x \in S, NEW y \in S, NEW i \in F, NEW j \in F, x + i = y + j
        PROVE  x = y /\ i = j
    BY <2>2, <1>1 DEF Room, NodeWords, Parent
  <2>3. \A v, w \in S \X F : f[v] = f[w] => v = w
    BY <2>2
  <2> HIDE DEF f, S, F
  <2> QED
    BY <2>1, <2>3 DEF Injection, IsInjective
<1> HIDE DEF f, S, F
<1>8. Cardinality(S \X F) <= Cardinality(D)
  BY <1>7, FS_Injection
<1>9. \A s, d \in Nat : s * 5 <= d => d \div 5 \in Nat /\ s <= d \div 5
  OBVIOUS
<1>10. NodeWords = 5
  BY DEF NodeWords, Parent
<1> QED
  BY <1>3, <1>4, <1>6, <1>8, <1>9, <1>10

\* Recolouring and turning a memory.
LEMMA TwoColours ==
  ASSUME NEW N, NEW t, NEW sub, NEW K, Whole(t, N, sub, K), NEW top \in N, NEW g \in N
  PROVE  /\ Shape(Put(Put(t, top, Red, 0), g, Red, 1), N, sub)
         /\ \A z \in Spots(N), f \in Dirs : Put(Put(t, top, Red, 0), g, Red, 1)[z][f] = t[z][f]
<1> DEFINE a == Put(t, top, Red, 0)
           b == Put(a, g, Red, 1)
<1> HIDE DEF a, b
<1>1. Shape(t, N, sub) /\ Ordered(t, N, sub, K)
  BY DEF Whole
<1>2. 0 \in Colours
  BY DEF Colours
<1>3. 1 \in Colours
  BY DEF Colours
<1>4. /\ Shape(a, N, sub) /\ Ordered(a, N, sub, K)
      /\ \A z \in Spots(N), f \in Dirs : a[z][f] = t[z][f]
  BY <1>1, <1>2, Recolour DEF a
<1>5. /\ Shape(b, N, sub)
      /\ \A z \in Spots(N), f \in Dirs : b[z][f] = a[z][f]
  BY <1>4, <1>3, Recolour DEF b
<1> QED
  BY <1>4, <1>5 DEF a, b

LEMMA CrownNow ==
  ASSUME NEW N, NEW l, NEW m, NEW t, NEW sub, NEW K, Now(l, m, N, t), Whole(t, N, sub, K),
         NEW g \in N, NEW d \in Dirs, NEW top \in N, t[g][d] = top
  PROVE  Now(l, Crown(m, top, g, d), N, TCrown(t, top, g, d))
<1> DEFINE a == Put(t, top, Red, 0)
           b == Put(a, g, Red, 1)
           ma == Poke(m, top + Red, 0)
           mb == Poke(ma, g + Red, 1)
<1>1. top \in Spots(N) /\ g \in Spots(N) /\ Red \in Fields /\ Opposite(d) \in Dirs
      /\ Opposite(Opposite(d)) = d
  BY Opposites DEF Spots, Fields, Red, Parent
<1>2. Crown(m, top, g, d) = rotate(mb, g, Opposite(d))
  BY DEF Crown, Poke
<1>3. TCrown(t, top, g, d) = Turn(b, g, Opposite(d))
  BY DEF TCrown
<1>4. Shape(b, N, sub) /\ b[g][d] = top
  BY <1>1, TwoColours
<1>5. top # NilNode
  BY DEF Whole, Shape, Good
<1> HIDE DEF a, b, ma, mb
<1>6. Now(l, ma, N, a)
  BY <1>1, PokeNow DEF ma, a
<1>7. Now(l, mb, N, b)
  BY <1>1, <1>6, PokeNow DEF mb, b
<1>8. Now(l, rotate(mb, g, Opposite(d)), N, Turn(b, g, Opposite(d)))
  BY <1>1, <1>4, <1>5, <1>7, rotateTurns
<1> QED
  BY <1>2, <1>3, <1>8

LEMMA ReadStep ==
  ASSUME NEW N, NEW l, NEW m, NEW t, NEW sub, Now(l, m, N, t), Shape(t, N, sub), NEW x \in N
  PROVE  /\ m[x + Red] = t[x][Red] /\ m[x + Left] = t[x][Left] /\ m[x + Right] = t[x][Right]
         /\ m[x + Parent] = t[x][Parent] /\ SideOf(m, x) = Side(t, x)
         /\ \A d \in Dirs : m[x + d] = t[x][d] /\ m[t[x][d] + Red] = t[t[x][d]][Red]
         /\ m[m[x + Parent] + Red] = t[t[x][Parent]][Red]
<1>1. /\ x \in Spots(N) /\ t[x][Parent] \in Spots(N)
      /\ t[x][Left] \in Spots(N) /\ t[x][Right] \in Spots(N)
  BY DEF Shape, Typed, Spots, Dirs
<1>2. Red \in Fields /\ Left \in Fields /\ Right \in Fields /\ Parent \in Fields
  BY DEF Fields, Red, Left, Right, Parent
<1>3. \A y \in Spots(N), f \in Fields : m[y + f] = t[y][f]
  BY ReadNow
<1>4. /\ m[x + Red] = t[x][Red] /\ m[x + Left] = t[x][Left] /\ m[x + Right] = t[x][Right]
      /\ m[x + Parent] = t[x][Parent]
  BY <1>1, <1>2, <1>3
<1>5. SideOf(m, x) = Side(t, x)
  BY <1>1, <1>2, <1>3, <1>4 DEF SideOf, Side
<1>6. \A d \in Dirs : m[x + d] = t[x][d] /\ m[t[x][d] + Red] = t[t[x][d]][Red]
  BY <1>1, <1>2, <1>3, <1>4 DEF Dirs
<1>7. m[m[x + Parent] + Red] = t[t[x][Parent]][Red]
  BY <1>1, <1>2, <1>3, <1>4
<1> QED
  BY <1>4, <1>5, <1>6, <1>7

\* A round of the loop, in the memory.
StepOf(l, N, q, w) == Now(l, q.m, N, w.m) /\ q.x = w.x /\ q = [m |-> q.m, x |-> q.x]
LEMMA InsertStepNow ==
  ASSUME NEW N, NEW l, NEW m, NEW t, NEW sub, NEW h, NEW K, NEW x, Now(l, m, N, t),
         InsInv(t, N, sub, h, K, x),
         NEW p, p = t[x][Parent], t[p][Red] = 1, NEW g, g = t[p][Parent], NEW d, d = Side(t, p),
         NEW u, u = t[g][Opposite(d)], NEW s, s.m = m, s.x = x
  PROVE  StepOf(l, N, InsertStep(s), TStep(t, x, p, g, d, u))
<1> DEFINE o == Opposite(d)
<1>1. /\ p \in N /\ g \in N /\ d \in Dirs /\ t[g][d] = p
      /\ u \in N \union {NilNode} /\ x # p
  BY RedParent
<1>2. /\ Shape(t, N, sub) /\ Ordered(t, N, sub, K) /\ x \in N
  BY DEF InsInv
<1>3. Whole(t, N, sub, K)
  BY <1>2 DEF Whole
<1>4. m[x + Parent] = p
  BY <1>2, ReadStep
<1>5. m[p + Parent] = g /\ SideOf(m, p) = d /\ m[p + o] = t[p][o]
  BY <1>1, <1>2, ReadStep, Opposites
<1>6. m[g + o] = u /\ m[u + Red] = t[u][Red]
  <2>1. g \in Spots(N) /\ u \in Spots(N)
    BY <1>1 DEF Spots
  <2>2. o \in Fields /\ Red \in Fields
    <3>1. o \in Dirs
      BY <1>1, Opposites
    <3> HIDE DEF o
    <3> QED
      BY <3>1 DEF Dirs, Fields, Left, Right, Red, Parent
  <2>3. \A y \in Spots(N), f \in Fields : m[y + f] = t[y][f]
    BY ReadNow
  <2> QED
    BY <2>1, <2>2, <2>3
<1>7. CASE t[u][Red] = 1
  <2>1. /\ InsertStep(s) = [m |-> [m EXCEPT ![p + Red] = 0, ![u + Red] = 0, ![g + Red] = 1], x |-> g]
    BY <1>4, <1>5, <1>6, <1>7 DEF InsertStep
  <2>2. TStep(t, x, p, g, d, u) = [m |-> Bright(t, p, u, g), x |-> g]
    BY <1>7 DEF TStep
  <2> DEFINE ma == Poke(m, p + Red, 0)
             mb == Poke(ma, u + Red, 0)
             mc == Poke(mb, g + Red, 1)
             a == Put(t, p, Red, 0)
             b == Put(a, u, Red, 0)
             c == Put(b, g, Red, 1)
  <2>3. [m EXCEPT ![p + Red] = 0, ![u + Red] = 0, ![g + Red] = 1] = mc
    BY DEF Poke
  <2>4. Bright(t, p, u, g) = c
    BY DEF Bright
  <2>5. {p, u, g} \subseteq Spots(N) /\ Red \in Fields
    BY <1>1 DEF Spots, Fields, Red, Parent
  <2> HIDE DEF ma, mb, mc, a, b, c
  <2>6. Now(l, ma, N, a)
    BY <2>5, PokeNow DEF ma, a
  <2>7. Now(l, mb, N, b)
    BY <2>5, <2>6, PokeNow DEF mb, b
  <2>8. Now(l, mc, N, c)
    BY <2>5, <2>7, PokeNow DEF mc, c
  <2>9. InsertStep(s) = [m |-> mc, x |-> g] /\ TStep(t, x, p, g, d, u) = [m |-> c, x |-> g]
    BY <2>1, <2>2, <2>3, <2>4
  <2> QED
    BY <2>8, <2>9 DEF StepOf
<1>8. CASE t[u][Red] # 1 /\ t[p][o] = x
  <2> DEFINE ma == rotate(m, p, d)
             a == Turn(t, p, d)
  <2>1. InsertStep(s) = [m |-> Crown(ma, x, g, d), x |-> p]
    BY <1>4, <1>5, <1>6, <1>8 DEF InsertStep
  <2>2. TStep(t, x, p, g, d, u) = [m |-> TCrown(a, x, g, d), x |-> p]
    BY <1>8 DEF TStep
  <2>3. x # NilNode
    BY <1>2 DEF Shape, Good
  <2>4. Now(l, ma, N, a)
    BY <1>1, <1>2, <1>8, <2>3, rotateTurns
  <2>5. Whole(a, N, TurnSub(t, sub, p, d), K) /\ a[g][d] = x
    <3>1. InnerOf(t, a, N, sub, h, K, x, p, g, d)
      BY <1>8, InnerTurn
    <3> QED
      BY <3>1 DEF InnerOf, Whole
  <2> HIDE DEF ma, a
  <2>6. Now(l, Crown(ma, x, g, d), N, TCrown(a, x, g, d))
    BY <2>4, <2>5, <1>1, <1>2, CrownNow
  <2> QED
    BY <2>1, <2>2, <2>6 DEF StepOf
<1>9. CASE t[u][Red] # 1 /\ t[p][o] # x
  <2>1. InsertStep(s) = [m |-> Crown(m, p, g, d), x |-> x]
    BY <1>4, <1>5, <1>6, <1>9 DEF InsertStep
  <2>2. TStep(t, x, p, g, d, u) = [m |-> TCrown(t, p, g, d), x |-> x]
    BY <1>9 DEF TStep
  <2>3. Now(l, Crown(m, p, g, d), N, TCrown(t, p, g, d))
    BY <1>1, <1>3, CrownNow
  <2> QED
    BY <2>1, <2>2, <2>3 DEF StepOf
<1> QED
  BY <1>7, <1>8, <1>9

\* What InsertLoop leaves: a red node with a black parent.
LEMMA InsertLoopNow ==
  ASSUME NEW N, NEW l, NEW m, NEW t, NEW sub, NEW h, NEW K, NEW x, Now(l, m, N, t),
         InsInv(t, N, sub, h, K, x), IsFiniteSet(DOMAIN l)
  PROVE  \E u, sub2, k, y : /\ Now(l, InsertLoop(m, x), N, u)
                            /\ InsInv(u, N, sub2, k, K, y) /\ u[u[y][Parent]][Red] = 0
<1> DEFINE D == DOMAIN l
           V == Int \union {l[a] : a \in D}
           Fine(s) == /\ Now(l, s.m, N, View(s.m, N))
                      /\ \E sub2, k : /\ InsInv(View(s.m, N), N, sub2, k, K, s.x)
                                      /\ sub2 = sub \/ ~ParentRed(s)
           X == {s \in [m : [D -> V], x : N] : Fine(s)}
           T == {s \in X : ParentRed(s)}
           G == [s \in X |-> IF s \in T THEN InsertStep(s) ELSE s]
           r == [s \in X |-> Cardinality(sub[s.x])]
           s0 == [m |-> m, x |-> x]
           n == Rounds(m)
<1>1. /\ IsFiniteSet(N) /\ Cardinality(N) \in Nat /\ n \in Nat /\ Cardinality(N) + 2 <= n
  <2>1. DOMAIN m = D /\ Room(D, N)
    BY DEF Now, Same
  <2> QED
    BY <2>1, RoomFor DEF Rounds
<1>2. \A mm : (\E tt : Now(l, mm, N, tt)) => mm \in [D -> V] /\ Now(l, mm, N, View(mm, N))
  BY DEF Now, Same, IsMemory
<1>3. \A s \in X : s = [m |-> s.m, x |-> s.x] /\ s.x \in N /\ s.m \in [D -> V] /\ Fine(s)
  OBVIOUS
<1> HIDE DEF V, D
<1>4. ASSUME NEW s \in X
      PROVE  ParentRed(s) <=> View(s.m, N)[View(s.m, N)[s.x][Parent]][Red] = 1
  <2>1. PICK sub2, k : InsInv(View(s.m, N), N, sub2, k, K, s.x)
    BY <1>3
  <2>2. Shape(View(s.m, N), N, sub2) /\ s.x \in N /\ Now(l, s.m, N, View(s.m, N))
    BY <2>1, <1>3 DEF InsInv
  <2>3. s.m[s.m[s.x + Parent] + Red] = View(s.m, N)[View(s.m, N)[s.x][Parent]][Red]
    BY <2>2, ReadStep
  <2> QED
    BY <2>3 DEF ParentRed
<1>5. ASSUME NEW s \in T
      PROVE  InsertStep(s) \in X /\ (InsertStep(s) \in T =>
                Cardinality(sub[InsertStep(s).x]) >= Cardinality(sub[s.x]) + 1)
  <2> DEFINE a == View(s.m, N)
             p == a[s.x][Parent]
             g == a[p][Parent]
             d == Side(a, p)
             u == a[g][Opposite(d)]
             w == TStep(a, s.x, p, g, d, u)
             q == InsertStep(s)
  <2>1. s \in X /\ ParentRed(s) /\ Now(l, s.m, N, a)
    BY <1>3
  <2>2. PICK k : InsInv(a, N, sub, k, K, s.x)
    BY <2>1, <1>3
  <2>3. a[p][Red] = 1
    BY <2>1, <1>4
  <2> HIDE DEF a, p, g, d, u, w, q, X, T
  <2>4. /\ Now(l, q.m, N, w.m) /\ q.x = w.x /\ q = [m |-> q.m, x |-> q.x]
    <3>1. StepOf(l, N, InsertStep(s), TStep(a, s.x, p, g, d, u))
      BY <2>1, <2>2, <2>3, InsertStepNow DEF p, g, d, u
    <3> QED
      BY <3>1 DEF StepOf, w, q
  <2>5. Onward(w.m, N, sub, K, s.x, w.x)
    BY <2>2, <2>3, <1>1, InsStep DEF p, g, d, u, w
  <2>6. View(q.m, N) = w.m /\ q.m \in [D -> V] /\ Now(l, q.m, N, View(q.m, N))
    BY <2>4, <1>2 DEF Now
  <2>7. q.x \in N
    BY <2>4, <2>5 DEF Onward
  <2>8. PICK sub2, j : /\ InsInv(w.m, N, sub2, j, K, w.x)
                       /\ \/ sub2 = sub /\ Cardinality(sub[s.x]) + 1 <= Cardinality(sub[w.x])
                          \/ w.m[w.m[w.x][Parent]][Red] = 0
    BY <2>5 DEF Onward
  <2>9. ParentRed(q) <=> w.m[w.m[w.x][Parent]][Red] = 1
    <3>1. Shape(w.m, N, sub2) /\ w.x \in N
      BY <2>8 DEF InsInv
    <3>2. q.m[q.m[q.x + Parent] + Red] = w.m[w.m[w.x][Parent]][Red]
      BY <2>4, <3>1, ReadStep
    <3> QED
      BY <3>2 DEF ParentRed
  <2>10. sub2 = sub \/ ~ParentRed(q)
    BY <2>8, <2>9
  <2>11. InsInv(View(q.m, N), N, sub2, j, K, q.x)
    BY <2>4, <2>6, <2>8
  <2>12. Fine(q)
    BY <2>6, <2>10, <2>11
  <2>13. q \in X
    <3>1. q \in [m : [D -> V], x : N]
      BY <2>4, <2>6, <2>7
    <3> HIDE DEF Fine
    <3> QED
      BY <3>1, <2>12 DEF X
  <2>14. ParentRed(q) => Cardinality(sub[q.x]) >= Cardinality(sub[s.x]) + 1
    <3>1. ParentRed(q) => Cardinality(sub[s.x]) + 1 <= Cardinality(sub[w.x])
      BY <2>8, <2>9
    <3>2. Cardinality(sub[s.x]) \in Nat /\ Cardinality(sub[q.x]) \in Nat
      <4>1. \A y \in N : sub[y] \subseteq N
        BY <2>2 DEF InsInv, Shape, Subtrees
      <4>2. s.x \in N
        BY <2>2 DEF InsInv
      <4> QED
        BY <4>1, <4>2, <2>7, <1>1, FS_Subset, FS_CardinalityType
    <3> QED
      BY <3>1, <3>2, <2>4
  <2> QED
    BY <2>13, <2>14 DEF q, T
<1>6. s0 \in X
  <2>1. View(m, N) = t
    BY DEF Now
  <2>2. m \in [D -> V] /\ Now(l, m, N, View(m, N)) /\ x \in N
    BY <1>2 DEF InsInv
  <2>3. s0.m = m /\ s0.x = x
    OBVIOUS
  <2>4. Fine(s0)
    BY <2>1, <2>2, <2>3
  <2> HIDE DEF Fine
  <2> QED
    BY <2>2, <2>4
<1>7. /\ G \in [X -> X] /\ r \in [X -> Int]
      /\ \A s \in X : s \notin T => G[s] = s
      /\ \A s \in X : s \in T => G[s] = InsertStep(s)
      /\ \A s \in X : s \in T /\ G[s] \in T => r[G[s]] >= r[s] + 1
  <2>1. \A s \in X : Cardinality(sub[s.x]) \in Int
    <3>1. \A y \in N : sub[y] \subseteq N
      BY DEF InsInv, Shape, Subtrees
    <3>2. \A y \in N : Cardinality(sub[y]) \in Nat
      BY <3>1, <1>1, FS_Subset, FS_CardinalityType
    <3> QED
      BY <3>2, <1>3
  <2> HIDE DEF X
  <2>2. T \subseteq X
    OBVIOUS
  <2> HIDE DEF T
  <2>3. G \in [X -> X]
    BY <1>5
  <2>4. r \in [X -> Int]
    BY <2>1
  <2>5. \A s \in X : (s \notin T => G[s] = s) /\ (s \in T => G[s] = InsertStep(s))
    OBVIOUS
  <2>6. \A s \in X : r[s] = Cardinality(sub[s.x])
    OBVIOUS
  <2> HIDE DEF G, r
  <2>7. \A s \in X : s \in T /\ G[s] \in T => r[G[s]] >= r[s] + 1
    BY <1>5, <2>2, <2>5, <2>6
  <2> QED
    BY <2>3, <2>4, <2>5, <2>7
<1>8. \A s \in X : s \in T <=> ParentRed(s)
  OBVIOUS
<1>9. \A s \in X : r[s] = Cardinality(sub[s.x])
  OBVIOUS
<1> HIDE DEF X, T, G, r, s0, n
<1>10. PICK f \in [0 .. n -> X] :
         /\ f[0] = s0 /\ \A k \in 0 .. n : k # 0 => f[k] = G[f[k - 1]]
         /\ \A k \in 0 .. n : f[k] \notin T \/ r[f[k]] >= r[s0] + k
  <2>1. Steady(X, T, G, r)
    BY <1>7 DEF Steady
  <2>2. \E f : Rounded(f, X, T, G, r, s0, n)
    BY <2>1, <1>1, <1>6, LoopsTo
  <2> QED
    BY <2>2 DEF Rounded
<1> DEFINE F(g) == [k \in 0 .. n |->
                     IF k = 0 THEN s0 ELSE LET z == g[k - 1]
                                           IN  IF ParentRed(z) THEN InsertStep(z) ELSE z]
           w == CHOOSE g : g = F(g)
<1>11. InsertLoop(m, x) = (w[n]).m
  BY DEF InsertLoop, While, s0, n
<1>12. ASSUME NEW k \in 0 .. n, k # 0
       PROVE  f[k] = IF ParentRed(f[k - 1]) THEN InsertStep(f[k - 1]) ELSE f[k - 1]
  <2>1. k - 1 \in 0 .. n
    BY <1>1, <1>12
  <2>2. f[k - 1] \in X
    BY <2>1
  <2> QED
    BY <2>2, <1>7, <1>8, <1>10, <1>12
<1>13. f = F(f)
  <2>1. \A k \in 0 .. n : f[k] = F(f)[k]
    BY <1>10, <1>12
  <2> QED
    BY <2>1
<1>14. w = F(w)
  BY <1>13
<1> HIDE DEF w
<1>15. \A k \in 0 .. n : w[k] = IF k = 0 THEN s0
                         ELSE IF ParentRed(w[k - 1]) THEN InsertStep(w[k - 1]) ELSE w[k - 1]
  BY <1>14
<1>16. f[n] = w[n]
  <2>1. f[0] = w[0]
    BY <1>1, <1>10, <1>15
  <2>2. \A k \in 0 .. n : k # 0 /\ f[k - 1] = w[k - 1] => f[k] = w[k]
    BY <1>12, <1>15
  <2> QED
    BY <1>1, <2>1, <2>2, Alike
<1>17. f[n] \in X /\ ~ParentRed(f[n])
  <2>1. n \in 0 .. n /\ f[n] \in X
    BY <1>1
  <2>2. f[n] \notin T \/ r[f[n]] >= r[s0] + n
    BY <2>1, <1>10
  <2>3. r[f[n]] <= Cardinality(N) /\ r[s0] >= 0 /\ r[f[n]] \in Int /\ r[s0] \in Int
    <3>1. \A y \in N : sub[y] \subseteq N
      BY DEF InsInv, Shape, Subtrees
    <3>2. \A y \in N : Cardinality(sub[y]) \in Nat /\ Cardinality(sub[y]) <= Cardinality(N)
      BY <3>1, <1>1, FS_Subset, FS_CardinalityType
    <3> QED
      BY <3>2, <2>1, <1>3, <1>6, <1>9
  <2> QED
    BY <2>1, <2>2, <2>3, <1>1, <1>8
<1> DEFINE e == f[n]
           u == View(e.m, N)
<1>18. PICK sub2, k : InsInv(u, N, sub2, k, K, e.x)
  BY <1>3, <1>17
<1>19. Now(l, e.m, N, u)
  BY <1>3, <1>17
<1>20. u[u[e.x][Parent]][Red] = 0
  <2>1. u[u[e.x][Parent]][Red] # 1
    BY <1>4, <1>17
  <2>2. Typed(u, N) /\ e.x \in N
    BY <1>18 DEF InsInv, Shape
  <2> HIDE DEF u, e
  <2>3. u[e.x][Parent] \in N \union {RootNode}
    BY <2>2 DEF Typed
  <2> QED
    BY <2>1, <2>2, <2>3 DEF Typed
<1>21. Now(l, InsertLoop(m, x), N, u)
  BY <1>11, <1>16, <1>19
<1> HIDE DEF e, u
<1> QED
  BY <1>18, <1>20, <1>21

------------------------------------------------------------------------------
\* A tree in the memory: its nodes N, what is below each, its black heights and its keys.
Fit(m, N, sub, h, K) ==
  LET t == View(m, N)
  IN  /\ IsMemory(m) /\ IsFiniteSet(DOMAIN m) /\ Room(DOMAIN m, N)
      /\ Shape(t, N, sub) /\ Ordered(t, N, sub, K) /\ Even(t, N, h)
      /\ Calm(t, N, NilNode) /\ t[t[RootNode][Left]][Red] = 0
      /\ (\A x \in N : m[x] = K[x]) /\ m[RootNode] = 0
IsTree(m, N) == \E sub, h, K : Fit(m, N, sub, h, K)

\* What is below a node is below with its parent.
LEMMA ParentIn ==
  ASSUME NEW N, NEW t, NEW sub, Shape(t, N, sub), IsFiniteSet(N)
  PROVE  \A b \in N : \A c \in sub[b] : c # b => t[c][Parent] \in sub[b]
<1> DEFINE Q(b) == \A c \in sub[b] : c # b => t[c][Parent] \in sub[b]
           P == {n \in Nat : \A b \in N : Cardinality(sub[b]) <= n => Q(b)}
<1>1. /\ \A b \in N : /\ sub[b] = {b} \union sub[t[b][Left]] \union sub[t[b][Right]]
                      /\ b \notin sub[t[b][Left]] /\ b \notin sub[t[b][Right]]
      /\ sub[NilNode] = {}
      /\ \A b \in N : sub[b] \subseteq N /\ b \in sub[b]
  BY Below DEF Shape, Subtrees
<1>2. \A b \in N : Cardinality(sub[b]) \in Nat /\ Cardinality(sub[b]) # 0
  BY <1>1, FS_Subset, FS_CardinalityType, FS_EmptySet
<1>3. 0 \in P
  BY <1>2
<1>4. ASSUME NEW n \in P PROVE n + 1 \in P
  <2>1. ASSUME NEW b \in N, Cardinality(sub[b]) <= n + 1, NEW c \in sub[b], c # b
        PROVE  t[c][Parent] \in sub[b]
    <3>1. PICK d \in Dirs : c \in sub[t[b][d]]
      BY <2>1, <1>1 DEF Dirs
    <3>2. t[b][d] \in N
      BY <3>1, <1>1 DEF Shape, Typed
    <3>3. t[t[b][d]][Parent] = b /\ sub[t[b][d]] \subseteq sub[b] /\ b \notin sub[t[b][d]]
      BY <3>2, Below DEF Shape, Good
    <3>4. Cardinality(sub[t[b][d]]) <= n
      <4>1. Cardinality(sub[t[b][d]]) + 1 <= Cardinality(sub[b])
        BY <1>1, <3>3, Smaller
      <4> QED
        BY <4>1, <2>1, <3>2, <1>2
    <3>5. Q(t[b][d])
      BY <3>2, <3>4
    <3> QED
      BY <3>1, <3>3, <3>5, <1>1
  <2> QED
    BY <2>1
<1>5. P = Nat
  <2>1. P \in SUBSET Nat
    OBVIOUS
  <2> HIDE DEF P
  <2> QED
    BY <1>3, <1>4, <2>1, Induction
<1>6. \A b \in N : Q(b)
  BY <1>2, <1>5
<1> QED
  BY <1>6

\* key is on the way to y.
OnWay(t, N, sub, K, key, y) ==
  \A a \in N, d \in Dirs : y \in sub[t[a][d]] =>
     (d = Left /\ key >= K[a]) \/ (d = Right /\ key <= K[a])

LEMMA NextOnWay ==
  ASSUME NEW N, NEW t, NEW sub, NEW K, NEW key, NEW y, NEW w \in Dirs,
         Shape(t, N, sub), IsFiniteSet(N),
         y \in N \/ (y = RootNode /\ w = Left), y \in N => OnWay(t, N, sub, K, key, y),
         y \in N => (w = Left /\ key >= K[y]) \/ (w = Right /\ key <= K[y]),
         t[y][w] # NilNode
  PROVE  /\ t[y][w] \in N /\ OnWay(t, N, sub, K, key, t[y][w])
         /\ y \in N => Cardinality(sub[t[y][w]]) + 1 <= Cardinality(sub[y])
<1> DEFINE x == t[y][w]
<1>1. x \in N /\ t[x][Parent] = y
  BY DEF Shape, Typed, Links
<1>2. x # NilNode
  OBVIOUS
<1> HIDE DEF x
<1>3. ASSUME NEW a \in N, NEW d \in Dirs, x \in sub[t[a][d]]
      PROVE  (d = Left /\ key >= K[a]) \/ (d = Right /\ key <= K[a])
  <2>1. t[a][d] \in N
    BY <1>3 DEF Shape, Typed, Subtrees
  <2>2. CASE x = t[a][d]
    <3>1. a = y
      BY <2>2, <1>1, <1>2, Below
    <3>2. d = w
      <4>1. t[a][d] # t[a][Opposite(d)]
        BY <2>1, <2>2, <1>2, Below
      <4> QED
        BY <4>1, <3>1, <2>2, Opposites DEF x
    <3> QED
      BY <3>1, <3>2
  <2>3. CASE x # t[a][d]
    <3>1. y \in sub[t[a][d]]
      BY <2>1, <2>3, <1>1, <1>3, ParentIn
    <3>2. y \in N
      BY <3>1, <2>1, Below
    <3> QED
      BY <3>1, <3>2 DEF OnWay
  <2> QED
    BY <2>2, <2>3
<1>4. y \in N => Cardinality(sub[x]) + 1 <= Cardinality(sub[y])
  <2>1. CASE y \in N
    <3>1. sub[x] \subseteq sub[y] /\ y \notin sub[x] /\ y \in sub[y] /\ sub[y] \subseteq N
      BY <2>1, <1>1, <1>2, Below DEF x
    <3> QED
      BY <3>1, Smaller
  <2> QED
    BY <2>1
<1>5. OnWay(t, N, sub, K, key, x)
  BY <1>3 DEF OnWay
<1> QED
  BY <1>1, <1>4, <1>5 DEF x

\* Where a key is to be put: below y, on side w.
LeafOf(t, N, sub, K, key, y, w) ==
  /\ w \in Dirs /\ t[y][w] = NilNode
  /\ y \in N \/ (y = RootNode /\ w = Left)
  /\ y \in N => /\ OnWay(t, N, sub, K, key, y)
                /\ (w = Left /\ key >= K[y]) \/ (w = Right /\ key <= K[y])

LEMMA LeafNow ==
  ASSUME NEW N, NEW m, NEW sub, NEW h, NEW K, Fit(m, N, sub, h, K), NEW key \in Int, key > 0
  PROVE  LeafOf(View(m, N), N, sub, K, key, LeafFor(m, key), Way(m, LeafFor(m, key), key))
<1> DEFINE t == View(m, N)
           way(x) == Way(m, x, key)
           Fine(x) == x \in N => OnWay(t, N, sub, K, key, x)
           X == {x \in N \union {RootNode} : Fine(x)}
           T == {x \in X : m[x + way(x)] # NilNode}
           G == [x \in X |-> IF x \in T THEN m[x + way(x)] ELSE x]
           rank(x) == IF x = RootNode THEN -1 - Cardinality(N) ELSE - Cardinality(sub[x])
           r == [x \in X |-> rank(x)]
           n == Rounds(m)
<1>0. /\ IsMemory(m) /\ IsFiniteSet(DOMAIN m) /\ Room(DOMAIN m, N)
      /\ Shape(t, N, sub) /\ Ordered(t, N, sub, K)
      /\ (\A x \in N : m[x] = K[x]) /\ m[RootNode] = 0
  BY DEF Fit
<1>1. /\ IsFiniteSet(N) /\ Cardinality(N) \in Nat /\ n \in Nat /\ Cardinality(N) + 2 <= n
  BY <1>0, RoomFor DEF Rounds
<1>2. \A x \in Spots(N), d \in Dirs : m[x + d] = t[x][d]
  BY Viewed DEF Dirs, Fields, Red, Left, Right, Parent
<1> HIDE DEF t
<1>3. ASSUME NEW x \in N \union {RootNode}
      PROVE  /\ way(x) \in Dirs /\ m[x + way(x)] = t[x][way(x)]
             /\ x = RootNode => way(x) = Left
             /\ x \in N => (way(x) = Left /\ key >= K[x]) \/ (way(x) = Right /\ key <= K[x])
  <2>1. x \in N => K[x] \in Int /\ m[x] = K[x]
    BY <1>0 DEF Ordered
  <2>2. way(x) = (IF m[x] < key THEN Left ELSE Right)
    BY DEF Way
  <2>3. way(x) \in Dirs
    BY <2>2 DEF Dirs
  <2>4. RootNode \notin N
    BY <1>0 DEF Shape, Good
  <2>5. x \in Spots(N)
    BY DEF Spots
  <2> HIDE DEF way
  <2>6. x = RootNode => way(x) = Left
    BY <1>0, <2>2
  <2>7. x \in N => (way(x) = Left /\ key >= K[x]) \/ (way(x) = Right /\ key <= K[x])
    BY <2>1, <2>2
  <2> QED
    BY <1>2, <2>3, <2>5, <2>6, <2>7
<1>4. \A x \in N : Cardinality(sub[x]) \in Nat /\ Cardinality(sub[x]) # 0
                   /\ Cardinality(sub[x]) <= Cardinality(N)
  <2>1. \A x \in N : sub[x] \subseteq N /\ x \in sub[x]
    BY <1>0, Below
  <2> QED
    BY <2>1, <1>1, FS_Subset, FS_CardinalityType, FS_EmptySet
<1>5. RootNode \notin N
  BY <1>0 DEF Shape, Good
<1> HIDE DEF way
<1>6. ASSUME NEW x \in X, m[x + way(x)] # NilNode
      PROVE  m[x + way(x)] \in X /\ rank(m[x + way(x)]) >= rank(x) + 1
  <2> DEFINE z == m[x + way(x)]
  <2>1. x \in N \/ x = RootNode
    OBVIOUS
  <2>2. z = t[x][way(x)] /\ way(x) \in Dirs
    BY <2>1, <1>3
  <2>3. x \in N => OnWay(t, N, sub, K, key, x)
    OBVIOUS
  <2>4. t[x][way(x)] # NilNode
    BY <2>2, <1>6
  <2>5. /\ t[x][way(x)] \in N /\ OnWay(t, N, sub, K, key, t[x][way(x)])
        /\ x \in N => Cardinality(sub[t[x][way(x)]]) + 1 <= Cardinality(sub[x])
    BY <2>1, <2>2, <2>3, <2>4, <1>0, <1>1, <1>3, NextOnWay
  <2> HIDE DEF z
  <2>6. z \in N /\ OnWay(t, N, sub, K, key, z)
        /\ (x \in N => Cardinality(sub[z]) + 1 <= Cardinality(sub[x]))
    BY <2>2, <2>5
  <2>7. rank(z) >= rank(x) + 1
    BY <2>1, <2>6, <1>1, <1>4, <1>5
  <2>8. z \in X
    BY <2>6
  <2> QED
    BY <2>7, <2>8 DEF z
<1>7. \A x \in X : rank(x) \in Int /\ rank(x) <= -1 /\ rank(x) >= -1 - Cardinality(N)
  BY <1>1, <1>4, <1>5
<1>8. RootNode \in X
  BY <1>5
<1>9. \A x \in X : (x \in N \/ x = RootNode) /\ Fine(x) /\ x \in N \union {RootNode}
  OBVIOUS
<1> HIDE DEF rank, Fine, X
<1>10. /\ \A x \in X : x \in T <=> m[x + way(x)] # NilNode
       /\ T \subseteq X
  OBVIOUS
<1> HIDE DEF T
<1>11. Steady(X, T, G, r)
  <2>1. G \in [X -> X] /\ \A x \in X : G[x] = IF x \in T THEN m[x + way(x)] ELSE x
    BY <1>6, <1>10
  <2>2. r \in [X -> Int] /\ \A x \in X : r[x] = rank(x)
    BY <1>7
  <2> HIDE DEF G, r
  <2>3. \A x \in X : x \in T /\ G[x] \in T => r[G[x]] >= r[x] + 1
    BY <2>1, <2>2, <1>6, <1>10
  <2> QED
    BY <2>1, <2>2, <2>3 DEF Steady
<1>12. /\ \A x \in X : G[x] = IF x \in T THEN m[x + way(x)] ELSE x
       /\ \A x \in X : r[x] = rank(x)
  OBVIOUS
<1> HIDE DEF G, r, n
<1>13. PICK f : Rounded(f, X, T, G, r, RootNode, n)
  BY <1>1, <1>8, <1>11, LoopsTo
<1>14. /\ f \in [0 .. n -> X]
       /\ f[0] = RootNode /\ \A k \in 0 .. n : k # 0 => f[k] = G[f[k - 1]]
       /\ \A k \in 0 .. n : f[k] \notin T \/ r[f[k]] >= r[RootNode] + k
  BY <1>13 DEF Rounded
<1> DEFINE F(g) == [k \in 0 .. n |->
                     IF k = 0 THEN RootNode ELSE LET z == g[k - 1]
                           IN  IF m[z + Way(m, z, key)] # NilNode THEN m[z + Way(m, z, key)] ELSE z]
           w == CHOOSE g : g = F(g)
<1>15. LeafFor(m, key) = w[n]
  BY DEF LeafFor, While, n
<1>16. ASSUME NEW k \in 0 .. n, k # 0
       PROVE  f[k] = IF m[f[k - 1] + Way(m, f[k - 1], key)] # NilNode
                     THEN m[f[k - 1] + Way(m, f[k - 1], key)] ELSE f[k - 1]
  <2>1. k - 1 \in 0 .. n
    BY <1>1, <1>16
  <2>2. f[k - 1] \in X
    BY <2>1, <1>14
  <2> QED
    BY <2>2, <1>10, <1>12, <1>14, <1>16 DEF way
<1>17. f = F(f)
  <2>1. \A k \in 0 .. n : f[k] = F(f)[k]
    BY <1>14, <1>16
  <2> QED
    BY <2>1, <1>14
<1>18. w = F(w)
  BY <1>17
<1> HIDE DEF w
<1>19. \A k \in 0 .. n : w[k] = IF k = 0 THEN RootNode
                    ELSE IF m[w[k - 1] + Way(m, w[k - 1], key)] # NilNode
                         THEN m[w[k - 1] + Way(m, w[k - 1], key)] ELSE w[k - 1]
  BY <1>18
<1>20. f[n] = w[n]
  <2>1. f[0] = w[0]
    BY <1>1, <1>14, <1>19
  <2>2. \A k \in 0 .. n : k # 0 /\ f[k - 1] = w[k - 1] => f[k] = w[k]
    BY <1>16, <1>19
  <2> QED
    BY <1>1, <2>1, <2>2, Alike
<1>21. f[n] \in X /\ f[n] \notin T
  <2>1. n \in 0 .. n /\ f[n] \in X
    BY <1>1, <1>14
  <2>2. f[n] \notin T \/ r[f[n]] >= r[RootNode] + n
    BY <2>1, <1>14
  <2>3. r[f[n]] = rank(f[n]) /\ r[RootNode] = rank(RootNode)
    BY <2>1, <1>8, <1>12
  <2> QED
    BY <2>1, <2>2, <2>3, <1>1, <1>7, <1>8
<1> DEFINE y == LeafFor(m, key)
<1>22. y \in X /\ m[y + way(y)] = NilNode
  BY <1>10, <1>15, <1>20, <1>21
<1> HIDE DEF y
<1>23. y \in N \union {RootNode} /\ Fine(y)
  BY <1>9, <1>22
<1>24. LeafOf(t, N, sub, K, key, y, way(y))
  BY <1>3, <1>22, <1>23 DEF LeafOf, Fine
<1> QED
  BY <1>24 DEF y, way, t

\* u is t with the red leaf z below y, on side w.
Grows(t, u, N, y, w, z) ==
  /\ IsMap(u, N \union {z})
  /\ u[z][Red] = 1 /\ u[z][Left] = NilNode /\ u[z][Right] = NilNode /\ u[z][Parent] = y
  /\ \A x \in Spots(N) : /\ u[x][Red] = t[x][Red] /\ u[x][Parent] = t[x][Parent]
                         /\ \A d \in Dirs : u[x][d] = IF x = y /\ d = w THEN z ELSE t[x][d]
Calmed(t, N, sub, h, K) ==
  /\ Shape(t, N, sub) /\ Ordered(t, N, sub, K) /\ Even(t, N, h)
  /\ Calm(t, N, NilNode) /\ t[t[RootNode][Left]][Red] = 0

Extended(K, N, z, key) == [a \in N \union {z} |-> IF a = z THEN key ELSE K[a]]

LEMMA Grown ==
  ASSUME NEW N, NEW t, NEW sub, NEW h, NEW K, Calmed(t, N, sub, h, K), IsFiniteSet(N),
         NEW key \in Int, NEW y, NEW w, LeafOf(t, N, sub, K, key, y, w),
         NEW z, z \notin N, z # NilNode, z # RootNode, NEW u, Grows(t, u, N, y, w, z)
  PROVE  \E sub2, k : InsInv(u, N \union {z}, sub2, k, Extended(K, N, z, key), z)
<1> DEFINE M == N \union {z}
           v == [a \in M \union {NilNode} |-> IF a = z THEN {z} ELSE
                   IF y \in sub[a] THEN sub[a] \union {z} ELSE sub[a]]
           k == [a \in M \union {NilNode} |-> IF a = z THEN 0 ELSE h[a]]
           L == Extended(K, N, z, key)
<1>1. /\ Shape(t, N, sub) /\ Ordered(t, N, sub, K) /\ Even(t, N, h)
      /\ Calm(t, N, NilNode) /\ t[t[RootNode][Left]][Red] = 0
      /\ Good(N) /\ Typed(t, N) /\ Links(t, N) /\ Subtrees(t, N, sub)
  BY DEF Calmed, Shape
<1>2. /\ w \in Dirs /\ t[y][w] = NilNode
      /\ y \in N \/ (y = RootNode /\ w = Left)
      /\ y \in N => /\ OnWay(t, N, sub, K, key, y)
                    /\ (w = Left /\ key >= K[y]) \/ (w = Right /\ key <= K[y])
  BY DEF LeafOf
<1>3. /\ N \subseteq Spots(N) /\ NilNode \in Spots(N) /\ RootNode \in Spots(N)
      /\ NilNode \notin N /\ RootNode \notin N /\ NilNode # RootNode
      /\ y \in Spots(N) /\ y # z /\ y # NilNode /\ z \in M /\ N \subseteq M
      /\ NilNode \notin M /\ RootNode \notin M
      /\ \A x \in M : x \in N \/ x = z
  BY <1>1, <1>2 DEF Spots, Good, NilNode, RootNode
<1>4. /\ u[z][Red] = 1 /\ u[z][Left] = NilNode /\ u[z][Right] = NilNode /\ u[z][Parent] = y
      /\ \A x \in Spots(N) : /\ u[x][Red] = t[x][Red] /\ u[x][Parent] = t[x][Parent]
                             /\ \A d \in Dirs : u[x][d] = IF x = y /\ d = w THEN z ELSE t[x][d]
      /\ IsMap(u, M)
  BY DEF Grows
<1>5. u[y][w] = z /\ (\A d \in Dirs : u[z][d] = NilNode)
      /\ \A x \in N, d \in Dirs : u[x][d] = IF x = y /\ d = w THEN z ELSE t[x][d]
  BY <1>2, <1>3, <1>4 DEF Dirs
<1>6. u[RootNode][Left] = IF y = RootNode THEN z ELSE t[RootNode][Left]
  BY <1>2, <1>3, <1>4, Opposites
<1> HIDE DEF M, v, k, L
<1>7. Typed(u, M)
  <2>1. ASSUME NEW x \in N
        PROVE  /\ u[x][Red] \in {0, 1} /\ u[x][Parent] \in M \union {RootNode}
               /\ \A d \in Dirs : u[x][d] \in M \union {NilNode}
    BY <1>1, <1>3, <1>4 DEF Typed
  <2>2. /\ u[z][Red] \in {0, 1} /\ u[z][Parent] \in M \union {RootNode}
        /\ \A d \in Dirs : u[z][d] \in M \union {NilNode}
    BY <1>2, <1>3, <1>4, <1>5
  <2>3. u[RootNode][Left] \in M \union {NilNode} /\ u[NilNode][Red] = 0 /\ u[RootNode][Red] = 0
    BY <1>1, <1>3, <1>4, <1>6 DEF Typed
  <2> QED
    BY <2>1, <2>2, <2>3, <1>3 DEF Typed
<1>8. Links(u, M)
  <2>1. ASSUME NEW x \in M, NEW d \in Dirs, u[x][d] # NilNode PROVE u[u[x][d]][Parent] = x
    <3>1. x \in N
      BY <2>1, <1>3, <1>5
    <3>2. CASE x = y /\ d = w
      BY <3>2, <1>4, <1>5
    <3>3. CASE ~(x = y /\ d = w)
      <4>1. u[x][d] = t[x][d]
        BY <3>1, <3>3, <1>5
      <4>2. t[x][d] \in Spots(N) /\ t[t[x][d]][Parent] = x
        BY <4>1, <3>1, <2>1, <1>1, <1>3 DEF Typed, Links
      <4> QED
        BY <4>1, <4>2, <1>4
    <3> QED
      BY <3>2, <3>3
  <2>2. u[RootNode][Left] # NilNode => u[u[RootNode][Left]][Parent] = RootNode
    <3>1. CASE y = RootNode
      BY <3>1, <1>4, <1>6
    <3>2. CASE y # RootNode
      <4>1. t[RootNode][Left] # NilNode => t[RootNode][Left] \in Spots(N)
                                           /\ t[t[RootNode][Left]][Parent] = RootNode
        BY <1>1, <1>3 DEF Typed, Links
      <4> QED
        BY <3>2, <4>1, <1>4, <1>6
    <3> QED
      BY <3>1, <3>2
  <2>3. ASSUME NEW x \in M
        PROVE  \/ u[x][Parent] = RootNode /\ u[RootNode][Left] = x
               \/ u[x][Parent] \in M /\ \E d \in Dirs : u[u[x][Parent]][d] = x
    <3>1. CASE x = z
      BY <3>1, <1>2, <1>3, <1>4, <1>5, <1>6
    <3>2. CASE x \in N
      <4>1. u[x][Parent] = t[x][Parent] /\ x # z /\ x # NilNode
        BY <3>2, <1>3, <1>4
      <4>2. \/ t[x][Parent] = RootNode /\ t[RootNode][Left] = x
            \/ t[x][Parent] \in N /\ \E d \in Dirs : t[t[x][Parent]][d] = x
        BY <3>2, <1>1 DEF Links
      <4>3. CASE t[x][Parent] = RootNode /\ t[RootNode][Left] = x
        <5>1. y # RootNode
          BY <4>1, <4>3, <1>2, <1>3
        <5> QED
          BY <4>1, <4>3, <5>1, <1>6
      <4>4. ASSUME t[x][Parent] \in N, NEW d \in Dirs, t[t[x][Parent]][d] = x
            PROVE  u[x][Parent] \in M /\ u[u[x][Parent]][d] = x
        BY <4>1, <4>4, <1>2, <1>3, <1>5
      <4> QED
        BY <4>2, <4>3, <4>4
    <3> QED
      BY <3>1, <3>2, <1>3
  <2> QED
    BY <2>1, <2>2, <2>3 DEF Links
<1>9. /\ \A a \in N \union {NilNode} : v[a] = IF y \in sub[a] THEN sub[a] \union {z} ELSE sub[a]
      /\ v[z] = {z} /\ v \in [M \union {NilNode} -> SUBSET M]
  <2>1. \A a \in N \union {NilNode} : sub[a] \subseteq N
    BY <1>1 DEF Subtrees
  <2> QED
    BY <2>1, <1>3 DEF v, M
<1>10. /\ sub[NilNode] = {} /\ sub[t[RootNode][Left]] = N
       /\ \A x \in N : /\ sub[x] = {x} \union sub[t[x][Left]] \union sub[t[x][Right]]
                       /\ x \notin sub[t[x][Left]] /\ x \notin sub[t[x][Right]]
                       /\ sub[t[x][Left]] \intersect sub[t[x][Right]] = {}
                       /\ sub[x] \subseteq N
       /\ \A x \in N, d \in Dirs : t[x][d] \in N \union {NilNode}
  BY <1>1 DEF Subtrees, Typed
<1>11. ASSUME NEW a \in N, NEW d \in Dirs
       PROVE  v[u[a][d]] = IF y \in sub[t[a][d]] \/ (a = y /\ d = w) THEN sub[t[a][d]] \union {z}
                           ELSE sub[t[a][d]]
  <2>1. CASE a = y /\ d = w
    <3>1. u[a][d] = z /\ sub[t[a][d]] = {} /\ v[z] = {z}
      BY <2>1, <1>2, <1>5, <1>9, <1>10
    <3> QED
      BY <2>1, <3>1
  <2>2. CASE ~(a = y /\ d = w)
    <3>1. u[a][d] = t[a][d] /\ t[a][d] \in N \union {NilNode}
      BY <2>2, <1>5, <1>10
    <3>2. v[t[a][d]] = IF y \in sub[t[a][d]] THEN sub[t[a][d]] \union {z} ELSE sub[t[a][d]]
      BY <3>1, <1>9
    <3> QED
      BY <2>2, <3>1, <3>2
  <2> QED
    BY <2>1, <2>2
<1>12. Subtrees(u, M, v)
  <2>1. v[NilNode] = {}
    BY <1>9, <1>10
  <2>2. v[u[RootNode][Left]] = M
    <3>1. CASE y = RootNode
      <4>1. N = {}
        BY <3>1, <1>2, <1>3, <1>10
      <4> QED
        BY <3>1, <4>1, <1>6, <1>9 DEF M
    <3>2. CASE y # RootNode
      <4>1. y \in N /\ t[RootNode][Left] \in N \union {NilNode}
        BY <3>2, <1>1, <1>2 DEF Typed
      <4> QED
        BY <3>2, <4>1, <1>6, <1>9, <1>10 DEF M
    <3> QED
      BY <3>1, <3>2
  <2>3. ASSUME NEW x \in N
        PROVE  /\ v[x] = {x} \union v[u[x][Left]] \union v[u[x][Right]]
               /\ x \notin v[u[x][Left]] /\ x \notin v[u[x][Right]]
               /\ v[u[x][Left]] \intersect v[u[x][Right]] = {}
    <3> DEFINE s1 == sub[t[x][Left]]
               s2 == sub[t[x][Right]]
    <3>1. /\ v[u[x][Left]] = IF y \in s1 \/ (x = y /\ w = Left) THEN s1 \union {z} ELSE s1
          /\ v[u[x][Right]] = IF y \in s2 \/ (x = y /\ w = Right) THEN s2 \union {z} ELSE s2
      BY <1>11, Opposites
    <3>2. v[x] = IF y \in sub[x] THEN sub[x] \union {z} ELSE sub[x]
      BY <1>9
    <3>3. /\ sub[x] = {x} \union s1 \union s2 /\ x \notin s1 /\ x \notin s2
          /\ s1 \intersect s2 = {} /\ z \notin s1 /\ z \notin s2 /\ z # x
      BY <1>10
    <3> HIDE DEF s1, s2
    <3>4. w = Left \/ w = Right
      BY <1>2 DEF Dirs
    <3>5. Left # Right
      BY DEF Left, Right
    <3>6. CASE x = y
      <4>1. y \notin s1 /\ y \notin s2 /\ y \in sub[x]
        BY <3>3, <3>6
      <4> QED
        BY <3>1, <3>2, <3>3, <3>4, <3>5, <3>6, <4>1
    <3>7. CASE x # y /\ y \in s1
      <4>1. y \notin s2 /\ y \in sub[x]
        BY <3>3, <3>7
      <4> QED
        BY <3>1, <3>2, <3>3, <3>7, <4>1
    <3>8. CASE x # y /\ y \notin s1
      BY <3>1, <3>2, <3>3, <3>8
    <3> QED
      BY <3>6, <3>7, <3>8
  <2>4. /\ v[z] = {z} \union v[u[z][Left]] \union v[u[z][Right]]
        /\ z \notin v[u[z][Left]] /\ z \notin v[u[z][Right]]
        /\ v[u[z][Left]] \intersect v[u[z][Right]] = {}
    BY <2>1, <1>4, <1>9
  <2> QED
    BY <2>1, <2>2, <2>3, <2>4, <1>3, <1>9 DEF Subtrees
<1>13. Ordered(u, M, v, L)
  <2>1. L \in [M -> Int] /\ L[z] = key /\ \A a \in N : L[a] = K[a] /\ K[a] \in Int
    BY <1>1, <1>3 DEF L, Ordered, Extended, M
  <2>2. ASSUME NEW x \in N, NEW d \in Dirs, NEW a \in v[u[x][d]]
        PROVE  Beside(L, d, a, x)
    <3>1. a \in sub[t[x][d]] \/ (a = z /\ (y \in sub[t[x][d]] \/ (x = y /\ d = w)))
      <4>1. v[u[x][d]] = IF y \in sub[t[x][d]] \/ (x = y /\ d = w) THEN sub[t[x][d]] \union {z}
                         ELSE sub[t[x][d]]
        BY <1>11
      <4> QED
        BY <2>2, <4>1
    <3>2. CASE a \in sub[t[x][d]]
      <4>1. Beside(K, d, a, x) /\ a \in N
        BY <3>2, <1>1, <1>10 DEF Ordered
      <4> QED
        BY <4>1, <2>1 DEF Beside
    <3>3. CASE a = z /\ y \in sub[t[x][d]]
      <4>1. y \in N
        BY <3>3, <1>10
      <4>2. (d = Left /\ key >= K[x]) \/ (d = Right /\ key <= K[x])
        BY <3>3, <4>1, <1>2 DEF OnWay
      <4> QED
        BY <3>3, <4>2, <2>1 DEF Beside, Left, Right
    <3>4. CASE a = z /\ x = y /\ d = w
      BY <3>4, <2>1, <1>2 DEF Beside, Left, Right
    <3> QED
      BY <3>1, <3>2, <3>3, <3>4
  <2>3. \A d \in Dirs : v[u[z][d]] = {}
    <3>1. v[NilNode] = {}
      BY <1>9, <1>10
    <3> QED
      BY <3>1, <1>5
  <2> QED
    BY <2>1, <2>2, <2>3, <1>3 DEF Ordered
<1>14. Even(u, M, k)
  <2>1. /\ h \in [N \union {NilNode} -> Nat] /\ h[NilNode] = 0
        /\ \A x \in N, d \in Dirs : h[x] = h[t[x][d]] + 1 - t[x][Red]
    BY <1>1 DEF Even
  <2>2. k \in [M \union {NilNode} -> Nat] /\ k[z] = 0
        /\ \A a \in N \union {NilNode} : k[a] = h[a] /\ h[a] \in Nat
    BY <2>1, <1>3 DEF k, M
  <2>3. ASSUME NEW x \in N, NEW d \in Dirs PROVE k[x] = k[u[x][d]] + 1 - u[x][Red]
    <3>1. k[u[x][d]] = h[t[x][d]]
      <4>1. CASE x = y /\ d = w
        BY <4>1, <2>1, <2>2, <1>2, <1>5
      <4>2. CASE ~(x = y /\ d = w)
        BY <4>2, <2>2, <1>5, <1>10
      <4> QED
        BY <4>1, <4>2
    <3>2. k[x] = h[x] /\ u[x][Red] = t[x][Red]
      BY <2>2, <1>3, <1>4
    <3> QED
      BY <3>1, <3>2, <2>1
  <2>4. \A d \in Dirs : k[z] = k[u[z][d]] + 1 - u[z][Red]
    BY <2>1, <2>2, <1>4, <1>5
  <2>5. k[NilNode] = 0
    BY <2>1, <2>2
  <2> QED
    BY <2>2, <2>3, <2>4, <2>5, <1>3 DEF Even
<1>15. Calm(u, M, z)
  <2>1. \A x \in N, d \in Dirs : t[x][Red] = 1 /\ t[x][d] # NilNode => t[t[x][d]][Red] = 0
    BY <1>1 DEF Calm
  <2>2. t[NilNode][Red] = 0
    BY <1>1 DEF Typed
  <2>3. ASSUME NEW x \in M, NEW d \in Dirs, u[x][Red] = 1, u[x][d] # z
        PROVE  u[u[x][d]][Red] = 0
    <3>1. CASE x = z
      BY <3>1, <2>2, <1>3, <1>4, <1>5
    <3>2. CASE x \in N
      <4>1. u[x][d] = t[x][d] /\ t[x][d] \in Spots(N) /\ t[x][Red] = 1
        BY <2>3, <3>2, <1>3, <1>4, <1>5, <1>10
      <4> QED
        BY <4>1, <3>2, <2>1, <2>2, <1>4
    <3> QED
      BY <3>1, <3>2, <1>3
  <2> QED
    BY <2>3 DEF Calm
<1>16. Rooted(u, z)
  <2>1. t[RootNode][Left] \in Spots(N)
    BY <1>1, <1>3 DEF Typed
  <2> QED
    BY <2>1, <1>1, <1>4, <1>6 DEF Rooted
<1>17. Shape(u, M, v)
  BY <1>3, <1>4, <1>7, <1>8, <1>12 DEF Shape, Good
<1>18. Level(u, M, k, NilNode, Left)
  BY <1>3, <1>7, <1>14, Gapless
<1>19. InsInv(u, M, v, k, L, z)
  BY <1>3, <1>4, <1>13, <1>15, <1>16, <1>17, <1>18 DEF InsInv
<1> QED
  BY <1>19 DEF L, M

LEMMA HelpNow ==
  ASSUME NEW N, NEW m, NEW z, z \notin N, IsMemory(m), Room(DOMAIN m, N \union {z}),
         NEW y, NEW w \in Dirs, y \in N \/ y = RootNode,
         y = LeafFor(m, m[z]), w = Way(m, y, m[z]), NEW n, n = [tree_insert_help(m, z) EXCEPT ![z + Red] = 1]
  PROVE  /\ Now(m, n, N \union {z}, View(n, N \union {z}))
         /\ Grows(View(m, N), View(n, N \union {z}), N, y, w, z)
<1> DEFINE M == N \union {z}
           t0 == View(m, M)
           m1 == Poke(m, z + Left, NilNode)
           m2 == Poke(m1, z + Right, NilNode)
           m3 == Poke(m2, z + Parent, y)
           m4 == Poke(m3, y + w, z)
           m5 == Poke(m4, z + Red, 1)
           t1 == Put(t0, z, Left, NilNode)
           t2 == Put(t1, z, Right, NilNode)
           t3 == Put(t2, z, Parent, y)
           t4 == Put(t3, y, w, z)
           t5 == Put(t4, z, Red, 1)
<1>1. tree_insert_help(m, z) = m4
  BY DEF tree_insert_help, Poke
<1>2. n = m5
  BY <1>1 DEF Poke
<1>3. /\ z \in Spots(M) /\ y \in Spots(M) /\ N \subseteq M /\ Spots(N) \subseteq Spots(M)
      /\ Left \in Fields /\ Right \in Fields /\ Parent \in Fields /\ Red \in Fields /\ w \in Fields
      /\ Dirs \subseteq Fields
  BY DEF Spots, Fields, Red, Left, Right, Parent, Dirs
<1>4. y \in Int /\ z \in Int /\ NilNode \in Int /\ z \notin {NilNode, RootNode}
  BY DEF Room, NilNode, RootNode, Good
<1>5. y # z
  BY <1>4
<1>6. Now(m, m, M, t0)
  BY DEF Now, Same
<1> HIDE DEF M, t0, m1, m2, m3, m4, m5, t1, t2, t3, t4, t5
<1>7. IsMap(t0, M)
  BY <1>6, ReadNow
<1>8. Now(m, m1, M, t1) /\ IsMap(t1, M)
  BY <1>3, <1>4, <1>6, PokeNow, ReadNow DEF m1, t1
<1>9. Now(m, m2, M, t2) /\ IsMap(t2, M)
  BY <1>3, <1>4, <1>8, PokeNow, ReadNow DEF m2, t2
<1>10. Now(m, m3, M, t3) /\ IsMap(t3, M)
  BY <1>3, <1>4, <1>9, PokeNow, ReadNow DEF m3, t3
<1>11. Now(m, m4, M, t4) /\ IsMap(t4, M)
  BY <1>3, <1>4, <1>10, PokeNow, ReadNow DEF m4, t4
<1>12. Now(m, m5, M, t5) /\ IsMap(t5, M)
  <2>1. 1 \in Int
    OBVIOUS
  <2> QED
    BY <2>1, <1>3, <1>4, <1>11, PokeNow, ReadNow DEF m5, t5
<1>13. /\ \A x \in Spots(M), g \in Fields : t1[x][g] = IF x = z /\ g = Left THEN NilNode ELSE t0[x][g]
       /\ \A x \in Spots(M), g \in Fields : t2[x][g] = IF x = z /\ g = Right THEN NilNode ELSE t1[x][g]
       /\ \A x \in Spots(M), g \in Fields : t3[x][g] = IF x = z /\ g = Parent THEN y ELSE t2[x][g]
  BY <1>3, <1>7, <1>8, <1>9, PutFields DEF t1, t2, t3
<1>14. /\ \A x \in Spots(M), g \in Fields : t4[x][g] = IF x = y /\ g = w THEN z ELSE t3[x][g]
       /\ \A x \in Spots(M), g \in Fields : t5[x][g] = IF x = z /\ g = Red THEN 1 ELSE t4[x][g]
  BY <1>3, <1>10, <1>11, PutFields DEF t4, t5
<1>15. \A x \in Spots(N), g \in Fields : t0[x][g] = View(m, N)[x][g]
  BY <1>3 DEF t0, View
<1>16. /\ t5[z][Red] = 1 /\ t5[z][Left] = NilNode /\ t5[z][Right] = NilNode /\ t5[z][Parent] = y
  BY <1>3, <1>5, <1>13, <1>14 DEF Red, Left, Right, Parent
<1>17. z \notin Spots(N)
  BY <1>4 DEF Spots
<1>18. \A x \in Spots(N), g \in Fields : t5[x][g] = IF x = y /\ g = w THEN z ELSE View(m, N)[x][g]
  BY <1>3, <1>13, <1>14, <1>15, <1>17
<1>19. w # Red /\ w # Parent
  BY DEF Dirs, Red, Left, Right, Parent
<1>20. Grows(View(m, N), t5, N, y, w, z)
  <2>1. \A x \in Spots(N) : t5[x][Red] = View(m, N)[x][Red] /\ t5[x][Parent] = View(m, N)[x][Parent]
    BY <1>3, <1>18, <1>19
  <2>2. \A x \in Spots(N), d \in Dirs : t5[x][d] = IF x = y /\ d = w THEN z ELSE View(m, N)[x][d]
    BY <1>3, <1>18
  <2> QED
    BY <2>1, <2>2, <1>12, <1>16 DEF Grows, M
<1>21. View(n, M) = t5
  BY <1>2, <1>12 DEF Now
<1> QED
  BY <1>2, <1>12, <1>20, <1>21 DEF M

\* The root of the tree is made black.
LEMMA RootBlackNow ==
  ASSUME NEW N, NEW l, NEW m, NEW t, NEW sub, NEW h, NEW K, NEW y, Now(l, m, N, t),
         InsInv(t, N, sub, h, K, y), t[t[y][Parent]][Red] = 0
  PROVE  \E u, k : Now(l, RootBlack(m), N, u) /\ Calmed(u, N, sub, k, K)
<1> DEFINE b == t[RootNode][Left]
           u == Put(t, b, Red, 0)
           k == [h EXCEPT ![b] = @ + t[b][Red]]
<1>1. /\ Shape(t, N, sub) /\ Ordered(t, N, sub, K) /\ Level(t, N, h, NilNode, Left)
      /\ Calm(t, N, y) /\ y \in N /\ Typed(t, N) /\ Links(t, N)
      /\ NilNode \notin N /\ RootNode \notin N /\ sub[NilNode] = {} /\ sub[b] = N
  BY DEF InsInv, Shape, Good, Subtrees
<1>2. b \in N /\ RootNode \in Spots(N) /\ N \subseteq Spots(N)
  BY <1>1 DEF Typed, Spots
<1>3. Even(t, N, h)
  BY <1>1, Gapless
<1>4. m[RootNode + Left] = b
  BY <1>2, ReadNow DEF Fields, Red, Left, Parent
<1> HIDE DEF b, u, k
<1>5. Now(l, RootBlack(m), N, u)
  <2>1. RootBlack(m) = Poke(m, b + Red, 0)
    BY <1>4 DEF RootBlack, Poke
  <2>2. b \in Spots(N) /\ Red \in Fields /\ 0 \in Int
    BY <1>2 DEF Fields, Red, Parent
  <2> QED
    BY <2>1, <2>2, PokeNow DEF u
<1>6. /\ Shape(u, N, sub) /\ Ordered(u, N, sub, K)
      /\ \A z \in Spots(N), d \in Dirs : u[z][d] = t[z][d]
      /\ \A z \in Spots(N) : u[z][Red] = IF z = b THEN 0 ELSE t[z][Red]
  <2>1. 0 \in Colours
    BY DEF Colours
  <2> QED
    BY <2>1, <1>1, <1>2, Recolour DEF u
<1>7. t[b][Red] \in {0, 1} /\ t[b][Parent] = RootNode
  BY <1>1, <1>2 DEF Typed, Links, b
<1>8. \A z \in N, d \in Dirs : t[z][d] # b /\ t[z][d] \in N \union {NilNode} /\ t[z][d] \in Spots(N)
  <2>1. \A z \in N, d \in Dirs : t[z][d] # NilNode => t[t[z][d]][Parent] = z
    BY <1>1 DEF Links
  <2>2. \A z \in N, d \in Dirs : t[z][d] \in N \union {NilNode} /\ t[z][d] \in Spots(N)
    BY <1>1 DEF Typed, Spots
  <2> QED
    BY <2>1, <2>2, <1>1, <1>2, <1>7
<1>9. Even(u, N, k)
  <2>1. /\ h \in [N \union {NilNode} -> Nat] /\ h[NilNode] = 0
        /\ \A z \in N, d \in Dirs : h[z] = h[t[z][d]] + 1 - t[z][Red]
    BY <1>3 DEF Even
  <2>2. k = [z \in N \union {NilNode} |-> IF z = b THEN h[z] + t[b][Red] ELSE h[z]]
    BY <2>1, <1>2 DEF k
  <2>3. \A z \in N \union {NilNode} : k[z] \in Nat /\ k[z] = IF z = b THEN h[z] + t[b][Red] ELSE h[z]
    BY <2>1, <2>2, <1>7
  <2>4. k \in [N \union {NilNode} -> Nat] /\ k[NilNode] = 0
    BY <2>1, <2>2, <2>3, <1>1, <1>2
  <2> HIDE DEF k
  <2>5. ASSUME NEW z \in N, NEW d \in Dirs PROVE k[z] = k[u[z][d]] + 1 - u[z][Red]
    <3>1. k[u[z][d]] = h[t[z][d]] /\ h[t[z][d]] \in Nat /\ t[z][d] \in N \union {NilNode}
      BY <2>1, <2>3, <1>2, <1>6, <1>8
    <3>2. h[z] = h[t[z][d]] + 1 - t[z][Red]
      BY <2>1
    <3>3. CASE z = b
      <4>1. k[z] = h[z] + t[z][Red] /\ u[z][Red] = 0
        BY <3>3, <2>3, <1>2, <1>6
      <4> QED
        BY <3>1, <3>2, <3>3, <4>1, <1>7
    <3>4. CASE z # b
      <4>1. k[z] = h[z] /\ u[z][Red] = t[z][Red]
        BY <3>4, <2>3, <1>2, <1>6
      <4> QED
        BY <3>1, <3>2, <4>1
    <3> QED
      BY <3>3, <3>4
  <2> QED
    BY <2>4, <2>5 DEF Even
<1>10. Calm(u, N, NilNode)
  <2>1. ASSUME NEW z \in N, NEW d \in Dirs, u[z][Red] = 1, u[z][d] # NilNode
        PROVE  u[u[z][d]][Red] = 0
    <3>1. u[z][d] = t[z][d] /\ t[z][Red] = 1 /\ u[t[z][d]][Red] = t[t[z][d]][Red]
      BY <2>1, <1>2, <1>6, <1>8
    <3>2. t[z][d] # y
      <4>1. t[t[z][d]][Parent] = z
        BY <2>1, <3>1, <1>1 DEF Links
      <4> QED
        BY <3>1, <4>1
    <3> QED
      BY <3>1, <3>2, <1>1 DEF Calm
  <2> QED
    BY <2>1 DEF Calm
<1>11. u[u[RootNode][Left]][Red] = 0
  BY <1>2, <1>6, Opposites DEF b
<1>12. Calmed(u, N, sub, k, K)
  BY <1>6, <1>9, <1>10, <1>11 DEF Calmed
<1> QED
  BY <1>5, <1>12

\* Inserting keeps a red-black tree and adds the node to it.
THEOREM InsertKeeps ==
  ASSUME NEW N, NEW m, IsTree(m, N), NEW z, z \notin N, Room(DOMAIN m, N \union {z}),
         m[z] \in Int, m[z] > 0
  PROVE  IsTree(rbt_insert(m, z), N \union {z}) /\ Same(m, rbt_insert(m, z), N \union {z})
<1> DEFINE M == N \union {z}
           key == m[z]
           t == View(m, N)
           y == LeafFor(m, key)
           w == Way(m, y, key)
           n == [tree_insert_help(m, z) EXCEPT ![z + Red] = 1]
           u == View(n, M)
<1>1. PICK sub, h, K : Fit(m, N, sub, h, K)
  BY DEF IsTree
<1>2. /\ IsMemory(m) /\ IsFiniteSet(DOMAIN m) /\ Room(DOMAIN m, N) /\ Calmed(t, N, sub, h, K)
      /\ (\A x \in N : m[x] = K[x]) /\ m[RootNode] = 0 /\ K \in [N -> Int]
  BY <1>1 DEF Fit, Calmed, Ordered
<1>3. LeafOf(t, N, sub, K, key, y, w)
  BY <1>1, LeafNow
<1>4. w \in Dirs /\ (y \in N \/ y = RootNode)
  BY <1>3 DEF LeafOf
<1>5. Now(m, n, M, u) /\ Grows(t, u, N, y, w, z)
  BY <1>2, <1>4, HelpNow
<1>6. IsFiniteSet(N) /\ z # NilNode /\ z # RootNode
  BY <1>2, RoomFor DEF Room, Good
<1> HIDE DEF n, u, t, y, w
<1> DEFINE J == Extended(K, N, z, key)
<1>8. J \in [M -> Int] /\ \A a \in M : J[a] = m[a]
  BY <1>2 DEF Extended
<1> HIDE DEF J
<1>9. PICK sub2, h2 : InsInv(u, M, sub2, h2, J, z)
  BY <1>2, <1>3, <1>5, <1>6, Grown DEF J
<1>10. PICK u3, sub3, h3, x : /\ Now(m, InsertLoop(n, z), M, u3)
                              /\ InsInv(u3, M, sub3, h3, J, x) /\ u3[u3[x][Parent]][Red] = 0
  BY <1>2, <1>5, <1>9, InsertLoopNow
<1> DEFINE p == InsertLoop(n, z)
           q == RootBlack(p)
<1>11. rbt_insert(m, z) = q
  BY DEF rbt_insert, n
<1> HIDE DEF p, q, M
<1>12. PICK u4, h4 : Now(m, q, M, u4) /\ Calmed(u4, M, sub3, h4, J)
  BY <1>10, RootBlackNow DEF p, q
<1>13. /\ IsMemory(q) /\ DOMAIN q = DOMAIN m /\ View(q, M) = u4 /\ Room(DOMAIN m, M) /\ Same(m, q, M)
  BY <1>12 DEF Now, Same
<1>14. \A x2 \in M \union {RootNode} : q[x2] = m[x2]
  <2>1. ASSUME NEW a \in M \union {RootNode}, NEW b \in Spots(M), NEW f \in Fields
        PROVE  a # b + f /\ a \in DOMAIN m
    <3>1. a \in Spots(M) /\ a \in Int /\ b \in Int
      BY <1>13 DEF Spots, Room, NilNode, RootNode
    <3>2. a + 0 \in DOMAIN m /\ a + 0 = a
      BY <3>1, <1>13 DEF Room, Parent
    <3>3. (a < b => a + NodeWords <= b) /\ (b < a => b + NodeWords <= a)
      BY <3>1, <1>13 DEF Room
    <3> QED
      BY <3>1, <3>2, <3>3 DEF Fields, Red, Parent, NodeWords
  <2> TAKE a \in M \union {RootNode}
  <2>2. a \in DOMAIN m /\ \A b \in Spots(M), f \in Fields : a # b + f
    <3>1. RootNode \in Spots(M) /\ Red \in Fields
      BY DEF Spots, Fields, Red, Parent
    <3> QED
      BY <2>1, <3>1
  <2> QED
    BY <2>2, <1>13 DEF Same
<1>15. Fit(q, M, sub3, h4, J)
  BY <1>2, <1>8, <1>12, <1>13, <1>14 DEF Fit, Calmed
<1> QED
  BY <1>11, <1>13, <1>15 DEF IsTree, M

------------------------------------------------------------------------------
LEMMA PutSame ==
  ASSUME NEW N, NEW t, IsMap(t, N), NEW x \in Spots(N), NEW f \in Fields
  PROVE  Put(t, x, f, t[x][f]) = t
BY DEF Put, IsMap

\* The ways down through x are one black node short, at side D of its parent P, and x may
\* clash with its neighbours if it is red.
CalmBut(t, N, x) ==
  \A z \in N, d \in Dirs : t[z][Red] = 1 /\ t[z][d] # x /\ z # x => t[t[z][d]][Red] = 0
Uneven(t, N, sub, h, K, P, D, x) ==
  /\ Shape(t, N, sub) /\ Ordered(t, N, sub, K) /\ Level(t, N, h, P, D)
  /\ CalmBut(t, N, x) /\ Rooted(t, x) /\ x \in N \union {NilNode}
  /\ \/ P = RootNode /\ t[RootNode][Left] = x
     \/ P \in N /\ D \in Dirs /\ t[P][D] = x

\* A red x, or one that is the root, is made black, and the tree is balanced.
LEMMA Settled ==
  ASSUME NEW N, NEW t, NEW sub, NEW h, NEW K, NEW P, NEW D, NEW x,
         Uneven(t, N, sub, h, K, P, D, x), t[x][Red] = 1 \/ P = RootNode
  PROVE  \E k : Calmed(Put(t, x, Red, 0), N, sub, k, K)
<1> DEFINE u == Put(t, x, Red, 0)
           k == [h EXCEPT ![x] = @ + t[x][Red]]
<1>1. /\ Shape(t, N, sub) /\ Ordered(t, N, sub, K) /\ Level(t, N, h, P, D)
      /\ CalmBut(t, N, x) /\ Rooted(t, x) /\ x \in N \union {NilNode}
      /\ (P = RootNode /\ t[RootNode][Left] = x) \/ (P \in N /\ D \in Dirs /\ t[P][D] = x)
      /\ Typed(t, N) /\ Links(t, N) /\ IsMap(t, N)
      /\ NilNode \notin N /\ RootNode \notin N /\ sub[NilNode] = {} /\ sub[t[RootNode][Left]] = N
  <2>1. /\ Shape(t, N, sub) /\ Ordered(t, N, sub, K) /\ Level(t, N, h, P, D)
        /\ CalmBut(t, N, x) /\ Rooted(t, x) /\ x \in N \union {NilNode}
        /\ (P = RootNode /\ t[RootNode][Left] = x) \/ (P \in N /\ D \in Dirs /\ t[P][D] = x)
    BY DEF Uneven
  <2>2. Good(N) /\ IsMap(t, N) /\ Typed(t, N) /\ Links(t, N) /\ Subtrees(t, N, sub)
    BY <2>1 DEF Shape
  <2>3. sub[NilNode] = {} /\ sub[t[RootNode][Left]] = N
    BY <2>2 DEF Subtrees
  <2> QED
    BY <2>1, <2>2, <2>3 DEF Good
<1>2. /\ h \in [N \union {NilNode} -> Nat] /\ h[NilNode] = 0
      /\ \A z \in N, d \in Dirs : h[z] = h[t[z][d]] + 1 - t[z][Red] + Gap(P, D, z, d)
  BY <1>1 DEF Level
<1>3. CASE x = NilNode
  <2>1. t[x][Red] = 0 /\ N = {} /\ t[RootNode][Left] = NilNode
    BY <1>1, <1>3 DEF Typed
  <2>2. u = t
    BY <2>1, <1>1, <1>3, PutSame DEF Spots, Fields, Red, Parent
  <2>3. Even(t, N, h) /\ Calm(t, N, NilNode)
    BY <2>1, <1>2 DEF Even, Calm
  <2>4. Calmed(t, N, sub, h, K)
    BY <2>1, <2>3, <1>1, <1>3 DEF Calmed
  <2> QED
    BY <2>2, <2>4
<1>4. CASE x \in N
  <2>1. /\ Shape(u, N, sub) /\ Ordered(u, N, sub, K)
        /\ \A z \in Spots(N), d \in Dirs : u[z][d] = t[z][d]
        /\ \A z \in Spots(N) : u[z][Red] = IF z = x THEN 0 ELSE t[z][Red]
    <3>1. 0 \in Colours
      BY DEF Colours
    <3> HIDE DEF u
    <3> QED
      BY <3>1, <1>1, <1>4, Recolour DEF u
  <2>2. t[x][Red] \in {0, 1} /\ N \subseteq Spots(N) /\ RootNode \in Spots(N)
    BY <1>1, <1>4 DEF Typed, Spots
  <2>3. \A z \in N, d \in Dirs : /\ t[z][d] \in N \union {NilNode} /\ t[z][d] \in Spots(N)
                                 /\ t[z][d] = x => z = P /\ d = D /\ P \in N
    <3>1. \A z \in N, d \in Dirs : t[z][d] \in N \union {NilNode} /\ t[z][d] \in Spots(N)
      BY <1>1 DEF Typed, Spots
    <3>2. \A z \in N, d \in Dirs : t[z][d] = x => t[x][Parent] = z /\ t[z][Opposite(d)] # x
      BY <1>1, <1>4, Below
    <3>3. P = RootNode => t[x][Parent] = RootNode
      BY <1>1, <1>4 DEF Links
    <3>4. P \in N => D \in Dirs /\ t[P][D] = x
      BY <1>1
    <3> QED
      BY <3>1, <3>2, <3>3, <3>4, <1>1, Opposites
  <2>4. P # x
    BY <1>1, <1>4, Below
  <2>5. k = [z \in N \union {NilNode} |-> IF z = x THEN h[z] + t[x][Red] ELSE h[z]]
    BY <1>2, <1>4
  <2>6. \A z \in N \union {NilNode} : k[z] \in Nat /\ k[z] = IF z = x THEN h[z] + t[x][Red] ELSE h[z]
    BY <1>2, <2>2, <2>5
  <2>7. k \in [N \union {NilNode} -> Nat] /\ k[NilNode] = 0
    BY <1>1, <1>2, <1>4, <2>5, <2>6
  <2> HIDE DEF u, k
  <2>8. ASSUME NEW z \in N, NEW d \in Dirs PROVE k[z] = k[u[z][d]] + 1 - u[z][Red]
    <3> DEFINE c == t[z][d]
    <3>1. u[z][d] = c /\ c \in N \union {NilNode} /\ h[c] \in Nat /\ h[z] \in Nat
          /\ (t[z][Red] = 0 \/ t[z][Red] = 1)
      BY <1>1, <1>2, <2>1, <2>2, <2>3 DEF Typed
    <3>2. h[z] = h[c] + 1 - t[z][Red] + Gap(P, D, z, d)
      BY <1>2
    <3>3. c = x => z = P /\ d = D /\ P \in N
      BY <2>3
    <3> HIDE DEF c
    <3>4. CASE c = x
      <4>1. Gap(P, D, z, d) = 1 /\ t[x][Red] = 1 /\ z # x
        BY <3>3, <3>4, <1>1, <2>4 DEF Gap
      <4>2. k[c] = h[c] + 1 /\ k[z] = h[z] /\ u[z][Red] = t[z][Red]
        BY <3>4, <4>1, <2>1, <2>2, <2>6, <1>4
      <4> QED
        BY <3>1, <3>2, <4>1, <4>2
    <3>5. CASE c # x
      <4>1. Gap(P, D, z, d) = 0
        <5>1. ~(z = P /\ d = D)
          BY <3>5, <1>1 DEF c
        <5> QED
          BY <5>1 DEF Gap
      <4>2. k[c] = h[c]
        BY <3>1, <3>5, <2>6
      <4>3. CASE z = x
        <5>1. k[z] = h[z] + t[z][Red] /\ u[z][Red] = 0
          BY <4>3, <2>1, <2>2, <2>6
        <5> QED
          BY <3>1, <3>2, <4>1, <4>2, <5>1
      <4>4. CASE z # x
        <5>1. k[z] = h[z] /\ u[z][Red] = t[z][Red]
          BY <4>4, <2>1, <2>2, <2>6
        <5> QED
          BY <3>1, <3>2, <4>1, <4>2, <5>1
      <4> QED
        BY <4>3, <4>4
    <3> QED
      BY <3>4, <3>5
  <2>9. Even(u, N, k)
    BY <2>7, <2>8 DEF Even
  <2>10. Calm(u, N, NilNode)
    <3>1. ASSUME NEW z \in N, NEW d \in Dirs, u[z][Red] = 1 PROVE u[u[z][d]][Red] = 0
      <4>1. u[z][d] = t[z][d] /\ z # x /\ t[z][Red] = 1 /\ t[z][d] \in Spots(N)
        BY <3>1, <2>1, <2>2, <2>3
      <4> QED
        BY <4>1, <2>1, <1>1 DEF CalmBut
    <3> QED
      BY <3>1 DEF Calm
  <2>11. u[u[RootNode][Left]][Red] = 0
    <3>1. u[RootNode][Left] = t[RootNode][Left] /\ t[RootNode][Left] \in Spots(N)
      BY <2>1, <2>2, <1>1, Opposites DEF Typed, Spots
    <3> QED
      BY <3>1, <2>1, <1>1 DEF Rooted
  <2>12. Calmed(u, N, sub, k, K)
    BY <2>1, <2>9, <2>10, <2>11 DEF Calmed
  <2> QED
    BY <2>12 DEF u
<1> QED
  BY <1>1, <1>3, <1>4

\* The ways down through x are one black node short, and x is black and not the root.
Active(t, N, sub, h, K, P, D, x) ==
  /\ Balanced(t, N, sub, h, K, P, D, NilNode)
  /\ x \in N \union {NilNode} /\ t[x][Red] = 0 /\ P \in N /\ D \in Dirs /\ t[P][D] = x

LEMMA UnevenActive ==
  ASSUME NEW N, NEW t, NEW sub, NEW h, NEW K, NEW P, NEW D, NEW x,
         Uneven(t, N, sub, h, K, P, D, x), t[x][Red] = 0, P # RootNode
  PROVE  Active(t, N, sub, h, K, P, D, x)
<1>1. /\ Shape(t, N, sub) /\ Ordered(t, N, sub, K) /\ Level(t, N, h, P, D)
      /\ CalmBut(t, N, x) /\ Rooted(t, x) /\ x \in N \union {NilNode}
      /\ P \in N /\ D \in Dirs /\ t[P][D] = x
  BY DEF Uneven
<1>2. Calm(t, N, NilNode)
  <2>1. ASSUME NEW z \in N, NEW d \in Dirs, t[z][Red] = 1 PROVE t[t[z][d]][Red] = 0
    BY <2>1, <1>1 DEF CalmBut
  <2> QED
    BY <2>1 DEF Calm
<1>3. Rooted(t, NilNode)
  BY <1>1 DEF Rooted
<1> QED
  BY <1>1, <1>2, <1>3 DEF Active, Balanced

\* The sibling s of x has more black nodes below, so it is there.
SiblingOf(t, N, sub, h, P, D, x, o, s) ==
  /\ o \in Dirs /\ o # D /\ Opposite(o) = D /\ s \in N /\ s # P /\ s # x /\ P # x
  /\ t[s][Parent] = P /\ Side(t, s) = o /\ h[s] = h[x] + 1 /\ h[x] \in Nat
  /\ h[P] = h[s] + 1 - t[P][Red]
  /\ sub[s] \subseteq sub[P] /\ P \notin sub[s]
  /\ D = (IF t[P][Left] = x THEN Left ELSE Right)

LEMMA Sibling ==
  ASSUME NEW N, NEW t, NEW sub, NEW h, NEW K, NEW P, NEW D, NEW x,
         Active(t, N, sub, h, K, P, D, x), NEW o, o = Opposite(D), NEW s, s = t[P][o]
  PROVE  SiblingOf(t, N, sub, h, P, D, x, o, s)
<1>1. /\ Shape(t, N, sub) /\ Level(t, N, h, P, D)
      /\ x \in N \union {NilNode} /\ t[x][Red] = 0 /\ P \in N /\ D \in Dirs /\ t[P][D] = x
  BY DEF Active, Balanced
<1>2. Typed(t, N) /\ NilNode \notin N
  BY <1>1 DEF Shape, Good
<1>3. /\ h \in [N \union {NilNode} -> Nat] /\ h[NilNode] = 0
      /\ \A z \in N, d \in Dirs : h[z] = h[t[z][d]] + 1 - t[z][Red] + Gap(P, D, z, d)
  BY <1>1 DEF Level
<1>4. o \in Dirs /\ o # D /\ Opposite(o) = D
  BY <1>1, Opposites
<1>5. h[P] = h[x] + 1 - t[P][Red] + 1
  BY <1>1, <1>3 DEF Gap
<1>6. h[P] = h[s] + 1 - t[P][Red]
  <2>1. Gap(P, D, P, o) = 0
    BY <1>4 DEF Gap
  <2>2. h[P] = h[t[P][o]] + 1 - t[P][Red] + Gap(P, D, P, o)
    BY <1>1, <1>3, <1>4
  <2>3. s \in N \union {NilNode} /\ t[P][Red] \in {0, 1}
    BY <1>1, <1>2, <1>4 DEF Typed
  <2>4. h[s] \in Nat
    BY <2>3, <1>3
  <2> QED
    BY <2>1, <2>2, <2>3, <2>4
<1>7. h[s] = h[x] + 1 /\ h[x] \in Nat /\ s \in N
  <2>1. s \in N \union {NilNode} /\ (t[P][Red] = 0 \/ t[P][Red] = 1)
    BY <1>1, <1>2, <1>4 DEF Typed
  <2>2. h[s] \in Nat /\ h[x] \in Nat
    BY <2>1, <1>1, <1>3
  <2>3. h[s] = h[x] + 1
    BY <2>1, <2>2, <1>5, <1>6
  <2> QED
    BY <2>1, <2>2, <2>3, <1>3
<1>8. s # NilNode
  BY <1>2, <1>7
<1>9. /\ t[s][Parent] = P /\ s # P /\ sub[s] \subseteq sub[P] /\ P \notin sub[s]
      /\ t[P][o] # t[P][Opposite(o)]
  BY <1>1, <1>4, <1>8, Below
<1>10. s # x
  BY <1>1, <1>4, <1>9
<1>11. P # x
  <2>1. x # NilNode => t[P][D] # P
    BY <1>1, Below
  <2> QED
    BY <2>1, <1>1, <1>2
<1>12. (D = Left /\ o = Right) \/ (D = Right /\ o = Left)
  BY <1>1 DEF Dirs, Opposite, Left, Right
<1>13. Left # Right
  BY DEF Left, Right
<1>14. D = (IF t[P][Left] = x THEN Left ELSE Right)
  BY <1>1, <1>10, <1>12, <1>13
<1>15. Side(t, s) = o
  BY <1>1, <1>9, <1>10, <1>12, <1>13 DEF Side
<1> QED
  BY <1>4, <1>6, <1>7, <1>9, <1>10, <1>11, <1>14, <1>15 DEF SiblingOf

\* A red sibling: its child next to x becomes the sibling, and P red.
LiftedTo(t, u, N, K, P, D, x, s) ==
  /\ \E sub, h : Active(u, N, sub, h, K, P, D, x)
  /\ u[P][Red] = 1 /\ u[u[P][Opposite(D)]][Red] = 0
  /\ u[RootNode][Left] = (IF t[RootNode][Left] = P THEN s ELSE t[RootNode][Left])
  /\ \A z \in N : z # P /\ t[z][Red] = 0 => u[z][Red] = 0

LEMMA Lifted ==
  ASSUME NEW N, NEW t, NEW sub, NEW h, NEW K, NEW P, NEW D, NEW x,
         Active(t, N, sub, h, K, P, D, x), NEW o, o = Opposite(D), NEW s, s = t[P][o], t[s][Red] = 1
  PROVE  LiftedTo(t, TCrown(t, s, P, o), N, K, P, D, x, s)
<1> DEFINE u == TCrown(t, s, P, o)
<1>1. /\ Shape(t, N, sub) /\ Ordered(t, N, sub, K) /\ Level(t, N, h, P, D)
      /\ Calm(t, N, NilNode) /\ Rooted(t, NilNode)
      /\ x \in N \union {NilNode} /\ t[x][Red] = 0 /\ P \in N /\ D \in Dirs /\ t[P][D] = x
  BY DEF Active, Balanced
<1>2. SiblingOf(t, N, sub, h, P, D, x, o, s)
  BY Sibling
<1>3. /\ o \in Dirs /\ o # D /\ Opposite(o) = D /\ s \in N /\ s # P /\ s # x /\ P # x
      /\ h[s] = h[x] + 1 /\ h[x] \in Nat
  BY <1>2 DEF SiblingOf
<1>4. Typed(t, N) /\ NilNode \notin N
  BY <1>1 DEF Shape, Good
<1>5. t[P][Red] = 0
  <2>1. t[P][Red] = 1 => t[s][Red] = 0
    BY <1>1, <1>3, <1>4 DEF Calm
  <2> QED
    BY <2>1, <1>1, <1>4 DEF Typed
<1>6. \A d \in Dirs : t[t[s][d]][Red] = 0
  BY <1>1, <1>3, <1>4 DEF Calm, Typed
<1>7. t[P][Parent] # P
  BY <1>1, Above
<1>8. Crownable(t, N, sub, h, K, P, D, NilNode, P, o, s)
  <2>1. NilNode # P
    BY <1>1, <1>4
  <2> QED
    BY <2>1, <1>1, <1>3, <1>5, <1>6, <1>7 DEF Crownable
<1>9. CrownsTo(u, N, K, P, D, NilNode) /\ CrownOf(t, u, N, P, o, s)
  BY <1>8, CrownedTo
<1> HIDE DEF u
<1>10. /\ u[P][o] = t[s][D] /\ u[P][D] = x
       /\ u[RootNode][Left] = (IF t[RootNode][Left] = P THEN s ELSE t[RootNode][Left])
       /\ \A z \in Spots(N) : u[z][Red] = IF z = P THEN 1 ELSE IF z = s THEN 0 ELSE t[z][Red]
  BY <1>1, <1>3, <1>9 DEF CrownOf
<1>11. PICK sub2, h2 : Balanced(u, N, sub2, h2, K, P, D, NilNode)
  BY <1>9 DEF CrownsTo
<1>12. N \subseteq Spots(N) /\ NilNode \in Spots(N)
  BY DEF Spots
<1>13. u[x][Red] = 0 /\ u[P][Red] = 1
  BY <1>1, <1>3, <1>10, <1>12
<1>14. u[t[s][D]][Red] = 0
  <2>1. t[s][D] \in N \union {NilNode} /\ t[t[s][D]][Red] = 0
    BY <1>1, <1>3, <1>4, <1>6 DEF Typed
  <2>2. t[s][D] # P
    <3>1. t[s][D] # NilNode => t[t[s][D]][Parent] = s
      BY <1>1, <1>3, Below
    <3>2. sub[t[s][D]] \subseteq sub[s] /\ (t[s][D] \in N => t[s][D] \in sub[t[s][D]]) /\ P \notin sub[s]
      <4>1. P \notin sub[s]
        BY <1>2 DEF SiblingOf
      <4>2. t[s][D] \in N => t[s][D] \in sub[t[s][D]]
        BY <1>1, Below
      <4>3. sub[t[s][D]] \subseteq sub[s]
        BY <1>1, <1>3 DEF Shape, Subtrees, Dirs
      <4> QED
        BY <4>1, <4>2, <4>3
    <3> QED
      BY <3>2, <1>1
  <2> QED
    BY <2>1, <2>2, <1>10, <1>12
<1>15. \A z \in N : z # P /\ t[z][Red] = 0 => u[z][Red] = 0
  BY <1>10, <1>12
<1>16. Active(u, N, sub2, h2, K, P, D, x)
  BY <1>1, <1>10, <1>11, <1>13 DEF Active
<1>17. u[u[P][Opposite(D)]][Red] = 0
  BY <1>10, <1>14
<1> QED
  BY <1>10, <1>13, <1>15, <1>16, <1>17 DEF LiftedTo, u

\* A black sibling with black children becomes red, and P takes the place of x.
LEMMA Leaned ==
  ASSUME NEW N, NEW t, NEW sub, NEW h, NEW K, NEW P, NEW D, NEW x,
         Active(t, N, sub, h, K, P, D, x), NEW o, o = Opposite(D), NEW w, w = t[P][o],
         t[w][Red] = 0, t[t[w][Left]][Red] = 0, t[t[w][Right]][Red] = 0
  PROVE  /\ \E k : Uneven(Put(t, w, Red, 1), N, sub, k, K, t[P][Parent], Side(t, P), P)
         /\ Put(t, w, Red, 1)[P][Red] = t[P][Red]
         /\ Put(t, w, Red, 1)[RootNode][Left] = t[RootNode][Left]
         /\ sub[x] \subseteq sub[P] /\ P \notin sub[x]
<1> DEFINE u == Put(t, w, Red, 1)
           q == t[P][Parent]
           e == Side(t, P)
           k == [h EXCEPT ![w] = @ - 1, ![P] = @ - 1]
<1>1. /\ Shape(t, N, sub) /\ Ordered(t, N, sub, K) /\ Level(t, N, h, P, D)
      /\ Calm(t, N, NilNode) /\ Rooted(t, NilNode)
      /\ x \in N \union {NilNode} /\ t[x][Red] = 0 /\ P \in N /\ D \in Dirs /\ t[P][D] = x
  BY DEF Active, Balanced
<1>2. SiblingOf(t, N, sub, h, P, D, x, o, w)
  BY Sibling
<1>3. /\ o \in Dirs /\ o # D /\ Opposite(o) = D /\ w \in N /\ w # P /\ w # x /\ P # x
      /\ h[w] = h[x] + 1 /\ h[x] \in Nat /\ h[P] = h[w] + 1 - t[P][Red] /\ t[w][Parent] = P
      /\ sub[w] \subseteq sub[P] /\ P \notin sub[w]
  BY <1>2 DEF SiblingOf
<1>4. Typed(t, N) /\ NilNode \notin N /\ RootNode \notin N
  BY <1>1 DEF Shape, Good
<1>5. /\ h \in [N \union {NilNode} -> Nat] /\ h[NilNode] = 0
      /\ \A z \in N, d \in Dirs : h[z] = h[t[z][d]] + 1 - t[z][Red] + Gap(P, D, z, d)
  BY <1>1 DEF Level
<1>6. /\ q \in N \union {RootNode} /\ q # P /\ e \in Dirs /\ t[q][e] = P
      /\ q = RootNode => t[RootNode][Left] = P
      /\ q \in N => q \notin sub[P]
  BY <1>1, Above
<1>7. q # w
  <2>1. w \in sub[w]
    BY <1>1, <1>3, Below
  <2> QED
    BY <2>1, <1>3, <1>6, <1>4
<1>8. /\ Shape(u, N, sub) /\ Ordered(u, N, sub, K)
      /\ \A z \in Spots(N), d \in Dirs : u[z][d] = t[z][d]
      /\ \A z \in Spots(N) : u[z][Red] = IF z = w THEN 1 ELSE t[z][Red]
  <2>1. 1 \in Colours
    BY DEF Colours
  <2> HIDE DEF u
  <2> QED
    BY <2>1, <1>1, <1>3, Recolour DEF u
<1>9. k = [z \in N \union {NilNode} |-> IF z = P \/ z = w THEN h[z] - 1 ELSE h[z]]
  BY <1>3, <1>5
<1>10. t[P][Red] = 0 \/ t[P][Red] = 1
  BY <1>1, <1>4 DEF Typed
<1>11. \A z \in N \union {NilNode} : k[z] = (IF z = P \/ z = w THEN h[z] - 1 ELSE h[z]) /\ k[z] \in Nat
  <2> TAKE z \in N \union {NilNode}
  <2>1. k[z] = (IF z = P \/ z = w THEN h[z] - 1 ELSE h[z])
    BY <1>9
  <2>2. h[P] \in Nat /\ h[w] \in Nat /\ h[z] \in Nat
    BY <1>1, <1>3, <1>5
  <2>3. h[P] - 1 \in Nat /\ h[w] - 1 \in Nat
    BY <2>2, <1>3, <1>10
  <2> QED
    BY <2>1, <2>2, <2>3
<1>12. k \in [N \union {NilNode} -> Nat] /\ k[NilNode] = 0
  BY <1>1, <1>3, <1>4, <1>5, <1>9, <1>11
<1>13. N \subseteq Spots(N) /\ RootNode \in Spots(N) /\ NilNode \in Spots(N)
  BY DEF Spots
<1> HIDE DEF u, q, e, k
<1>14. \A z \in N, d \in Dirs : /\ t[z][d] \in N \union {NilNode}
                                /\ t[z][d] = w => z = P /\ d = o
                                /\ t[z][d] = P => z = q /\ d = e
  <2>1. \A z \in N, d \in Dirs : t[z][d] \in N => t[t[z][d]][Parent] = z /\ t[z][d] # t[z][Opposite(d)]
    BY <1>1, <1>4, Below
  <2>2. \A z \in N, d \in Dirs : t[z][d] = w => z = P /\ d = o
    BY <2>1, <1>1, <1>3, Opposites
  <2>3. \A z \in N, d \in Dirs : t[z][d] = P => z = q /\ d = e
    BY <2>1, <1>1, <1>6, Opposites DEF q
  <2> QED
    BY <2>2, <2>3, <1>4 DEF Typed
<1>15. Level(u, N, k, q, e)
  <2>1. ASSUME NEW z \in N, NEW d \in Dirs
        PROVE  k[z] = k[u[z][d]] + 1 - u[z][Red] + Gap(q, e, z, d)
    <3> DEFINE c == t[z][d]
    <3>1. u[z][d] = c /\ c \in N \union {NilNode} /\ h[c] \in Nat /\ h[z] \in Nat
          /\ (t[z][Red] = 0 \/ t[z][Red] = 1)
      BY <1>5, <1>8, <1>13, <1>14, <1>4 DEF Typed
    <3>2. h[z] = h[c] + 1 - t[z][Red] + Gap(P, D, z, d)
      BY <1>5
    <3>3. (c = w => z = P /\ d = o) /\ (c = P => z = q /\ d = e) /\ (z = P /\ d = o => c = w)
          /\ (z = q /\ d = e => c = P)
      BY <1>6, <1>14
    <3> HIDE DEF c
    <3>4. CASE z = w
      <4>1. c # w /\ c # P /\ Gap(P, D, z, d) = 0 /\ Gap(q, e, z, d) = 0
        BY <3>3, <3>4, <1>3, <1>7 DEF Gap
      <4>2. k[z] = h[z] - 1 /\ k[c] = h[c] /\ u[z][Red] = 1 /\ t[z][Red] = 0
        BY <3>1, <3>4, <4>1, <1>8, <1>11, <1>13
      <4> QED
        BY <3>1, <3>2, <4>1, <4>2
    <3>5. CASE z = P
      <4>1. c # P /\ Gap(q, e, z, d) = 0 /\ k[z] = h[z] - 1 /\ u[z][Red] = t[z][Red]
        BY <3>3, <3>5, <1>3, <1>6, <1>8, <1>11, <1>13 DEF Gap
      <4>2. CASE d = o
        <5>1. c = w /\ Gap(P, D, z, d) = 0 /\ k[c] = h[c] - 1
          BY <3>1, <3>3, <3>5, <4>2, <1>3, <1>11 DEF Gap
        <5> QED
          BY <3>1, <3>2, <4>1, <5>1
      <4>3. CASE d = D
        <5>1. c # w /\ Gap(P, D, z, d) = 1 /\ k[c] = h[c]
          BY <3>1, <3>3, <3>5, <4>1, <4>3, <1>3, <1>11 DEF Gap
        <5> QED
          BY <3>1, <3>2, <4>1, <5>1
      <4> QED
        BY <4>2, <4>3, <1>1, <1>3, Opposites
    <3>6. CASE z # P /\ z # w
      <4>1. c # w /\ Gap(P, D, z, d) = 0 /\ k[z] = h[z] /\ u[z][Red] = t[z][Red]
        BY <3>3, <3>6, <1>8, <1>11, <1>13 DEF Gap
      <4>2. CASE c = P
        <5>1. Gap(q, e, z, d) = 1 /\ k[c] = h[c] - 1
          BY <3>1, <3>3, <4>2, <1>11 DEF Gap
        <5> QED
          BY <3>1, <3>2, <4>1, <5>1
      <4>3. CASE c # P
        <5>1. Gap(q, e, z, d) = 0
          BY <3>3, <4>3 DEF Gap
        <5>2. k[c] = h[c]
          BY <3>1, <4>1, <4>3, <1>11
        <5> QED
          BY <3>1, <3>2, <4>1, <5>1, <5>2
      <4> QED
        BY <4>2, <4>3
    <3> QED
      BY <3>4, <3>5, <3>6
  <2> QED
    BY <2>1, <1>12 DEF Level
<1>16. CalmBut(u, N, P)
  <2>1. ASSUME NEW z \in N, NEW d \in Dirs, u[z][Red] = 1, u[z][d] # P, z # P
        PROVE  u[u[z][d]][Red] = 0
    <3>1. u[z][d] = t[z][d] /\ t[z][d] \in Spots(N) /\ t[z][d] # w
      BY <2>1, <1>8, <1>13, <1>14
    <3>2. CASE z = w
      <4>1. t[t[z][d]][Red] = 0
        BY <3>2 DEF Dirs
      <4> QED
        BY <3>1, <4>1, <1>8
    <3>3. CASE z # w
      <4>1. t[z][Red] = 1 /\ (t[z][d] # NilNode => t[t[z][d]][Red] = 0)
        BY <2>1, <3>3, <1>1, <1>8, <1>13 DEF Calm
      <4> QED
        BY <3>1, <4>1, <1>4, <1>8 DEF Typed
    <3> QED
      BY <3>2, <3>3
  <2> QED
    BY <2>1 DEF CalmBut
<1>17. u[RootNode][Left] = t[RootNode][Left] /\ u[P][Red] = t[P][Red]
  BY <1>1, <1>3, <1>8, <1>13, Opposites
<1>18. Rooted(u, P)
  <2>1. t[RootNode][Left] \in N \union {NilNode} /\ t[t[RootNode][Left]][Red] = 0
    BY <1>1, <1>4 DEF Rooted, Typed
  <2>2. t[RootNode][Left] # w
    <3>1. t[RootNode][Left] = w => t[w][Parent] = RootNode
      BY <1>1, <1>3, <1>4 DEF Shape, Links
    <3> QED
      BY <3>1, <1>1, <1>3, <1>4
  <2> QED
    BY <2>1, <2>2, <1>8, <1>13, <1>17 DEF Rooted
<1>19. (q = RootNode /\ u[RootNode][Left] = P) \/ (q \in N /\ e \in Dirs /\ u[q][e] = P)
  BY <1>6, <1>8, <1>13, <1>17
<1>20. Uneven(u, N, sub, k, K, q, e, P)
  BY <1>1, <1>8, <1>15, <1>16, <1>18, <1>19 DEF Uneven
<1>21. sub[x] \subseteq sub[P] /\ P \notin sub[x]
  BY <1>1 DEF Shape, Subtrees, Dirs
<1> QED
  BY <1>17, <1>20, <1>21 DEF u, q, e

\* The one red child of the sibling, next to x, takes its place, and it becomes red.
AwayTo(t, u, N, K, P, D, x) ==
  /\ \E sub, h : Active(u, N, sub, h, K, P, D, x)
  /\ u[u[P][Opposite(D)]][Red] = 0 /\ u[u[u[P][Opposite(D)]][Opposite(D)]][Red] = 1
  /\ u[RootNode][Left] = t[RootNode][Left]
  /\ \A z \in N : z # t[P][Opposite(D)] /\ t[z][Red] = 0 => u[z][Red] = 0

LEMMA Aways ==
  ASSUME NEW N, NEW t, NEW sub, NEW h, NEW K, NEW P, NEW D, NEW x,
         Active(t, N, sub, h, K, P, D, x), NEW o, o = Opposite(D), NEW w, w = t[P][o],
         t[w][Red] = 0, t[t[w][D]][Red] = 1, t[t[w][o]][Red] = 0
  PROVE  AwayTo(t, TCrown(t, t[w][D], w, D), N, K, P, D, x)
<1> DEFINE r == t[w][D]
           u == TCrown(t, r, w, D)
<1>1. /\ Shape(t, N, sub) /\ Ordered(t, N, sub, K) /\ Level(t, N, h, P, D)
      /\ Calm(t, N, NilNode) /\ Rooted(t, NilNode)
      /\ x \in N \union {NilNode} /\ t[x][Red] = 0 /\ P \in N /\ D \in Dirs /\ t[P][D] = x
  BY DEF Active, Balanced
<1>2. SiblingOf(t, N, sub, h, P, D, x, o, w)
  BY Sibling
<1>3. /\ o \in Dirs /\ o # D /\ Opposite(o) = D /\ w \in N /\ w # P /\ w # x /\ P # x
      /\ t[w][Parent] = P /\ sub[w] \subseteq sub[P] /\ P \notin sub[w] /\ Side(t, w) = o
  BY <1>2 DEF SiblingOf
<1>4. Typed(t, N) /\ NilNode \notin N /\ RootNode \notin N /\ t[NilNode][Red] = 0
  BY <1>1 DEF Shape, Good, Typed
<1>5. r \in N /\ r # NilNode
  BY <1>1, <1>3, <1>4 DEF Typed
<1>6. r \in sub[w] /\ r # w /\ P # r
  <2>1. sub[r] \subseteq sub[w] /\ w \notin sub[r]
    BY <1>1, <1>3 DEF Shape, Subtrees, Dirs
  <2>2. r \in sub[r]
    BY <1>1, <1>5, Below
  <2> QED
    BY <2>1, <2>2, <1>3
<1>7. t[t[r][o]][Red] = 0
  <2>1. t[r][o] # NilNode => t[t[r][o]][Red] = 0
    BY <1>1, <1>3, <1>5 DEF Calm
  <2> QED
    BY <2>1, <1>4
<1>8. Crownable(t, N, sub, h, K, P, D, NilNode, w, D, r)
  <2>1. NilNode # w /\ P # r /\ ~(P = w /\ D = D) /\ ~(P = t[w][Parent] /\ D = Side(t, w))
    BY <1>3, <1>4, <1>6
  <2> HIDE DEF r
  <2> QED
    BY <2>1, <1>1, <1>3, <1>5, <1>7 DEF Crownable, r
<1> HIDE DEF r, u
<1>9. CrownsTo(u, N, K, P, D, NilNode) /\ CrownOf(t, u, N, w, D, r)
  BY <1>8, CrownedTo DEF u
<1>10. /\ u[P][o] = r /\ u[P][D] = x /\ u[r][o] = w
       /\ \A z \in Spots(N) : u[z][Red] = IF z = w THEN 1 ELSE IF z = r THEN 0 ELSE t[z][Red]
  BY <1>1, <1>3, <1>6, <1>9 DEF CrownOf
<1>11. u[RootNode][Left] = t[RootNode][Left]
  <2>1. t[RootNode][Left] # w
    <3>1. t[RootNode][Left] = w => t[w][Parent] = RootNode
      BY <1>1, <1>3, <1>4 DEF Shape, Links
    <3> QED
      BY <3>1, <1>1, <1>3, <1>4
  <2> QED
    BY <2>1, <1>9 DEF CrownOf
<1>12. PICK sub2, h2 : Balanced(u, N, sub2, h2, K, P, D, NilNode)
  BY <1>9 DEF CrownsTo
<1>13. N \subseteq Spots(N) /\ NilNode \in Spots(N)
  BY DEF Spots
<1>14. u[x][Red] = 0 /\ u[r][Red] = 0 /\ u[w][Red] = 1
  BY <1>1, <1>3, <1>5, <1>6, <1>10, <1>13
<1>15. \A z \in N : z # w /\ t[z][Red] = 0 => u[z][Red] = 0
  BY <1>10, <1>13
<1>16. Active(u, N, sub2, h2, K, P, D, x)
  BY <1>1, <1>10, <1>12, <1>14 DEF Active
<1>17. u[u[P][o]][Red] = 0 /\ u[u[u[P][o]][o]][Red] = 1
  BY <1>10, <1>14
<1> QED
  BY <1>11, <1>15, <1>16, <1>17 DEF AwayTo, u, r

\* The sibling takes the place and the colour of P, and P and the far child are black.
Paint(t, v, p, far) == Put(Put(Put(t, v, Red, t[p][Red]), p, Red, 0), far, Red, 0)
PaintOf(t, u, N, v, p, far) ==
  /\ \A z \in Spots(N), f \in Dirs : u[z][f] = t[z][f]
  /\ \A z \in Spots(N) : u[z][Parent] = t[z][Parent]
  /\ \A z \in Spots(N) : u[z][Red] = IF z \in {p, far} THEN 0 ELSE IF z = v THEN t[p][Red] ELSE t[z][Red]
LEMMA Painted ==
  ASSUME NEW N, NEW t, NEW sub, NEW K, Whole(t, N, sub, K),
         NEW v, NEW p, NEW far, Trio(N, v, p, far)
  PROVE  /\ Shape(Paint(t, v, p, far), N, sub) /\ Ordered(Paint(t, v, p, far), N, sub, K)
         /\ PaintOf(t, Paint(t, v, p, far), N, v, p, far)
<1> DEFINE c == t[p][Red]
           t1 == Put(t, v, Red, c)
           t2 == Put(t1, p, Red, 0)
           t3 == Put(t2, far, Red, 0)
<1>1. Shape(t, N, sub) /\ Ordered(t, N, sub, K) /\ v \in N /\ p \in N /\ far \in N
  BY DEF Whole, Trio
<1>2. c \in Colours
  BY <1>1 DEF Shape, Typed, Colours
<1>3. 0 \in Colours
  BY DEF Colours
<1> HIDE DEF t1, t2, t3, c
<1>4. /\ Shape(t1, N, sub) /\ Ordered(t1, N, sub, K)
      /\ \A z \in Spots(N), d \in Dirs : t1[z][d] = t[z][d]
      /\ \A z \in Spots(N) : t1[z][Parent] = t[z][Parent]
      /\ \A z \in Spots(N) : t1[z][Red] = IF z = v THEN c ELSE t[z][Red]
  BY <1>1, <1>2, Recolour DEF t1
<1>5. /\ Shape(t2, N, sub) /\ Ordered(t2, N, sub, K)
      /\ \A z \in Spots(N), d \in Dirs : t2[z][d] = t1[z][d]
      /\ \A z \in Spots(N) : t2[z][Parent] = t1[z][Parent]
      /\ \A z \in Spots(N) : t2[z][Red] = IF z = p THEN 0 ELSE t1[z][Red]
  BY <1>1, <1>3, <1>4, Recolour DEF t2
<1>6. /\ Shape(t3, N, sub) /\ Ordered(t3, N, sub, K)
      /\ \A z \in Spots(N), d \in Dirs : t3[z][d] = t2[z][d]
      /\ \A z \in Spots(N) : t3[z][Parent] = t2[z][Parent]
      /\ \A z \in Spots(N) : t3[z][Red] = IF z = far THEN 0 ELSE t2[z][Red]
  BY <1>1, <1>3, <1>5, Recolour DEF t3
<1>7. PaintOf(t, t3, N, v, p, far)
  BY <1>4, <1>5, <1>6 DEF PaintOf, c
<1>8. t3 = Paint(t, v, p, far)
  BY DEF t3, t2, t1, c, Paint
<1> QED
  BY <1>6, <1>7, <1>8

UpTo(t, u, N, K, P, D) ==
  /\ \E sub, h : Calmed(u, N, sub, h, K)
  /\ \A z \in N : z # t[P][Opposite(D)] /\ t[z][Red] = 0 => u[z][Red] = 0
  /\ u[P][Red] = 0

LEMMA TurnedUp ==
  ASSUME NEW N, NEW t, NEW sub, NEW h, NEW K, NEW P, NEW D, NEW x,
         Active(t, N, sub, h, K, P, D, x), NEW o, o = Opposite(D), NEW v, v = t[P][o],
         t[v][Red] = 0, NEW far, far = t[v][o], t[far][Red] = 1
  PROVE  UpTo(t, Turn(Paint(t, v, P, far), P, D), N, K, P, D)
<1> DEFINE a == Paint(t, v, P, far)
           u == Turn(a, P, D)
           near == t[v][D]
           q == t[P][Parent]
           e == Side(t, P)
           sub2 == TurnSub(a, sub, P, D)
           k == [h EXCEPT ![v] = h[P], ![P] = h[v], ![far] = @ + 1]
<1>1. /\ Shape(t, N, sub) /\ Ordered(t, N, sub, K) /\ Level(t, N, h, P, D)
      /\ Calm(t, N, NilNode) /\ Rooted(t, NilNode)
      /\ x \in N \union {NilNode} /\ t[x][Red] = 0 /\ P \in N /\ D \in Dirs /\ t[P][D] = x
  BY DEF Active, Balanced
<1>2. SiblingOf(t, N, sub, h, P, D, x, o, v)
  BY Sibling
<1>3. /\ o \in Dirs /\ o # D /\ Opposite(o) = D /\ v \in N /\ v # P /\ v # x /\ P # x
      /\ h[v] = h[x] + 1 /\ h[x] \in Nat /\ h[P] = h[v] + 1 - t[P][Red]
      /\ t[v][Parent] = P /\ sub[v] \subseteq sub[P] /\ P \notin sub[v] /\ Side(t, v) = o
  BY <1>2 DEF SiblingOf
<1>4. Typed(t, N) /\ NilNode \notin N /\ RootNode \notin N /\ t[NilNode][Red] = 0
  BY <1>1 DEF Shape, Good, Typed
<1>5. /\ h \in [N \union {NilNode} -> Nat] /\ h[NilNode] = 0
      /\ \A z \in N, d \in Dirs : h[z] = h[t[z][d]] + 1 - t[z][Red] + Gap(P, D, z, d)
  BY <1>1 DEF Level
<1>6. far \in N /\ far # NilNode /\ near \in N \union {NilNode} /\ (t[P][Red] = 0 \/ t[P][Red] = 1)
  BY <1>1, <1>3, <1>4 DEF Typed
<1>7. far # v /\ far # P /\ far # near /\ t[far][Parent] = v
  <2>1. far \in sub[far] /\ sub[far] \subseteq sub[v] /\ v \notin sub[far]
    BY <1>1, <1>3, <1>6, Below
  <2>2. t[v][o] # t[v][Opposite(o)] /\ t[far][Parent] = v
    BY <1>1, <1>3, <1>6, Below
  <2> QED
    BY <2>1, <2>2, <1>3
<1>8. Whole(t, N, sub, K) /\ Trio(N, v, P, far)
  BY <1>1, <1>3, <1>6 DEF Whole, Trio
<1>9. Shape(a, N, sub) /\ Ordered(a, N, sub, K) /\ PaintOf(t, a, N, v, P, far)
  BY <1>8, Painted
<1>10. N \subseteq Spots(N) /\ NilNode \in Spots(N) /\ RootNode \in Spots(N)
  BY DEF Spots
<1> HIDE DEF a
<1>11. /\ \A z \in Spots(N), f \in Dirs : a[z][f] = t[z][f]
       /\ \A z \in Spots(N) : a[z][Parent] = t[z][Parent]
       /\ \A z \in Spots(N) : a[z][Red] = IF z \in {P, far} THEN 0 ELSE IF z = v THEN t[P][Red] ELSE t[z][Red]
  BY <1>9 DEF PaintOf
<1>12. a[P][Opposite(D)] = v /\ a[v][D] = near /\ a[P][Parent] = q
  BY <1>1, <1>3, <1>10, <1>11
<1>13. v # NilNode
  BY <1>3, <1>4
<1>14. /\ q \in N \union {RootNode} /\ e \in Dirs /\ t[q][e] = P /\ q # P
       /\ q = RootNode => e = Left
  BY <1>1, Above
<1>15. Side(a, P) = e
  <2>1. a[q][Left] = t[q][Left]
    BY <1>10, <1>11, <1>14, Opposites
  <2> QED
    BY <2>1, <1>12 DEF Side
<1> HIDE DEF u, near, q, e, sub2, k
<1>16. Shape(u, N, sub2) /\ Ordered(u, N, sub2, K)
  BY <1>1, <1>9, <1>12, <1>13, TurnShape, TurnOrder DEF u, sub2
<1>17. /\ q # v /\ q # near
       /\ \A z \in Spots(N) : u[z][Red] = a[z][Red]
       /\ \A z \in Spots(N), b \in Dirs :
              u[z][b] = IF z = P /\ b = o THEN near ELSE IF z = v /\ b = D THEN P
                        ELSE IF z = q /\ b = e THEN v ELSE a[z][b]
  <2>1. u = Turn(a, P, D)
    BY DEF u
  <2> QED
    BY <2>1, <1>1, <1>9, <1>12, <1>13, <1>15, TurnFields
<1>18. \A z \in Spots(N) : u[z][Red] = IF z \in {P, far} THEN 0 ELSE IF z = v THEN t[P][Red] ELSE t[z][Red]
  BY <1>11, <1>17
<1>19. \A z \in Spots(N), b \in Dirs :
              u[z][b] = IF z = P /\ b = o THEN near ELSE IF z = v /\ b = D THEN P
                        ELSE IF z = q /\ b = e THEN v ELSE t[z][b]
  BY <1>11, <1>17
<1>20. k = [z \in N \union {NilNode} |->
              IF z = far THEN h[far] + 1 ELSE IF z = P THEN h[v] ELSE IF z = v THEN h[P] ELSE h[z]]
  BY <1>1, <1>3, <1>5, <1>6, <1>7 DEF k
<1>21. \A z \in N \union {NilNode} :
          k[z] = (IF z = far THEN h[far] + 1 ELSE IF z = P THEN h[v] ELSE IF z = v THEN h[P] ELSE h[z])
  BY <1>20
<1>22. \A z \in N \union {NilNode} : h[z] \in Nat
  BY <1>5
<1>23. k \in [N \union {NilNode} -> Nat] /\ k[NilNode] = 0
  <2>1. h[far] + 1 \in Nat /\ h[v] \in Nat /\ h[P] \in Nat
    BY <1>1, <1>3, <1>6, <1>22
  <2>2. \A z \in N \union {NilNode} : k[z] \in Nat
    BY <2>1, <1>21, <1>22
  <2>3. k[NilNode] = 0
    BY <1>1, <1>3, <1>4, <1>5, <1>6, <1>21
  <2> QED
    BY <2>2, <2>3, <1>20
<1>24. \A z \in N, d \in Dirs : /\ t[z][d] \in N \union {NilNode}
                                /\ t[z][d] = v => z = P /\ d = o
                                /\ t[z][d] = P => z = q /\ d = e
                                /\ t[z][d] = far => z = v /\ d = o
  <2>1. \A z \in N, d \in Dirs : t[z][d] \in N => t[t[z][d]][Parent] = z /\ t[z][d] # t[z][Opposite(d)]
    BY <1>1, <1>4, Below
  <2>2. \A z \in N, d \in Dirs : t[z][d] = v => z = P /\ d = o
    BY <2>1, <1>1, <1>3, Opposites
  <2>3. \A z \in N, d \in Dirs : t[z][d] = P => z = q /\ d = e
    BY <2>1, <1>1, <1>14, Opposites DEF q
  <2>4. \A z \in N, d \in Dirs : t[z][d] = far => z = v /\ d = o
    BY <2>1, <1>1, <1>3, <1>6, <1>7, Opposites
  <2> QED
    BY <2>2, <2>3, <2>4, <1>4 DEF Typed
<1>25. h[v] = h[far] + 1 /\ h[v] = h[near] + 1 /\ h[far] \in Nat /\ h[near] \in Nat
  <2>1. Gap(P, D, v, o) = 0 /\ Gap(P, D, v, D) = 0
    BY <1>3 DEF Gap
  <2>2. h[v] = h[far] + 1 - t[v][Red] + Gap(P, D, v, o)
    BY <1>3, <1>5
  <2>3. h[v] = h[near] + 1 - t[v][Red] + Gap(P, D, v, D)
    BY <1>1, <1>3, <1>5 DEF near
  <2>4. h[far] \in Nat /\ h[near] \in Nat
    BY <1>6, <1>22
  <2> QED
    BY <2>1, <2>2, <2>3, <2>4
<1>26. near # v /\ near # P /\ near # far /\ x # v /\ x # P /\ x # far
  <2>1. near # v /\ near # P
    BY <1>1, <1>3, <1>17, <1>24 DEF near
  <2>2. x # far
    BY <1>1, <1>3, <1>24
  <2> QED
    BY <2>1, <2>2, <1>3, <1>7
<1>27. Even(u, N, k)
  <2>1. ASSUME NEW z \in N, NEW d \in Dirs PROVE k[z] = k[u[z][d]] + 1 - u[z][Red]
    <3>1. d = D \/ d = o
      BY <1>1, <1>3, Opposites
    <3>2. CASE z = P
      <4>1. u[z][Red] = 0 /\ k[z] = h[v]
        BY <3>2, <1>1, <1>7, <1>10, <1>18, <1>21
      <4>2. CASE d = o
        <5>1. u[z][d] = near /\ k[near] = h[near]
          BY <3>2, <4>2, <1>1, <1>6, <1>10, <1>19, <1>21, <1>26
        <5> QED
          BY <4>1, <5>1, <1>25
      <4>3. CASE d = D
        <5>1. u[z][d] = x /\ k[x] = h[x]
          BY <3>2, <4>3, <1>1, <1>3, <1>10, <1>14, <1>19, <1>21, <1>26
        <5> QED
          BY <4>1, <5>1, <1>3
      <4> QED
        BY <3>1, <4>2, <4>3
    <3>3. CASE z = v
      <4>1. u[z][Red] = t[P][Red] /\ k[z] = h[P]
        BY <3>3, <1>3, <1>7, <1>10, <1>18, <1>21
      <4>2. CASE d = D
        <5>1. u[z][d] = P /\ k[P] = h[v]
          BY <3>3, <4>2, <1>1, <1>3, <1>7, <1>10, <1>19, <1>21
        <5> QED
          BY <4>1, <5>1, <1>3
      <4>3. CASE d = o
        <5>1. u[z][d] = far /\ k[far] = h[far] + 1
          BY <3>3, <4>3, <1>3, <1>6, <1>10, <1>17, <1>19, <1>21
        <5> QED
          BY <4>1, <5>1, <1>3, <1>25
      <4> QED
        BY <3>1, <4>2, <4>3
    <3>4. CASE z # P /\ z # v
      <4> DEFINE c == t[z][d]
      <4>1. c \in N \union {NilNode} /\ c # v /\ c # far /\ (c = P => z = q /\ d = e) /\ (z = q /\ d = e => c = P)
        BY <3>4, <1>14, <1>24
      <4>2. Gap(P, D, z, d) = 0
        BY <3>4 DEF Gap
      <4>3. h[z] = h[c] + 1 - t[z][Red]
        <5>1. h[z] = h[c] + 1 - t[z][Red] + Gap(P, D, z, d)
          BY <1>5
        <5>2. t[z][Red] \in {0, 1} /\ h[c] \in Nat
          BY <4>1, <1>4, <1>22 DEF Typed
        <5> QED
          BY <5>1, <5>2, <4>2
      <4>4. u[z][d] = IF z = q /\ d = e THEN v ELSE c
        BY <3>4, <1>10, <1>19
      <4> HIDE DEF c
      <4>5. k[u[z][d]] = h[c]
        <5>1. CASE z = q /\ d = e
          BY <5>1, <4>1, <4>4, <1>3, <1>7, <1>21
        <5>2. CASE ~(z = q /\ d = e)
          BY <5>2, <4>1, <4>4, <1>21
        <5> QED
          BY <5>1, <5>2
      <4>6. CASE z = far
        <5>1. k[z] = h[z] + 1 /\ u[z][Red] = 0 /\ t[z][Red] = 1
          BY <4>6, <1>6, <1>10, <1>18, <1>21
        <5>2. h[z] \in Nat /\ h[c] \in Nat
          BY <4>1, <1>22
        <5> QED
          BY <5>1, <5>2, <4>3, <4>5
      <4>7. CASE z # far
        <5>1. k[z] = h[z] /\ u[z][Red] = t[z][Red]
          BY <4>7, <3>4, <1>10, <1>18, <1>21
        <5> QED
          BY <5>1, <4>3, <4>5
      <4> QED
        BY <4>6, <4>7
    <3> QED
      BY <3>2, <3>3, <3>4
  <2> QED
    BY <2>1, <1>23 DEF Even
<1>28. \A z \in N, d \in Dirs : t[z][Red] = 1 => t[t[z][d]][Red] = 0
  BY <1>1, <1>4 DEF Calm
<1>29. Calm(u, N, NilNode)
  <2>1. ASSUME NEW z \in N, NEW d \in Dirs, u[z][Red] = 1 PROVE u[u[z][d]][Red] = 0
    <3>1. z # P /\ z # far
      BY <2>1, <1>10, <1>18
    <3>2. CASE z = v
      <4>1. (d = D /\ u[z][d] = P) \/ (d = o /\ u[z][d] = far)
        BY <3>2, <1>1, <1>3, <1>10, <1>17, <1>19, Opposites
      <4> QED
        BY <4>1, <1>1, <1>6, <1>10, <1>18
    <3>3. CASE z # v
      <4>1. t[z][Red] = 1 /\ t[t[z][d]][Red] = 0
        BY <2>1, <3>1, <3>3, <1>10, <1>18, <1>28
      <4>2. CASE z = q /\ d = e
        <5>1. u[z][d] = v /\ t[z][d] = P
          BY <3>1, <4>2, <1>10, <1>14, <1>17, <1>19
        <5> QED
          BY <4>1, <5>1, <1>3, <1>7, <1>10, <1>18
      <4>3. CASE ~(z = q /\ d = e)
        <5>1. u[z][d] = t[z][d] /\ t[z][d] \in Spots(N) /\ t[z][d] # v
          BY <3>1, <3>3, <4>3, <1>10, <1>19, <1>24
        <5> QED
          BY <4>1, <5>1, <1>18
      <4> QED
        BY <4>2, <4>3
    <3> QED
      BY <3>2, <3>3
  <2> QED
    BY <2>1 DEF Calm
<1>30. u[u[RootNode][Left]][Red] = 0
  <2>1. t[RootNode][Left] \in Spots(N) /\ t[t[RootNode][Left]][Red] = 0
    BY <1>1, <1>4, <1>10 DEF Rooted, Typed
  <2>2. u[RootNode][Left] = IF q = RootNode /\ e = Left THEN v ELSE t[RootNode][Left]
    BY <1>1, <1>3, <1>4, <1>10, <1>19, Opposites
  <2>3. CASE q = RootNode
    <3>1. u[RootNode][Left] = v /\ t[P][Red] = 0
      BY <2>1, <2>2, <2>3, <1>14
    <3> QED
      BY <3>1, <1>3, <1>7, <1>10, <1>18
  <2>4. CASE q # RootNode
    <3>1. u[RootNode][Left] = t[RootNode][Left] /\ t[RootNode][Left] # v
      <4>1. t[RootNode][Left] = v => t[v][Parent] = RootNode
        BY <1>1, <1>3, <1>4 DEF Shape, Links
      <4> QED
        BY <2>2, <2>4, <4>1, <1>1, <1>3, <1>4
    <3> QED
      BY <2>1, <3>1, <1>18
  <2> QED
    BY <2>3, <2>4
<1>31. Calmed(u, N, sub2, k, K)
  BY <1>16, <1>27, <1>29, <1>30 DEF Calmed
<1>32. \A z \in N : z # v /\ t[z][Red] = 0 => u[z][Red] = 0
  BY <1>10, <1>18
<1>33. u[P][Red] = 0
  BY <1>1, <1>10, <1>18
<1> QED
  BY <1>31, <1>32, <1>33 DEF UpTo, u, a

TBlack(t, P, D) == IF t[t[P][Opposite(D)]][Red] = 0 THEN t ELSE TCrown(t, t[P][Opposite(D)], P, Opposite(D))
TAway(t, w, D)  == IF t[t[w][Opposite(D)]][Red] = 1 THEN t ELSE TCrown(t, t[w][D], w, D)
TUp(t, P, v, D) == Turn(Paint(t, v, P, t[v][Opposite(D)]), P, D)

\* The sibling is black; root was the root, and still is if it is not P.
Stage(t, N, sub, h, K, P, D, x, root) ==
  /\ Active(t, N, sub, h, K, P, D, x) /\ t[t[P][Opposite(D)]][Red] = 0
  /\ root = P \/ t[RootNode][Left] = root
LEMMA StageRoot ==
  ASSUME NEW N, NEW t, NEW sub, NEW h, NEW K, NEW P, NEW D, NEW x, NEW root,
         Stage(t, N, sub, h, K, P, D, x, root)
  PROVE  /\ root \in N /\ root # t[P][Opposite(D)]
         /\ root # P => t[root][Red] = 0
<1> DEFINE o == Opposite(D)
           s == t[P][o]
<1>1. /\ Active(t, N, sub, h, K, P, D, x)
      /\ Shape(t, N, sub) /\ Rooted(t, NilNode) /\ P \in N /\ (root = P \/ t[RootNode][Left] = root)
  BY DEF Stage, Active, Balanced
<1>2. s \in N /\ s # P /\ t[s][Parent] = P
  BY <1>1, Sibling DEF SiblingOf
<1>3. Typed(t, N) /\ Links(t, N) /\ RootNode \notin N /\ NilNode \notin N /\ sub[NilNode] = {}
      /\ sub[t[RootNode][Left]] = N
  <2>1. Typed(t, N) /\ Links(t, N) /\ Good(N) /\ Subtrees(t, N, sub)
    BY <1>1 DEF Shape
  <2> QED
    BY <2>1 DEF Good, Subtrees
<1>4. t[RootNode][Left] \in N /\ t[t[RootNode][Left]][Parent] = RootNode
  BY <1>1, <1>3 DEF Typed, Links
<1>5. t[t[RootNode][Left]][Red] = 0
  BY <1>1, <1>3 DEF Rooted, Typed
<1> QED
  BY <1>1, <1>2, <1>3, <1>4, <1>5

\* The first part of a round.
LEMMA StagedA ==
  ASSUME NEW N, NEW t, NEW sub, NEW h, NEW K, NEW P, NEW D, NEW x,
         Active(t, N, sub, h, K, P, D, x), NEW root, root = t[RootNode][Left],
         NEW a, a = TBlack(t, P, D)
  PROVE  \/ a = t /\ Stage(t, N, sub, h, K, P, D, x, root)
         \/ a[P][Red] = 1 /\ \E sub2, h2 : Stage(a, N, sub2, h2, K, P, D, x, root)
<1> DEFINE o == Opposite(D)
           s == t[P][o]
<1>1. CASE t[s][Red] = 0
  BY <1>1 DEF TBlack, Stage
<1>2. CASE t[s][Red] # 0
  <2>1. SiblingOf(t, N, sub, h, P, D, x, o, s) /\ Shape(t, N, sub)
    BY Sibling DEF Active, Balanced
  <2>2. t[s][Red] = 1
    BY <1>2, <2>1 DEF SiblingOf, Shape, Typed
  <2>3. a = TCrown(t, s, P, o)
    BY <1>2 DEF TBlack
  <2> HIDE DEF o, s
  <2>4. LiftedTo(t, a, N, K, P, D, x, s)
    BY <2>2, <2>3, Lifted DEF o, s
  <2>5. PICK sub2, h2 : Active(a, N, sub2, h2, K, P, D, x)
    BY <2>4 DEF LiftedTo
  <2>6. /\ a[P][Red] = 1 /\ a[a[P][Opposite(D)]][Red] = 0
        /\ root = P \/ a[RootNode][Left] = root
    BY <2>4 DEF LiftedTo
  <2>7. Stage(a, N, sub2, h2, K, P, D, x, root)
    BY <2>5, <2>6 DEF Stage
  <2> QED
    BY <2>6, <2>7
<1> QED
  BY <1>1, <1>2

\* The last part of a round.
Ended(u, N, K, root) == (\E sub, h : Calmed(u, N, sub, h, K)) /\ u[root][Red] = 0
Mixed(t, P, D, w, c, v) ==
  /\ w = t[P][Opposite(D)] /\ ~(t[t[w][Left]][Red] = 0 /\ t[t[w][Right]][Red] = 0)
  /\ c = TAway(t, w, D) /\ v = c[P][Opposite(D)]
Finishes(c, N, K, P, D, x, root, v) ==
  /\ Ended(TUp(c, P, v, D), N, K, root) /\ c[c[v][Opposite(D)]][Red] = 1
  /\ \E sub, h : Active(c, N, sub, h, K, P, D, x)
LEMMA StagedC ==
  ASSUME NEW N, NEW t, NEW sub, NEW h, NEW K, NEW P, NEW D, NEW x, NEW root,
         Stage(t, N, sub, h, K, P, D, x, root), NEW w, NEW c, NEW v, Mixed(t, P, D, w, c, v)
  PROVE  Finishes(c, N, K, P, D, x, root, v)
<1> DEFINE o == Opposite(D)
           u == TUp(c, P, v, D)
<1>0. /\ w = t[P][o] /\ ~(t[t[w][Left]][Red] = 0 /\ t[t[w][Right]][Red] = 0)
      /\ c = TAway(t, w, D) /\ v = c[P][o]
  BY DEF Mixed
<1>1. /\ Active(t, N, sub, h, K, P, D, x) /\ t[w][Red] = 0 /\ Shape(t, N, sub) /\ D \in Dirs
      /\ root = P \/ t[RootNode][Left] = root
  BY <1>0 DEF Stage, Active, Balanced
<1>2. root \in N /\ root # w /\ (root # P => t[root][Red] = 0)
  BY <1>0, StageRoot
<1>3. w \in N /\ o \in Dirs /\ Opposite(o) = D
  BY <1>0, <1>1, Sibling DEF SiblingOf
<1>4. /\ \E sub2, h2 : Active(c, N, sub2, h2, K, P, D, x)
      /\ c[v][Red] = 0 /\ c[c[v][o]][Red] = 1
      /\ c[RootNode][Left] = t[RootNode][Left]
      /\ root # P => c[root][Red] = 0
  <2>1. CASE t[t[w][o]][Red] = 1
    BY <1>0, <1>1, <1>2, <2>1 DEF TAway, Stage
  <2>2. CASE t[t[w][o]][Red] # 1
    <3>1. \A d \in Dirs : t[t[w][d]][Red] \in {0, 1}
      BY <1>1, <1>3 DEF Shape, Typed
    <3>2. (D = Left /\ o = Right) \/ (D = Right /\ o = Left)
      BY <1>1 DEF Dirs, Opposite, Left, Right
    <3>3. t[t[w][o]][Red] = 0
      BY <2>2, <3>1, <1>3
    <3>4. t[t[w][D]][Red] = 1
      BY <2>2, <3>1, <3>2, <3>3, <1>0, <1>1, <1>3
    <3>5. c = TCrown(t, t[w][D], w, D)
      BY <1>0, <2>2 DEF TAway
    <3> HIDE DEF u
    <3>6. AwayTo(t, c, N, K, P, D, x)
      BY <1>0, <3>3, <3>4, <3>5, <1>1, Aways
    <3> QED
      BY <1>0, <3>6, <1>1, <1>2 DEF AwayTo
  <2> QED
    BY <2>1, <2>2
<1>5. PICK sub2, h2 : Active(c, N, sub2, h2, K, P, D, x)
  BY <1>4
<1> HIDE DEF u
<1>6. UpTo(c, u, N, K, P, D)
  BY <1>0, <1>4, <1>5, TurnedUp DEF TUp, u
<1>7. u[root][Red] = 0
  <2>1. CASE root = P
    BY <2>1, <1>6 DEF UpTo
  <2>2. CASE root # P
    <3>1. Stage(c, N, sub2, h2, K, P, D, x, root)
      BY <1>0, <1>1, <1>4, <1>5 DEF Stage
    <3>2. root # v
      BY <1>0, <3>1, StageRoot
    <3> QED
      BY <1>0, <2>2, <3>2, <1>2, <1>4, <1>6 DEF UpTo
  <2> QED
    BY <2>1, <2>2
<1>8. Ended(u, N, K, root)
  BY <1>6, <1>7 DEF Ended, UpTo
<1> QED
  BY <1>4, <1>5, <1>8 DEF Finishes, u

\* The same in the memory.
LEMMA BlackSiblingNow ==
  ASSUME NEW N, NEW l, NEW m, NEW t, NEW sub, NEW h, NEW K, NEW P, NEW D, NEW x,
         Now(l, m, N, t), Active(t, N, sub, h, K, P, D, x)
  PROVE  Now(l, BlackSibling(m, P, D), N, TBlack(t, P, D))
<1> DEFINE o == Opposite(D)
           s == t[P][o]
<1>1. Shape(t, N, sub) /\ Whole(t, N, sub, K) /\ P \in N
  BY DEF Active, Balanced, Whole
<1>2. o \in Dirs /\ Opposite(o) = D /\ s \in N
  BY Sibling DEF SiblingOf
<1>3. m[P + o] = s /\ m[s + Red] = t[s][Red]
  BY <1>1, <1>2, ReadStep
<1>4. Now(l, Crown(m, s, P, o), N, TCrown(t, s, P, o))
  BY <1>1, <1>2, CrownNow
<1> QED
  BY <1>3, <1>4 DEF BlackSibling, TBlack

LEMMA RedAwayNow ==
  ASSUME NEW N, NEW l, NEW m, NEW t, NEW sub, NEW K, NEW w, NEW D,
         Now(l, m, N, t), Whole(t, N, sub, K), w \in N, D \in Dirs,
         t[t[w][Opposite(D)]][Red] = 1 \/ t[w][D] \in N
  PROVE  Now(l, RedAway(m, w, D), N, TAway(t, w, D))
<1> DEFINE o == Opposite(D)
<1>1. Shape(t, N, sub) /\ o \in Dirs /\ Opposite(o) = D
  BY Opposites DEF Whole
<1>2. m[w + o] = t[w][o] /\ m[t[w][o] + Red] = t[t[w][o]][Red] /\ m[w + D] = t[w][D]
  BY <1>1, ReadStep
<1>3. t[w][D] \in N => Now(l, Crown(m, t[w][D], w, D), N, TCrown(t, t[w][D], w, D))
  BY <1>1, CrownNow
<1> QED
  BY <1>2, <1>3 DEF RedAway, TAway

LEMMA TurnParentNow ==
  ASSUME NEW N, NEW l, NEW m, NEW t, NEW sub, NEW h, NEW K, NEW P, NEW D, NEW x, NEW v,
         Now(l, m, N, t), Active(t, N, sub, h, K, P, D, x), v = t[P][Opposite(D)],
         t[t[v][Opposite(D)]][Red] = 1
  PROVE  Now(l, TurnParent(m, P, v, D), N, TUp(t, P, v, D))
<1> DEFINE o == Opposite(D)
           far == t[v][o]
           c == t[P][Red]
           m1 == Poke(m, v + Red, c)
           m2 == Poke(m1, P + Red, 0)
           m3 == Poke(m2, far + Red, 0)
           t1 == Put(t, v, Red, c)
           t2 == Put(t1, P, Red, 0)
           t3 == Put(t2, far, Red, 0)
<1>1. Shape(t, N, sub) /\ Whole(t, N, sub, K) /\ P \in N /\ D \in Dirs /\ Typed(t, N) /\ Good(N)
  BY DEF Active, Balanced, Whole, Shape
<1>2. o \in Dirs /\ Opposite(o) = D /\ v \in N /\ v # NilNode
  BY <1>1, Sibling DEF SiblingOf, Good
<1>3. far \in N /\ c \in Int
  BY <1>1, <1>2 DEF Typed
<1>4. m[P + Red] = c /\ m[v + o] = far
  BY <1>1, <1>2, ReadStep
<1>5. TurnParent(m, P, v, D) = rotate(m3, P, D)
  BY <1>4 DEF TurnParent, Poke
<1>6. TUp(t, P, v, D) = Turn(t3, P, D)
  BY DEF TUp, Paint
<1>7. v \in Spots(N) /\ P \in Spots(N) /\ far \in Spots(N) /\ Red \in Fields
  BY <1>1, <1>2, <1>3 DEF Spots, Fields, Red, Parent
<1>8. 0 \in Int
  OBVIOUS
<1>9. Shape(t3, N, sub) /\ t3[P][o] = v
  <2>1. Trio(N, v, P, far)
    BY <1>1, <1>2, <1>3 DEF Trio
  <2>2. t3 = Paint(t, v, P, far)
    BY DEF Paint
  <2> HIDE DEF t3, far
  <2>3. Shape(t3, N, sub) /\ PaintOf(t, t3, N, v, P, far)
    BY <2>1, <2>2, <1>1, Painted
  <2> QED
    BY <2>3, <1>2, <1>7 DEF PaintOf
<1> HIDE DEF m1, m2, m3, t1, t2, t3, far, c, o
<1>10. Now(l, m1, N, t1)
  BY <1>3, <1>7, PokeNow DEF m1, t1
<1>11. Now(l, m2, N, t2)
  BY <1>7, <1>8, <1>10, PokeNow DEF m2, t2
<1>12. Now(l, m3, N, t3)
  BY <1>7, <1>8, <1>11, PokeNow DEF m3, t3
<1>13. Now(l, rotate(m3, P, D), N, Turn(t3, P, D))
  BY <1>1, <1>2, <1>9, <1>12, rotateTurns DEF o
<1> QED
  BY <1>5, <1>6, <1>13

\* What a round of the loop of rbt_remove_fix_up leaves.
Higher(v, N, sub, K, q, root, x) ==
  /\ \E k, P, D : Active(v, N, sub, k, K, P, D, q) /\ v[q][Parent] = P
  /\ v[RootNode][Left] = root /\ q \in N /\ sub[x] \subseteq sub[q] /\ q \notin sub[x]
Over(v, N, K, q, root) ==
  /\ (v[q][Red] = 1 \/ q = root) /\ q \in N /\ \E sub, k : Calmed(Put(v, q, Red, 0), N, sub, k, K)

\* A black sibling with black children.
LEMMA LeanedTo ==
  ASSUME NEW N, NEW t, NEW sub, NEW h, NEW K, NEW P, NEW D, NEW x, NEW root,
         Active(t, N, sub, h, K, P, D, x), NEW w, w = t[P][Opposite(D)],
         t[w][Red] = 0, t[t[w][Left]][Red] = 0, t[t[w][Right]][Red] = 0,
         NEW v, v = Put(t, w, Red, 1), t[P][Red] = 1 \/ t[RootNode][Left] = root
  PROVE  Over(v, N, K, P, root) \/ Higher(v, N, sub, K, P, root, x)
<1> DEFINE q == t[P][Parent]
           e == Side(t, P)
<1>1. /\ Shape(t, N, sub) /\ P \in N /\ Typed(t, N) /\ Links(t, N)
  BY DEF Active, Balanced, Shape
<1>2. /\ \E k : Uneven(v, N, sub, k, K, q, e, P)
      /\ v[P][Red] = t[P][Red] /\ v[RootNode][Left] = t[RootNode][Left]
      /\ sub[x] \subseteq sub[P] /\ P \notin sub[x]
  BY Leaned
<1>3. PICK k : Uneven(v, N, sub, k, K, q, e, P)
  BY <1>2
<1>4. v[P][Red] = 0 \/ v[P][Red] = 1
  BY <1>1, <1>2 DEF Typed
<1>5. CASE v[P][Red] = 1 \/ q = RootNode
  <2>1. \E k2 : Calmed(Put(v, P, Red, 0), N, sub, k2, K)
    BY <1>3, <1>5, Settled
  <2>2. v[P][Red] = 1 \/ P = root
    <3>1. RootNode \notin N
      BY <1>1 DEF Shape, Good
    <3>2. q = RootNode => t[RootNode][Left] = P
      BY <3>1, <1>1 DEF Links
    <3> QED
      BY <3>2, <1>2, <1>5
  <2> QED
    BY <2>1, <2>2, <1>1 DEF Over
<1>6. CASE v[P][Red] = 0 /\ q # RootNode
  <2>1. Active(v, N, sub, k, K, q, e, P)
    BY <1>3, <1>6, UnevenActive
  <2>2. v[P][Parent] = q
    <3>1. Shape(v, N, sub) /\ q \in N /\ e \in Dirs /\ v[q][e] = P /\ P # NilNode
      BY <2>1, <1>1 DEF Active, Balanced, Shape, Good
    <3> QED
      BY <3>1, Below
  <2> QED
    BY <2>1, <2>2, <1>1, <1>2, <1>6 DEF Higher
<1> QED
  BY <1>4, <1>5, <1>6

\* A round of the loop.
Stepped(l, s, q, N, sub, K) ==
  /\ q = [m |-> q.m, x |-> q.x, root |-> s.root] /\ Now(l, q.m, N, View(q.m, N))
  /\ \/ Higher(View(q.m, N), N, sub, K, q.x, s.root, s.x)
     \/ Over(View(q.m, N), N, K, q.x, s.root)
Starts(l, s, N, sub, h, K, P, D) ==
  LET t == View(s.m, N)
  IN  /\ Now(l, s.m, N, t) /\ Active(t, N, sub, h, K, P, D, s.x)
      /\ t[s.x][Parent] = P /\ t[RootNode][Left] = s.root
      /\ s = [m |-> s.m, x |-> s.x, root |-> s.root]

LEMMA FixStepNow ==
  ASSUME NEW N, NEW l, NEW s, NEW sub, NEW h, NEW K, NEW P, NEW D, Starts(l, s, N, sub, h, K, P, D)
  PROVE  Stepped(l, s, FixStep(s), N, sub, K)
<1> DEFINE m == s.m
           t == View(m, N)
           x == s.x
           root == s.root
           o == Opposite(D)
           ma == BlackSibling(m, P, D)
           a == TBlack(t, P, D)
           w == a[P][o]
           mc == RedAway(ma, w, D)
           c == TAway(a, w, D)
           v == c[P][o]
           md == TurnParent(mc, P, v, D)
           u == TUp(c, P, v, D)
           me == Poke(ma, w + Red, 1)
           b == Put(a, w, Red, 1)
           q == FixStep(s)
<1>1. /\ Now(l, m, N, t) /\ Active(t, N, sub, h, K, P, D, x)
      /\ t[x][Parent] = P /\ t[RootNode][Left] = root
      /\ s = [m |-> m, x |-> x, root |-> root]
  BY DEF Starts
<1> HIDE DEF t, m, x, root
<1>2. /\ x \in N \union {NilNode} /\ P \in N /\ D \in Dirs /\ Shape(t, N, sub) /\ N \subseteq Spots(N)
      /\ NilNode \in Spots(N)
  BY <1>1 DEF Active, Balanced, Spots
<1>3. o \in Dirs /\ Opposite(o) = D /\ D = (IF t[P][Left] = x THEN Left ELSE Right)
  BY <1>1, Sibling DEF SiblingOf
<1>4. m[x + Parent] = P /\ SideOf(m, x) = D
  <2>1. m[x + Parent] = P
    BY <1>1, <1>2, ReadNow DEF Fields, Red, Parent
  <2>2. m[P + Left] = t[P][Left]
    BY <1>1, <1>2, ReadStep
  <2> QED
    BY <2>1, <2>2, <1>3 DEF SideOf
<1> HIDE DEF ma, a, w, mc, c, v, md, u, me, b, q, o
<1>5. \/ a = t /\ Stage(a, N, sub, h, K, P, D, x, root)
      \/ a[P][Red] = 1 /\ \E sub2, h2 : Stage(a, N, sub2, h2, K, P, D, x, root)
  BY <1>1, StagedA DEF a
<1>6. PICK sub2, h2 : /\ Stage(a, N, sub2, h2, K, P, D, x, root)
                      /\ a[P][Red] = 1 \/ (sub2 = sub /\ a[RootNode][Left] = root)
  BY <1>1, <1>5
<1>7. Now(l, ma, N, a)
  BY <1>1, BlackSiblingNow DEF ma, a
<1>8. Active(a, N, sub2, h2, K, P, D, x) /\ a[w][Red] = 0
  BY <1>6 DEF Stage, w, o
<1>9. Shape(a, N, sub2) /\ Whole(a, N, sub2, K) /\ w \in N
  BY <1>8, Sibling DEF Active, Balanced, Whole, w, o, SiblingOf
<1>10. ma[P + o] = w
  BY <1>2, <1>3, <1>7, <1>9, ReadStep DEF w
<1>11. /\ ma[ma[w + Left] + Red] = a[a[w][Left]][Red] /\ ma[ma[w + Right] + Red] = a[a[w][Right]][Red]
  BY <1>7, <1>9, ReadStep, Opposites
<1>12. CASE a[a[w][Left]][Red] = 0 /\ a[a[w][Right]][Red] = 0
  <2>1. q = [s EXCEPT !.m = me, !.x = P]
    BY <1>4, <1>10, <1>11, <1>12 DEF FixStep, q, m, x, ma, o, me, Poke
  <2>2. q = [m |-> me, x |-> P, root |-> root]
    BY <2>1, <1>1
  <2>3. Now(l, me, N, b)
    <3>1. w \in Spots(N) /\ Red \in Fields /\ 1 \in Int
      BY <1>9 DEF Spots, Fields, Red, Parent
    <3> QED
      BY <3>1, <1>7, PokeNow DEF me, b
  <2>4. Over(b, N, K, P, root) \/ Higher(b, N, sub2, K, P, root, x)
    <3>1. \/ a[P][Red] = 1 \/ a[RootNode][Left] = root
      BY <1>6
    <3> QED
      BY <3>1, <1>8, <1>12, LeanedTo DEF w, o, b
  <2>5. Over(b, N, K, P, root) \/ Higher(b, N, sub, K, P, root, x)
    <3>1. CASE sub2 = sub
      BY <3>1, <2>4
    <3>2. CASE a[P][Red] = 1
      <4>1. b[P][Red] = 1
        <5>1. w # P
          BY <1>8, Sibling DEF SiblingOf, w, o
        <5>2. IsMap(a, N)
          BY <1>9 DEF Shape
        <5> QED
          BY <5>1, <5>2, <3>2, <1>2, <1>9, PutFields DEF b, Fields, Red, Parent
      <4>2. ~Higher(b, N, sub2, K, P, root, x)
        BY <4>1 DEF Higher, Active
      <4> QED
        BY <2>4, <4>2
    <3> QED
      BY <3>1, <3>2, <1>6
  <2>6. View(q.m, N) = b /\ q.m = me /\ q.x = P
    BY <2>2, <2>3 DEF Now
  <2>7. q = [m |-> q.m, x |-> q.x, root |-> s.root]
    BY <2>2 DEF root
  <2>8. Now(l, q.m, N, View(q.m, N))
    BY <2>3, <2>6
  <2> HIDE DEF q
  <2> QED
    BY <2>5, <2>6, <2>7, <2>8 DEF Stepped, q, root, x
<1>13. CASE ~(a[a[w][Left]][Red] = 0 /\ a[a[w][Right]][Red] = 0)
  <2>1. /\ Ended(u, N, K, root)
        /\ \E sub3, h3 : Active(c, N, sub3, h3, K, P, D, x) /\ c[c[v][o]][Red] = 1
    <3>1. Mixed(a, P, D, w, c, v)
      BY <1>13 DEF Mixed, w, c, v, o
    <3>2. Finishes(c, N, K, P, D, x, root, v)
      BY <3>1, <1>6, StagedC
    <3> QED
      BY <3>2 DEF Finishes, u, o
  <2>2. PICK sub3, h3 : Active(c, N, sub3, h3, K, P, D, x) /\ c[c[v][o]][Red] = 1
    BY <2>1
  <2>3. Now(l, mc, N, c)
    <3>1. a[a[w][o]][Red] = 1 \/ a[w][D] \in N
      <4>1. a[w][D] \in N \union {NilNode} /\ a[NilNode][Red] = 0
        BY <1>2, <1>9 DEF Shape, Typed
      <4>2. \A d \in Dirs : a[a[w][d]][Red] \in {0, 1}
        BY <1>9 DEF Shape, Typed
      <4>3. (D = Left /\ o = Right) \/ (D = Right /\ o = Left)
        BY <1>2 DEF o, Dirs, Opposite, Left, Right
      <4>4. CASE a[a[w][o]][Red] = 0
        <5>1. a[a[w][D]][Red] # 0
          BY <4>3, <4>4, <1>13
        <5> QED
          BY <4>1, <5>1
      <4> QED
        BY <4>2, <4>4, <1>3
    <3> QED
      BY <3>1, <1>2, <1>7, <1>9, RedAwayNow DEF mc, c, o
  <2>4. Now(l, md, N, u)
    BY <2>2, <2>3, TurnParentNow DEF md, u, v, o
  <2>5. mc[P + o] = v
    BY <2>2, <2>3, <1>2, <1>3, ReadStep DEF Active, Balanced, v
  <2>6. q = [s EXCEPT !.m = md, !.x = root]
    BY <2>5, <1>4, <1>10, <1>11, <1>13 DEF FixStep, q, m, x, ma, mc, md, o, root
  <2>7. q = [m |-> md, x |-> root, root |-> root]
    BY <2>6, <1>1
  <2>8. View(q.m, N) = u /\ q.m = md /\ q.x = root
    BY <2>4, <2>7 DEF Now
  <2>9. root \in N
    BY <1>6, StageRoot
  <2>10. PICK sub4, h4 : Calmed(u, N, sub4, h4, K) /\ u[root][Red] = 0
    BY <2>1 DEF Ended
  <2>11. Put(u, root, Red, 0) = u
    <3>1. root \in Spots(N) /\ Red \in Fields /\ IsMap(u, N)
      BY <2>9, <2>10 DEF Spots, Fields, Red, Parent, Calmed, Shape
    <3> QED
      BY <3>1, <2>10, PutSame
  <2>12. Over(u, N, K, root, root)
    BY <2>9, <2>10, <2>11 DEF Over
  <2>13. q = [m |-> q.m, x |-> q.x, root |-> s.root]
    BY <2>7 DEF root
  <2>14. Now(l, q.m, N, View(q.m, N))
    BY <2>4, <2>8
  <2> QED
    BY <2>8, <2>12, <2>13, <2>14 DEF Stepped, root, q
<1> QED
  BY <1>12, <1>13 DEF q

\* The loop of rbt_remove_fix_up, at x: either x is on its way up, or there is no more to do.
Climbs(s, N, sub, K) ==
  LET t == View(s.m, N)
  IN  \E h, P, D : /\ Active(t, N, sub, h, K, P, D, s.x)
                   /\ t[s.x][Parent] = P /\ t[RootNode][Left] = s.root
Rests(s, N, K) ==
  ~Deficient(s) /\ \E sub, k : Calmed(Put(View(s.m, N), s.x, Red, 0), N, sub, k, K)

LEMMA Climbing ==
  ASSUME NEW N, NEW l, NEW s, NEW sub, NEW K, Climbs(s, N, sub, K), Now(l, s.m, N, View(s.m, N)),
         s = [m |-> s.m, x |-> s.x, root |-> s.root], IsFiniteSet(N)
  PROVE  /\ Deficient(s) /\ Now(l, FixStep(s).m, N, View(FixStep(s).m, N))
         /\ FixStep(s) = [m |-> FixStep(s).m, x |-> FixStep(s).x, root |-> s.root]
         /\ FixStep(s).x \in N
         /\ \/ Rests(FixStep(s), N, K)
            \/ /\ Climbs(FixStep(s), N, sub, K)
               /\ Cardinality(sub[FixStep(s).x]) >= Cardinality(sub[s.x]) + 1
<1> DEFINE t == View(s.m, N)
           q == FixStep(s)
           u == View(q.m, N)
<1>1. PICK h, P, D : /\ Active(t, N, sub, h, K, P, D, s.x)
                     /\ t[s.x][Parent] = P /\ t[RootNode][Left] = s.root
  BY DEF Climbs
<1>2. Starts(l, s, N, sub, h, K, P, D)
  BY <1>1 DEF Starts
<1>3. Stepped(l, s, q, N, sub, K)
  BY <1>2, FixStepNow
<1>4. /\ s.x \in N \union {NilNode} /\ P \in N /\ Shape(t, N, sub) /\ t[s.x][Red] = 0
  BY <1>1 DEF Active, Balanced
<1>5. Deficient(s)
  <2>1. s.m[s.x + Red] = 0
    <3>1. s.x \in Spots(N) /\ Red \in Fields
      BY <1>4 DEF Spots, Fields, Red, Parent
    <3> QED
      BY <3>1, <1>4, ReadNow
  <2>2. s.x # s.root
    <3>1. Typed(t, N) /\ Links(t, N) /\ Good(N) /\ Subtrees(t, N, sub)
      BY <1>4 DEF Shape
    <3>2. t[RootNode][Left] # NilNode
      BY <3>1, <1>4 DEF Subtrees
    <3>3. t[t[RootNode][Left]][Parent] = RootNode
      BY <3>1, <3>2 DEF Links
    <3> QED
      BY <3>1, <3>3, <1>1, <1>4 DEF Good
  <2> QED
    BY <2>1, <2>2 DEF Deficient
<1> HIDE DEF q, u, t
<1>6. q = [m |-> q.m, x |-> q.x, root |-> s.root] /\ Now(l, q.m, N, u)
  BY <1>3 DEF Stepped, u
<1>7. q.root = s.root
  BY <1>6
<1>8. CASE Higher(u, N, sub, K, q.x, s.root, s.x)
  <2>1. Climbs(q, N, sub, K) /\ q.x \in N /\ sub[s.x] \subseteq sub[q.x] /\ q.x \notin sub[s.x]
    BY <1>7, <1>8 DEF Higher, Climbs, u
  <2>2. Cardinality(sub[q.x]) >= Cardinality(sub[s.x]) + 1
    <3>1. q.x \in sub[q.x] /\ sub[q.x] \subseteq N
      BY <2>1, <1>4, Below
    <3>2. Cardinality(sub[s.x]) + 1 <= Cardinality(sub[q.x])
          /\ Cardinality(sub[s.x]) \in Nat /\ Cardinality(sub[q.x]) \in Nat
      BY <2>1, <3>1, Smaller
    <3> QED
      BY <3>2
  <2> QED
    BY <2>1, <2>2, <1>5, <1>6 DEF q, u
<1>9. CASE Over(u, N, K, q.x, s.root)
  <2>1. q.x \in N /\ (u[q.x][Red] = 1 \/ q.x = s.root)
    BY <1>9 DEF Over
  <2>2. q.m[q.x + Red] = u[q.x][Red]
    <3>1. q.x \in Spots(N) /\ Red \in Fields
      BY <2>1 DEF Spots, Fields, Red, Parent
    <3> QED
      BY <3>1, <1>6, ReadNow
  <2>3. ~Deficient(q)
    BY <2>1, <2>2, <1>7 DEF Deficient
  <2>4. Rests(q, N, K)
    BY <2>3, <1>9 DEF Rests, Over, u
  <2> QED
    BY <2>1, <2>4, <1>5, <1>6 DEF q, u
<1> QED
  BY <1>3, <1>8, <1>9 DEF Stepped, u, q

LEMMA FixUpNow ==
  ASSUME NEW N, NEW l, NEW m, NEW sub, NEW K, NEW x, NEW root, IsFiniteSet(DOMAIN l),
         Now(l, m, N, View(m, N)), sub \in [N \union {NilNode} -> SUBSET N],
         x \in N \union {NilNode}, root \in N \union {NilNode},
         NEW s0, s0 = [m |-> m, x |-> x, root |-> root],
         Climbs(s0, N, sub, K) \/ Rests(s0, N, K)
  PROVE  \E u, sub2, k : /\ Now(l, rbt_remove_fix_up(m, x, root), N, u)
                         /\ Calmed(u, N, sub2, k, K)
<1> DEFINE D == DOMAIN l
           V == Int \union {l[a] : a \in D}
           Fine(s) == /\ Now(l, s.m, N, View(s.m, N))
                      /\ Climbs(s, N, sub, K) \/ Rests(s, N, K)
           M == N \union {NilNode}
           X == {s \in [m : [D -> V], x : M, root : M] : Fine(s)}
           T == {s \in X : Deficient(s)}
           G == [s \in X |-> IF s \in T THEN FixStep(s) ELSE s]
           r == [s \in X |-> Cardinality(sub[s.x])]
           n == Rounds(m)
<1>1. /\ IsFiniteSet(N) /\ Cardinality(N) \in Nat /\ n \in Nat /\ Cardinality(N) + 2 <= n
  <2>1. DOMAIN m = D /\ Room(D, N)
    BY DEF Now, Same
  <2> QED
    BY <2>1, RoomFor DEF Rounds
<1>2. \A mm : (\E tt : Now(l, mm, N, tt)) => mm \in [D -> V]
  BY DEF Now, Same, IsMemory
<1>3. \A s \in X : /\ s = [m |-> s.m, x |-> s.x, root |-> s.root] /\ s.x \in M /\ s.root \in M
                   /\ s.m \in [D -> V] /\ Fine(s)
  OBVIOUS
<1> HIDE DEF V, D
<1>4. \A y \in M : Cardinality(sub[y]) \in Nat /\ Cardinality(sub[y]) <= Cardinality(N)
  <2>1. \A y \in M : sub[y] \subseteq N
    OBVIOUS
  <2> QED
    BY <2>1, <1>1, FS_Subset, FS_CardinalityType
<1>5. ASSUME NEW s \in T
      PROVE  FixStep(s) \in X /\ (FixStep(s) \in T =>
                Cardinality(sub[FixStep(s).x]) >= Cardinality(sub[s.x]) + 1)
  <2> DEFINE q == FixStep(s)
  <2>1. s \in X /\ Deficient(s) /\ Now(l, s.m, N, View(s.m, N)) /\ s.root \in M
        /\ s = [m |-> s.m, x |-> s.x, root |-> s.root]
    BY <1>3
  <2>2. Climbs(s, N, sub, K)
    BY <2>1, <1>3 DEF Rests
  <2>3. /\ Now(l, q.m, N, View(q.m, N))
        /\ q = [m |-> q.m, x |-> q.x, root |-> s.root] /\ q.x \in N
        /\ \/ Rests(q, N, K)
           \/ /\ Climbs(q, N, sub, K)
              /\ Cardinality(sub[q.x]) >= Cardinality(sub[s.x]) + 1
    BY <2>1, <2>2, <1>1, Climbing
  <2> HIDE DEF q
  <2>4. Fine(q) /\ q.m \in [D -> V]
    BY <2>3, <1>2
  <2>5. q \in X
    <3>1. q \in [m : [D -> V], x : M, root : M]
      BY <2>1, <2>3, <2>4
    <3> HIDE DEF Fine
    <3> QED
      BY <3>1, <2>4 DEF X
  <2>6. Deficient(q) => Cardinality(sub[q.x]) >= Cardinality(sub[s.x]) + 1
    BY <2>3 DEF Rests
  <2> QED
    BY <2>5, <2>6 DEF q, T
<1>6. s0 \in X
  <2>1. s0.m = m /\ s0.x = x /\ s0.root = root
    OBVIOUS
  <2>2. m \in [D -> V]
    BY <1>2
  <2>3. Fine(s0)
    BY <2>1
  <2> HIDE DEF Fine
  <2> QED
    BY <2>2, <2>3
<1>7. /\ G \in [X -> X] /\ r \in [X -> Int]
      /\ \A s \in X : s \notin T => G[s] = s
      /\ \A s \in X : s \in T => G[s] = FixStep(s)
      /\ \A s \in X : s \in T /\ G[s] \in T => r[G[s]] >= r[s] + 1
  <2>1. \A s \in X : Cardinality(sub[s.x]) \in Int
    BY <1>3, <1>4
  <2> HIDE DEF X
  <2>2. T \subseteq X
    OBVIOUS
  <2> HIDE DEF T
  <2>3. G \in [X -> X]
    BY <1>5
  <2>4. r \in [X -> Int]
    BY <2>1
  <2>5. \A s \in X : (s \notin T => G[s] = s) /\ (s \in T => G[s] = FixStep(s))
    OBVIOUS
  <2>6. \A s \in X : r[s] = Cardinality(sub[s.x])
    OBVIOUS
  <2> HIDE DEF G, r
  <2>7. \A s \in X : s \in T /\ G[s] \in T => r[G[s]] >= r[s] + 1
    BY <1>5, <2>2, <2>5, <2>6
  <2> QED
    BY <2>3, <2>4, <2>5, <2>7
<1>8. \A s \in X : s \in T <=> Deficient(s)
  OBVIOUS
<1>9. \A s \in X : r[s] = Cardinality(sub[s.x])
  OBVIOUS
<1> HIDE DEF X, T, G, r, n
<1>10. PICK f \in [0 .. n -> X] :
         /\ f[0] = s0 /\ \A k \in 0 .. n : k # 0 => f[k] = G[f[k - 1]]
         /\ \A k \in 0 .. n : f[k] \notin T \/ r[f[k]] >= r[s0] + k
  <2>1. Steady(X, T, G, r)
    BY <1>7 DEF Steady
  <2>2. \E f : Rounded(f, X, T, G, r, s0, n)
    BY <2>1, <1>1, <1>6, LoopsTo
  <2> QED
    BY <2>2 DEF Rounded
<1> DEFINE F(g) == [k \in 0 .. n |->
                     IF k = 0 THEN s0 ELSE LET z == g[k - 1]
                                           IN  IF Deficient(z) THEN FixStep(z) ELSE z]
           w == CHOOSE g : g = F(g)
<1>11. rbt_remove_fix_up(m, x, root) = Poke((w[n]).m, (w[n]).x + Red, 0)
  BY DEF rbt_remove_fix_up, While, Poke, n
<1>12. ASSUME NEW k \in 0 .. n, k # 0
       PROVE  f[k] = IF Deficient(f[k - 1]) THEN FixStep(f[k - 1]) ELSE f[k - 1]
  <2>1. k - 1 \in 0 .. n
    BY <1>1, <1>12
  <2>2. f[k - 1] \in X
    BY <2>1
  <2> QED
    BY <2>2, <1>7, <1>8, <1>10, <1>12
<1>13. f = F(f)
  <2>1. \A k \in 0 .. n : f[k] = F(f)[k]
    BY <1>10, <1>12
  <2> QED
    BY <2>1
<1>14. w = F(w)
  BY <1>13
<1> HIDE DEF w
<1>15. \A k \in 0 .. n : w[k] = IF k = 0 THEN s0
                         ELSE IF Deficient(w[k - 1]) THEN FixStep(w[k - 1]) ELSE w[k - 1]
  BY <1>14
<1>16. f[n] = w[n]
  <2>1. f[0] = w[0]
    BY <1>1, <1>10, <1>15
  <2>2. \A k \in 0 .. n : k # 0 /\ f[k - 1] = w[k - 1] => f[k] = w[k]
    BY <1>12, <1>15
  <2> QED
    BY <1>1, <2>1, <2>2, Alike
<1>17. f[n] \in X /\ ~Deficient(f[n])
  <2>1. n \in 0 .. n /\ f[n] \in X
    BY <1>1
  <2>2. f[n] \notin T \/ r[f[n]] >= r[s0] + n
    BY <2>1, <1>10
  <2>3. r[f[n]] <= Cardinality(N) /\ r[s0] >= 0 /\ r[f[n]] \in Int /\ r[s0] \in Int
    BY <2>1, <1>3, <1>4, <1>6, <1>9
  <2> QED
    BY <2>1, <2>2, <2>3, <1>1, <1>8
<1> DEFINE e == f[n]
           u == View(e.m, N)
<1>18. Rests(e, N, K) /\ Now(l, e.m, N, u) /\ e.x \in M
  <2>1. e = [m |-> e.m, x |-> e.x, root |-> e.root]
    BY <1>3, <1>17
  <2>2. Climbs(e, N, sub, K) => Deficient(e)
    BY <2>1, <1>1, <1>3, <1>17, Climbing
  <2> QED
    BY <2>2, <1>3, <1>17
<1> HIDE DEF e
<1>19. PICK sub2, k : Calmed(Put(u, e.x, Red, 0), N, sub2, k, K)
  BY <1>18 DEF Rests
<1>20. Now(l, Poke(e.m, e.x + Red, 0), N, Put(u, e.x, Red, 0))
  <2>1. e.x \in Spots(N) /\ Red \in Fields /\ 0 \in Int
    BY <1>18 DEF Spots, Fields, Red, Parent
  <2> QED
    BY <2>1, <1>18, PokeNow
<1>21. Now(l, rbt_remove_fix_up(m, x, root), N, Put(u, e.x, Red, 0))
  BY <1>11, <1>16, <1>20 DEF e
<1> HIDE DEF u
<1> QED
  BY <1>19, <1>21

------------------------------------------------------------------------------
\* The node y is taken out: its place, on side e of q, goes to x, its only child.
Only(t, y, x) == (t[y][Left] = NilNode /\ x = t[y][Right]) \/ (t[y][Right] = NilNode /\ x = t[y][Left])
Cut(t, u, N, y, x) ==
  /\ IsMap(u, N \ {y})
  /\ \A a \in Spots(N \ {y}), f \in Fields :
        u[a][f] = IF a = x /\ f = Parent THEN t[y][Parent]
                  ELSE IF a = t[y][Parent] /\ f = Side(t, y) THEN x ELSE t[a][f]
\* The keys J of the others are in order.
Keyed(t, N, sub, y, J) ==
  /\ J \in [N \ {y} -> Int]
  /\ \A a \in N \ {y}, d \in Dirs : \A b \in sub[t[a][d]] : b # y => Beside(J, d, b, a)
Without(N, sub, y) == [a \in (N \ {y}) \union {NilNode} |-> sub[a] \ {y}]
Heights(N, h, y) == [a \in (N \ {y}) \union {NilNode} |-> h[a]]

\* The fields of u, and the places of y and x.
CutOf(t, u, N, sub, y, x, q, e) ==
  /\ \A a \in Spots(N \ {y}) : u[a][Red] = t[a][Red]
  /\ \A a \in N \ {y} : u[a][Parent] = IF a = x THEN q ELSE t[a][Parent]
  /\ \A a \in Spots(N \ {y}), d \in Dirs : u[a][d] = IF a = q /\ d = e THEN x ELSE t[a][d]
PlaceOf(t, N, sub, y, x, q, e) ==
  /\ \A a \in N \ {y}, d \in Dirs : (t[a][d] = y <=> a = q /\ d = e) /\ t[a][d] \in N \union {NilNode}
  /\ q \in (N \ {y}) \union {RootNode} /\ e \in Dirs /\ t[q][e] = y
  /\ q = RootNode => e = Left
  /\ q # RootNode => t[RootNode][Left] # y
  /\ x \in (N \ {y}) \union {NilNode} /\ x # q
  /\ x # NilNode => t[x][Parent] = y
  /\ sub[y] = {y} \union sub[x] /\ y \notin sub[x]

LEMMA CutPlace ==
  ASSUME NEW N, NEW t, NEW sub, Shape(t, N, sub), NEW y \in N, NEW x, Only(t, y, x),
         NEW q, q = t[y][Parent], NEW e, e = Side(t, y)
  PROVE  PlaceOf(t, N, sub, y, x, q, e)
<1>1. Good(N) /\ Typed(t, N) /\ Links(t, N) /\ Subtrees(t, N, sub)
  BY DEF Shape
<1>2. /\ q \in N \union {RootNode} /\ q # y /\ e \in Dirs /\ t[q][e] = y
      /\ q = RootNode => e = Left
      /\ q \in N => q \notin sub[y]
  BY Above
<1>3. \A a \in N, d \in Dirs : t[a][d] # NilNode => t[t[a][d]][Parent] = a /\ t[a][d] # t[a][Opposite(d)]
  BY Below
<1>4. y # NilNode /\ RootNode \notin N /\ sub[NilNode] = {}
  BY <1>1 DEF Good, Subtrees
<1>5. ASSUME NEW a \in N \ {y}, NEW d \in Dirs
      PROVE  (t[a][d] = y <=> a = q /\ d = e) /\ t[a][d] \in N \union {NilNode}
  <2>1. t[a][d] \in N \union {NilNode}
    BY <1>1 DEF Typed
  <2>2. t[a][d] = y => a = q
    BY <1>3, <1>4
  <2>3. a = q /\ t[a][d] = y => d = e
    BY <1>2, <1>3, <1>4, Opposites
  <2> QED
    BY <2>1, <2>2, <2>3, <1>2
<1>6. q # RootNode => t[RootNode][Left] # y
  BY <1>1, <1>4 DEF Links
<1>7. x \in N \union {NilNode} /\ sub[y] = {y} \union sub[x] /\ y \notin sub[x]
  <2>1. sub[y] = {y} \union sub[t[y][Left]] \union sub[t[y][Right]]
        /\ y \notin sub[t[y][Left]] /\ y \notin sub[t[y][Right]]
    BY <1>1 DEF Subtrees
  <2>2. t[y][Left] \in N \union {NilNode} /\ t[y][Right] \in N \union {NilNode}
    BY <1>1 DEF Typed, Dirs
  <2> QED
    BY <2>1, <2>2, <1>4 DEF Only
<1>8. x # NilNode => t[x][Parent] = y /\ x \in sub[x]
  BY <1>3, <1>7, Opposites, Below DEF Only
<1>9. x # y /\ x # q
  <2>1. x # y
    BY <1>4, <1>7, <1>8
  <2>2. x = q => q \in N
    BY <1>2, <1>7, <1>1 DEF Good, RootNode, NilNode
  <2>3. x \in N => x \in sub[y] /\ x # NilNode
    BY <1>1, <1>7, <1>8 DEF Good
  <2>4. q \in N => q # NilNode
    BY <1>1 DEF Good
  <2> QED
    BY <2>1, <2>2, <2>3, <2>4, <1>2
<1> QED
  BY <1>2, <1>5, <1>6, <1>7, <1>8, <1>9 DEF PlaceOf

LEMMA CutFields ==
  ASSUME NEW N, NEW t, NEW u, NEW sub, NEW y, NEW x, Good(N), Cut(t, u, N, y, x),
         NEW q, q = t[y][Parent], NEW e, e = Side(t, y), e \in Dirs
  PROVE  CutOf(t, u, N, sub, y, x, q, e)
<1>1. \A a \in Spots(N \ {y}), f \in Fields :
        u[a][f] = IF a = x /\ f = Parent THEN q
                  ELSE IF a = q /\ f = e THEN x ELSE t[a][f]
  BY DEF Cut
<1>2. Red \in Fields /\ Parent \in Fields /\ Dirs \subseteq Fields /\ Red \notin Dirs /\ Parent \notin Dirs
      /\ Red # Parent
  BY DEF Fields, Dirs, Red, Left, Right, Parent
<1>3. N \ {y} \subseteq Spots(N \ {y})
  BY DEF Spots
<1>4. \A a \in Spots(N \ {y}) : u[a][Red] = t[a][Red]
  BY <1>1, <1>2
<1>5. \A a \in N \ {y} : u[a][Parent] = IF a = x THEN q ELSE t[a][Parent]
  BY <1>1, <1>2, <1>3
<1>6. \A a \in Spots(N \ {y}), d \in Dirs : u[a][d] = IF a = q /\ d = e THEN x ELSE t[a][d]
  BY <1>1, <1>2
<1> QED
  BY <1>4, <1>5, <1>6 DEF CutOf

LEMMA CutShape ==
  ASSUME NEW N, NEW t, NEW u, NEW sub, NEW h, NEW K, NEW J, NEW y \in N, NEW x,
         Calmed(t, N, sub, h, K), Only(t, y, x), Cut(t, u, N, y, x), Keyed(t, N, sub, y, J)
  PROVE  Shape(u, N \ {y}, Without(N, sub, y)) /\ Ordered(u, N \ {y}, Without(N, sub, y), J)
<1> DEFINE q == t[y][Parent]
           e == Side(t, y)
           M == N \ {y}
           v == Without(N, sub, y)
<1>1. /\ Shape(t, N, sub) /\ Good(N) /\ Typed(t, N) /\ Links(t, N) /\ Subtrees(t, N, sub)
      /\ NilNode \notin N /\ RootNode \notin N /\ sub[NilNode] = {}
  BY DEF Calmed, Shape, Good, Subtrees
<1> HIDE DEF q, e
<1>2. PlaceOf(t, N, sub, y, x, q, e)
  BY <1>1, CutPlace DEF q, e
<1>3. /\ \A a \in M, d \in Dirs : (t[a][d] = y <=> a = q /\ d = e) /\ t[a][d] \in N \union {NilNode}
      /\ q \in M \union {RootNode} /\ e \in Dirs /\ t[q][e] = y
      /\ q = RootNode => e = Left
      /\ q # RootNode => t[RootNode][Left] # y
      /\ x \in M \union {NilNode} /\ x # q
      /\ x # NilNode => t[x][Parent] = y
      /\ sub[y] = {y} \union sub[x] /\ y \notin sub[x]
  BY <1>2 DEF PlaceOf
<1>4. CutOf(t, u, N, sub, y, x, q, e)
  BY <1>1, <1>3, CutFields DEF q, e
<1>5. /\ \A a \in Spots(M) : u[a][Red] = t[a][Red]
      /\ \A a \in M : u[a][Parent] = IF a = x THEN q ELSE t[a][Parent]
      /\ \A a \in Spots(M), d \in Dirs : u[a][d] = IF a = q /\ d = e THEN x ELSE t[a][d]
  BY <1>4 DEF CutOf
<1>6. M \subseteq Spots(M) /\ RootNode \in Spots(M) /\ NilNode \in Spots(M) /\ Left \in Dirs
      /\ RootNode # NilNode
  BY Opposites DEF Spots, RootNode, NilNode
<1>7. v = [a \in M \union {NilNode} |-> sub[a] \ {y}]
  BY DEF Without
<1> HIDE DEF v, M
<1>8. M = N \ {y}
  BY DEF M
<1>9. u[RootNode][Left] = IF q = RootNode THEN x ELSE t[RootNode][Left]
  BY <1>3, <1>5, <1>6
<1>10. t[RootNode][Left] \in N \union {NilNode}
  BY <1>1 DEF Typed
<1>11. \A a \in M, d \in Dirs : /\ u[a][d] = IF a = q /\ d = e THEN x ELSE t[a][d]
                                /\ u[a][d] \in M \union {NilNode}
  <2> TAKE a \in M, d \in Dirs
  <2>1. u[a][d] = IF a = q /\ d = e THEN x ELSE t[a][d]
    BY <1>5, <1>6
  <2>2. (t[a][d] = y <=> a = q /\ d = e) /\ t[a][d] \in N \union {NilNode}
    BY <1>3, <1>8
  <2>3. x \in M \union {NilNode}
    BY <1>3, <1>8
  <2> QED
    BY <2>1, <2>2, <2>3, <1>8
<1>12. \A a \in M : t[a][Parent] \in N \union {RootNode} /\ (t[a][Parent] = y => a = x)
  <2> TAKE a \in M
  <2>1. t[a][Parent] \in N \union {RootNode}
    BY <1>1, <1>8 DEF Typed
  <2>2. t[a][Parent] = y => a = x
    <3>1. t[a][Parent] = y => \E d \in Dirs : t[y][d] = a
      BY <1>1, <1>8 DEF Links
    <3>2. \A d \in Dirs : t[y][d] = x \/ t[y][d] = NilNode
      BY DEF Only, Dirs
    <3> QED
      BY <3>1, <3>2, <1>1, <1>8
  <2> QED
    BY <2>1, <2>2
<1>13. Typed(u, M)
  <2>1. \A a \in M : /\ u[a][Red] \in {0, 1}
                     /\ \A d \in Dirs : u[a][d] \in M \union {NilNode}
                     /\ u[a][Parent] \in M \union {RootNode}
    <3> TAKE a \in M
    <3>1. u[a][Red] \in {0, 1}
      BY <1>1, <1>5, <1>6, <1>8 DEF Typed
    <3>2. u[a][Parent] \in M \union {RootNode}
      BY <1>3, <1>5, <1>8, <1>12
    <3> QED
      BY <3>1, <3>2, <1>11
  <2>2. u[RootNode][Left] \in M \union {NilNode}
    BY <1>3, <1>8, <1>9, <1>10
  <2>3. u[NilNode][Red] = 0 /\ u[RootNode][Red] = 0
    BY <1>1, <1>5, <1>6 DEF Typed
  <2> QED
    BY <2>1, <2>2, <2>3 DEF Typed
<1>14. Links(u, M)
  <2>1. ASSUME NEW a \in M, NEW d \in Dirs, u[a][d] # NilNode PROVE u[u[a][d]][Parent] = a
    <3>1. CASE a = q /\ d = e
      BY <2>1, <3>1, <1>3, <1>5, <1>11
    <3>2. CASE ~(a = q /\ d = e)
      <4>1. u[a][d] = t[a][d] /\ t[t[a][d]][Parent] = a
        BY <2>1, <3>2, <1>1, <1>8, <1>11 DEF Links
      <4>2. t[a][d] # x
        BY <2>1, <4>1, <1>3, <1>8
      <4> QED
        BY <2>1, <4>1, <4>2, <1>5, <1>11
    <3> QED
      BY <3>1, <3>2
  <2>2. u[RootNode][Left] # NilNode => u[u[RootNode][Left]][Parent] = RootNode
    <3>1. CASE q = RootNode
      BY <3>1, <1>3, <1>5, <1>9
    <3>2. CASE q # RootNode
      <4>1. t[RootNode][Left] # NilNode => t[t[RootNode][Left]][Parent] = RootNode
        BY <1>1 DEF Links
      <4>2. y # RootNode
        BY <1>1
      <4> QED
        BY <3>2, <4>1, <4>2, <1>3, <1>5, <1>8, <1>9, <1>10
    <3> QED
      BY <3>1, <3>2
  <2>3. ASSUME NEW a \in M
        PROVE  \/ u[a][Parent] = RootNode /\ u[RootNode][Left] = a
               \/ u[a][Parent] \in M /\ \E d \in Dirs : u[u[a][Parent]][d] = a
    <3>1. CASE a = x
      BY <3>1, <1>3, <1>5, <1>9, <1>11
    <3>2. CASE a # x
      <4>1. u[a][Parent] = t[a][Parent] /\ t[a][Parent] # y /\ a # y
        BY <3>2, <1>5, <1>8, <1>12
      <4>2. \/ t[a][Parent] = RootNode /\ t[RootNode][Left] = a
            \/ t[a][Parent] \in N /\ \E d \in Dirs : t[t[a][Parent]][d] = a
        BY <1>1, <1>8 DEF Links
      <4>3. CASE t[a][Parent] = RootNode /\ t[RootNode][Left] = a
        <5>1. q # RootNode
          BY <4>1, <4>3, <1>3
        <5> QED
          BY <4>1, <4>3, <5>1, <1>9
      <4>4. ASSUME t[a][Parent] \in N, NEW d \in Dirs, t[t[a][Parent]][d] = a
            PROVE  u[a][Parent] \in M /\ u[u[a][Parent]][d] = a
        BY <4>1, <4>4, <1>3, <1>8, <1>11
      <4> QED
        BY <4>2, <4>3, <4>4
    <3> QED
      BY <3>1, <3>2
  <2> QED
    BY <2>1, <2>2, <2>3 DEF Links
<1>15. \A a \in N \union {NilNode} : sub[a] \subseteq N
  BY <1>1 DEF Subtrees
<1>16. /\ v \in [M \union {NilNode} -> SUBSET M] /\ v[NilNode] = {}
       /\ \A a \in M \union {NilNode} : v[a] = sub[a] \ {y}
  BY <1>1, <1>7, <1>8, <1>15
<1>17. \A a \in M, d \in Dirs : v[u[a][d]] = sub[t[a][d]] \ {y}
  <2> TAKE a \in M, d \in Dirs
  <2>1. CASE a = q /\ d = e
    BY <2>1, <1>3, <1>11, <1>16
  <2>2. CASE ~(a = q /\ d = e)
    BY <2>2, <1>11, <1>16
  <2> QED
    BY <2>1, <2>2
<1>18. Subtrees(u, M, v)
  <2>1. sub[t[RootNode][Left]] = N
    BY <1>1 DEF Subtrees
  <2>2. v[u[RootNode][Left]] = M
    <3>1. CASE q = RootNode
      BY <3>1, <2>1, <1>3, <1>8, <1>9, <1>16
    <3>2. CASE q # RootNode
      BY <3>2, <2>1, <1>3, <1>8, <1>9, <1>10, <1>16
    <3> QED
      BY <3>1, <3>2
  <2>3. ASSUME NEW a \in M
        PROVE  /\ v[a] = {a} \union v[u[a][Left]] \union v[u[a][Right]]
               /\ a \notin v[u[a][Left]] /\ a \notin v[u[a][Right]]
               /\ v[u[a][Left]] \intersect v[u[a][Right]] = {}
    <3>1. /\ sub[a] = {a} \union sub[t[a][Left]] \union sub[t[a][Right]]
          /\ a \notin sub[t[a][Left]] /\ a \notin sub[t[a][Right]]
          /\ sub[t[a][Left]] \intersect sub[t[a][Right]] = {}
      BY <1>1, <1>8 DEF Subtrees
    <3>2. v[u[a][Left]] = sub[t[a][Left]] \ {y} /\ v[u[a][Right]] = sub[t[a][Right]] \ {y}
          /\ v[a] = sub[a] \ {y} /\ a # y
      BY <1>8, <1>16, <1>17, Opposites
    <3> QED
      BY <3>1, <3>2
  <2> QED
    BY <2>2, <2>3, <1>16 DEF Subtrees
<1>19. Ordered(u, M, v, J)
  <2>1. ASSUME NEW a \in M, NEW d \in Dirs, NEW b \in v[u[a][d]] PROVE Beside(J, d, b, a)
    <3>1. b \in sub[t[a][d]] /\ b # y
      BY <2>1, <1>17
    <3> QED
      BY <3>1, <1>8 DEF Keyed
  <2>2. J \in [M -> Int]
    BY <1>8 DEF Keyed
  <2> QED
    BY <2>1, <2>2 DEF Ordered
<1>20. IsMap(u, M) /\ Good(M)
  BY <1>1, <1>8 DEF Cut, Good
<1> QED
  BY <1>13, <1>14, <1>18, <1>19, <1>20 DEF Shape, M, v

\* Where y is red nothing is missing without it; where it is black, a black node is.
LEMMA CutLevel ==
  ASSUME NEW N, NEW t, NEW u, NEW sub, NEW h, NEW K, NEW J, NEW y \in N, NEW x,
         Calmed(t, N, sub, h, K), Only(t, y, x), Cut(t, u, N, y, x), Keyed(t, N, sub, y, J),
         NEW q, q = t[y][Parent], NEW e, e = Side(t, y)
  PROVE  /\ t[y][Red] = 1 => Calmed(u, N \ {y}, Without(N, sub, y), Heights(N, h, y), J)
         /\ t[y][Red] = 0 => Uneven(u, N \ {y}, Without(N, sub, y), Heights(N, h, y), J, q, e, x)
<1> DEFINE M == N \ {y}
           k == Heights(N, h, y)
<1>1. /\ Shape(t, N, sub) /\ Even(t, N, h) /\ Calm(t, N, NilNode) /\ t[t[RootNode][Left]][Red] = 0
      /\ Good(N) /\ Typed(t, N) /\ NilNode \notin N /\ RootNode \notin N
  BY DEF Calmed, Shape, Good
<1>2. PlaceOf(t, N, sub, y, x, q, e)
  BY <1>1, CutPlace
<1>3. /\ \A a \in M, d \in Dirs : (t[a][d] = y <=> a = q /\ d = e) /\ t[a][d] \in N \union {NilNode}
      /\ q \in M \union {RootNode} /\ e \in Dirs /\ t[q][e] = y
      /\ q = RootNode => e = Left
      /\ q # RootNode => t[RootNode][Left] # y
      /\ x \in M \union {NilNode} /\ x # q
  BY <1>2 DEF PlaceOf
<1>4. CutOf(t, u, N, sub, y, x, q, e)
  BY <1>1, <1>3, CutFields
<1>5. /\ \A a \in Spots(M) : u[a][Red] = t[a][Red]
      /\ \A a \in Spots(M), d \in Dirs : u[a][d] = IF a = q /\ d = e THEN x ELSE t[a][d]
  BY <1>4 DEF CutOf
<1>6. M \subseteq Spots(M) /\ RootNode \in Spots(M) /\ NilNode \in Spots(M) /\ Left \in Dirs
  BY Opposites DEF Spots
<1>7. Shape(u, M, Without(N, sub, y)) /\ Ordered(u, M, Without(N, sub, y), J)
  BY CutShape
<1>8. k = [a \in M \union {NilNode} |-> h[a]]
  BY DEF Heights
<1> HIDE DEF k, M
<1>9. M = N \ {y}
  BY DEF M
<1>10. /\ h \in [N \union {NilNode} -> Nat] /\ h[NilNode] = 0
       /\ \A z \in N, d \in Dirs : h[z] = h[t[z][d]] + 1 - t[z][Red]
  BY <1>1 DEF Even
<1>11. /\ k \in [M \union {NilNode} -> Nat] /\ k[NilNode] = 0
       /\ \A a \in M \union {NilNode} : k[a] = h[a] /\ h[a] \in Nat
  BY <1>8, <1>9, <1>10
<1>12. h[y] = h[x] + 1 - t[y][Red] /\ (t[y][Red] = 0 \/ t[y][Red] = 1) /\ h[x] \in Nat
       /\ \E d \in Dirs : t[y][d] = x
  BY <1>1, <1>3, <1>9, <1>10, <1>11 DEF Only, Dirs, Typed
<1>13. ASSUME NEW a \in M, NEW d \in Dirs
       PROVE  /\ a = q /\ d = e => u[a][d] = x /\ k[a] = k[u[a][d]] + 1 - u[a][Red] + 1 - t[y][Red]
              /\ ~(a = q /\ d = e) => u[a][d] = t[a][d] /\ k[a] = k[u[a][d]] + 1 - u[a][Red]
  <2>1. /\ k[a] = h[a] /\ h[a] = h[t[a][d]] + 1 - t[a][Red] /\ u[a][Red] = t[a][Red]
        /\ (t[a][Red] = 0 \/ t[a][Red] = 1)
    BY <1>1, <1>5, <1>6, <1>9, <1>10, <1>11 DEF Typed
  <2>2. CASE a = q /\ d = e
    <3>1. u[a][d] = x /\ t[a][d] = y /\ k[x] = h[x]
      BY <2>2, <1>3, <1>5, <1>6, <1>9, <1>11
    <3> QED
      BY <2>1, <2>2, <3>1, <1>12
  <2>3. CASE ~(a = q /\ d = e)
    <3>1. u[a][d] = t[a][d] /\ t[a][d] \in M \union {NilNode}
      BY <2>3, <1>3, <1>5, <1>6, <1>9, ZenonT(30)
    <3>2. k[t[a][d]] = h[t[a][d]]
      BY <3>1, <1>11
    <3> QED
      BY <2>1, <2>3, <3>1, <3>2
  <2> QED
    BY <2>2, <2>3
<1>14. u[RootNode][Left] = IF q = RootNode THEN x ELSE t[RootNode][Left]
  BY <1>3, <1>5, <1>6
<1>15. q # RootNode => t[RootNode][Left] \in M \union {NilNode} /\ u[t[RootNode][Left]][Red] = 0
  <2>1. t[RootNode][Left] \in N \union {NilNode}
    BY <1>1 DEF Typed
  <2> QED
    BY <2>1, <1>1, <1>3, <1>5, <1>6, <1>9
<1>16. \A a \in N, d \in Dirs : t[a][Red] = 1 => t[t[a][d]][Red] = 0
  BY <1>1 DEF Calm, Typed
<1>17. CASE t[y][Red] = 1
  <2>1. u[x][Red] = 0
    BY <1>3, <1>5, <1>6, <1>12, <1>16, <1>17
  <2>2. Even(u, M, k)
    <3>1. ASSUME NEW a \in M, NEW d \in Dirs PROVE k[a] = k[u[a][d]] + 1 - u[a][Red]
      <4>1. u[a][Red] = 0 \/ u[a][Red] = 1
        BY <1>7 DEF Shape, Typed
      <4>2. u[a][d] \in M \union {NilNode}
        BY <1>7 DEF Shape, Typed
      <4>3. k[u[a][d]] \in Nat
        BY <4>2, <1>11
      <4> QED
        BY <4>1, <4>3, <1>13, <1>17
    <3> QED
      BY <3>1, <1>11 DEF Even
  <2>3. Calm(u, M, NilNode)
    <3>1. ASSUME NEW a \in M, NEW d \in Dirs, u[a][Red] = 1 PROVE u[u[a][d]][Red] = 0
      <4>1. CASE a = q /\ d = e
        BY <2>1, <4>1, <1>13
      <4>2. CASE ~(a = q /\ d = e)
        <5>1. u[a][d] = t[a][d] /\ t[a][d] \in M \union {NilNode} /\ t[a][Red] = 1
          BY <3>1, <4>2, <1>3, <1>5, <1>6, <1>9, <1>13, ZenonT(30)
        <5>2. t[t[a][d]][Red] = 0
          BY <5>1, <1>9, <1>16
        <5>3. t[a][d] \in Spots(M)
          BY <5>1, <1>6
        <5> QED
          BY <5>1, <5>2, <5>3, <1>5
      <4> QED
        BY <4>1, <4>2
    <3> QED
      BY <3>1 DEF Calm
  <2>4. u[u[RootNode][Left]][Red] = 0
    BY <2>1, <1>14, <1>15
  <2>5. Calmed(u, M, Without(N, sub, y), k, J)
    BY <2>2, <2>3, <2>4, <1>7 DEF Calmed
  <2> QED
    BY <2>5, <1>17 DEF M, k
<1>18. CASE t[y][Red] = 0
  <2>1. Level(u, M, k, q, e)
    <3>1. ASSUME NEW a \in M, NEW d \in Dirs
          PROVE  k[a] = k[u[a][d]] + 1 - u[a][Red] + Gap(q, e, a, d)
      <4>1. u[a][Red] = 0 \/ u[a][Red] = 1
        BY <1>7 DEF Shape, Typed
      <4>2. u[a][d] \in M \union {NilNode}
        BY <1>7 DEF Shape, Typed
      <4>3. k[u[a][d]] \in Nat
        BY <4>2, <1>11
      <4>4. CASE a = q /\ d = e
        <5>1. Gap(q, e, a, d) = 1
          BY <4>4 DEF Gap
        <5>2. k[a] = k[u[a][d]] + 1 - u[a][Red] + 1 - t[y][Red]
          BY <4>4, <1>13
        <5> QED
          BY <4>1, <4>3, <5>1, <5>2, <1>18
      <4>5. CASE ~(a = q /\ d = e)
        <5>1. Gap(q, e, a, d) = 0
          BY <4>5 DEF Gap
        <5>2. k[a] = k[u[a][d]] + 1 - u[a][Red]
          BY <4>5, <1>13
        <5> QED
          BY <4>1, <4>3, <5>1, <5>2
      <4> QED
        BY <4>4, <4>5
    <3> QED
      BY <3>1, <1>11 DEF Level
  <2>2. CalmBut(u, M, x)
    <3>1. ASSUME NEW a \in M, NEW d \in Dirs, u[a][Red] = 1, u[a][d] # x, a # x PROVE u[u[a][d]][Red] = 0
      <4>1. ~(a = q /\ d = e)
        BY <3>1, <1>13
      <4>2. u[a][d] = t[a][d] /\ t[a][d] \in M \union {NilNode} /\ t[a][Red] = 1
        BY <3>1, <4>1, <1>3, <1>5, <1>6, <1>9, <1>13, ZenonT(30)
      <4>3. t[t[a][d]][Red] = 0
        BY <4>2, <1>9, <1>16
      <4>4. t[a][d] \in Spots(M)
        BY <4>2, <1>6
      <4> QED
        BY <4>2, <4>3, <4>4, <1>5
    <3> QED
      BY <3>1 DEF CalmBut
  <2>3. Rooted(u, x)
    BY <1>14, <1>15 DEF Rooted
  <2>4. (q = RootNode /\ u[RootNode][Left] = x) \/ (q \in M /\ e \in Dirs /\ u[q][e] = x)
    BY <1>3, <1>5, <1>6, <1>9, <1>14
  <2>5. x \in M \union {NilNode}
    BY <1>3, <1>9
  <2>6. Uneven(u, M, Without(N, sub, y), k, J, q, e, x)
    BY <2>1, <2>2, <2>3, <2>4, <2>5, <1>7 DEF Uneven
  <2> QED
    BY <2>6, <1>18 DEF M, k
<1> QED
  BY <1>12, <1>17, <1>18

\* What is below a node below b is below b.
LEMMA SubtreeIn ==
  ASSUME NEW N, NEW t, NEW sub, Shape(t, N, sub), IsFiniteSet(N)
  PROVE  \A b \in N : \A c \in sub[b] : sub[c] \subseteq sub[b]
<1> DEFINE Q(b) == \A c \in sub[b] : sub[c] \subseteq sub[b]
           P == {n \in Nat : \A b \in N : Cardinality(sub[b]) <= n => Q(b)}
<1>1. /\ \A b \in N : /\ sub[b] = {b} \union sub[t[b][Left]] \union sub[t[b][Right]]
                      /\ b \notin sub[t[b][Left]] /\ b \notin sub[t[b][Right]]
      /\ sub[NilNode] = {}
      /\ \A b \in N : sub[b] \subseteq N /\ b \in sub[b]
  BY Below DEF Shape, Subtrees
<1>2. \A b \in N : Cardinality(sub[b]) \in Nat /\ Cardinality(sub[b]) # 0
  BY <1>1, FS_Subset, FS_CardinalityType, FS_EmptySet
<1>3. 0 \in P
  BY <1>2
<1>4. ASSUME NEW n \in P PROVE n + 1 \in P
  <2>1. ASSUME NEW b \in N, Cardinality(sub[b]) <= n + 1, NEW c \in sub[b], c # b
        PROVE  sub[c] \subseteq sub[b]
    <3>1. PICK d \in Dirs : c \in sub[t[b][d]]
      BY <2>1, <1>1 DEF Dirs
    <3>2. t[b][d] \in N
      BY <3>1, <1>1 DEF Shape, Typed
    <3>3. sub[t[b][d]] \subseteq sub[b] /\ b \notin sub[t[b][d]]
      BY <3>2, Below DEF Shape, Good
    <3>4. Cardinality(sub[t[b][d]]) <= n
      <4>1. Cardinality(sub[t[b][d]]) + 1 <= Cardinality(sub[b])
        BY <1>1, <3>3, Smaller
      <4> QED
        BY <4>1, <2>1, <3>2, <1>2
    <3>5. Q(t[b][d])
      BY <3>2, <3>4
    <3> QED
      BY <3>1, <3>3, <3>5
  <2> QED
    BY <2>1
<1>5. P = Nat
  <2>1. P \in SUBSET Nat
    OBVIOUS
  <2> HIDE DEF P
  <2> QED
    BY <1>3, <1>4, <2>1, Induction
<1>6. \A b \in N : Q(b)
  BY <1>2, <1>5
<1> QED
  BY <1>6

\* A loop whose rank is bounded stops.
Walks(f, X, T, G, s, n) ==
  /\ f \in [0 .. n -> X] /\ f[0] = s
  /\ \A k \in 0 .. n : k # 0 => f[k - 1] \in X /\ f[k] = G[f[k - 1]]
  /\ f[n] \in X /\ f[n] \notin T
LEMMA Stops ==
  ASSUME NEW X, NEW T, NEW G, NEW r, Steady(X, T, G, r), NEW s \in X, NEW n \in Nat,
         \A x \in X : r[x] < r[s] + n
  PROVE  \E f : Walks(f, X, T, G, s, n)
<1>1. PICK f : Rounded(f, X, T, G, r, s, n)
  BY LoopsTo
<1>2. /\ f \in [0 .. n -> X]
      /\ f[0] = s /\ \A k \in 0 .. n : k # 0 => f[k] = G[f[k - 1]]
      /\ \A k \in 0 .. n : f[k] \notin T \/ r[f[k]] >= r[s] + k
  BY <1>1 DEF Rounded
<1>3. n \in 0 .. n /\ f[n] \in X
  BY <1>2
<1>4. r[f[n]] \in Int /\ r[s] \in Int /\ r[f[n]] < r[s] + n
  BY <1>3 DEF Steady
<1>5. f[n] \notin T
  BY <1>2, <1>3, <1>4
<1>6. \A k \in 0 .. n : k # 0 => f[k - 1] \in X
  BY <1>2
<1> QED
  BY <1>2, <1>3, <1>5, <1>6 DEF Walks

\* The leftmost node below x has the least key there of those not greater, and no left child.
First(t, N, sub, K, x, y) ==
  y \in sub[x] /\ y \in N /\ t[y][Left] = NilNode /\ \A b \in sub[x] : K[b] <= K[y]
LEMMA LeftmostNow ==
  ASSUME NEW N, NEW l, NEW m, NEW t, NEW sub, NEW K, Now(l, m, N, t), Shape(t, N, sub),
         Ordered(t, N, sub, K), IsFiniteSet(DOMAIN l), NEW x \in N
  PROVE  First(t, N, sub, K, x, Leftmost(m, x))
<1> DEFINE Fine(c) == \A b \in sub[x] : b \in sub[c] \/ \A a \in sub[c] : K[b] <= K[a]
           X == {c \in sub[x] : Fine(c)}
           T == {c \in X : m[c + Left] # NilNode}
           G == [c \in X |-> IF c \in T THEN m[c + Left] ELSE c]
           r == [c \in X |-> - Cardinality(sub[c])]
           n == Rounds(m)
<1>1. /\ IsFiniteSet(N) /\ Cardinality(N) \in Nat /\ n \in Nat /\ Cardinality(N) + 2 <= n
  <2>1. DOMAIN m = DOMAIN l /\ Room(DOMAIN l, N)
    BY DEF Now, Same
  <2> QED
    BY <2>1, RoomFor DEF Rounds
<1>2. /\ \A c \in N : c \in sub[c] /\ sub[c] \subseteq N
      /\ \A c \in N : sub[c] = {c} \union sub[t[c][Left]] \union sub[t[c][Right]]
      /\ \A c \in N : t[c][Left] # NilNode => t[c][Left] \in N /\ c \notin sub[t[c][Left]]
  <2>1. \A c \in N : sub[c] = {c} \union sub[t[c][Left]] \union sub[t[c][Right]]
    BY DEF Shape, Subtrees
  <2>2. \A c \in N : c \in sub[c] /\ sub[c] \subseteq N
    BY Below
  <2>3. \A c \in N : t[c][Left] # NilNode => t[c][Left] \in N /\ c \notin sub[t[c][Left]]
    BY Below, Opposites
  <2> QED
    BY <2>1, <2>2, <2>3
<1>3. K \in [N -> Int] /\ \A c \in N : /\ \A a \in sub[t[c][Left]] : K[a] >= K[c]
                                       /\ \A a \in sub[t[c][Right]] : K[a] <= K[c]
  BY Opposites DEF Ordered, Beside, Left, Right, Dirs
<1>4. \A c \in N : m[c + Left] = t[c][Left]
  BY ReadStep
<1>5. \A c \in N : Cardinality(sub[c]) \in Nat /\ Cardinality(sub[c]) <= Cardinality(N)
  BY <1>1, <1>2, FS_Subset, FS_CardinalityType
<1>6. \A c \in X : c \in N /\ c \in sub[x] /\ Fine(c)
  BY <1>2
<1>7. ASSUME NEW c \in X, m[c + Left] # NilNode
      PROVE  m[c + Left] \in X /\ Cardinality(sub[m[c + Left]]) + 1 <= Cardinality(sub[c])
  <2> DEFINE z == t[c][Left]
  <2>1. c \in N /\ z = m[c + Left] /\ z \in N /\ c \notin sub[z] /\ Fine(c) /\ c \in sub[x]
    BY <1>2, <1>4, <1>6, <1>7
  <2>2. sub[c] = {c} \union sub[z] \union sub[t[c][Right]] /\ z \in sub[z] /\ sub[z] \subseteq N
        /\ c \in sub[c] /\ sub[c] \subseteq N
    BY <2>1, <1>2
  <2>3. \A a \in sub[z] : \A b \in sub[c] : b \in sub[z] \/ K[b] <= K[a]
    <3> TAKE a \in sub[z]
    <3> TAKE b \in sub[c]
    <3>1. K[a] >= K[c] /\ K[a] \in Int /\ K[c] \in Int /\ K[b] \in Int
      BY <2>1, <2>2, <1>3
    <3>2. b \in sub[t[c][Right]] => K[b] <= K[c]
      BY <2>1, <1>3
    <3> QED
      BY <2>2, <3>1, <3>2
  <2> HIDE DEF z
  <2>4. \A b \in sub[x] : b \in sub[z] \/ \A a \in sub[z] : K[b] <= K[a]
    BY <2>1, <2>2, <2>3
  <2>5. z \in sub[x]
    <3>1. \A c2 \in sub[x] : sub[c2] \subseteq sub[x]
      BY <1>1, SubtreeIn
    <3> QED
      BY <2>1, <2>2, <3>1
  <2>6. z \in X
    BY <2>4, <2>5
  <2>7. Cardinality(sub[z]) + 1 <= Cardinality(sub[c])
    BY <2>1, <2>2, <1>1, Smaller
  <2> QED
    BY <2>1, <2>6, <2>7
<1>8. x \in X
  BY <1>2
<1> HIDE DEF Fine, X
<1>9. /\ \A c \in X : c \in T <=> m[c + Left] # NilNode
      /\ T \subseteq X
  OBVIOUS
<1> HIDE DEF T
<1>10. Steady(X, T, G, r)
  <2>1. G \in [X -> X] /\ \A c \in X : G[c] = IF c \in T THEN m[c + Left] ELSE c
    BY <1>7, <1>9
  <2>2. r \in [X -> Int] /\ \A c \in X : r[c] = - Cardinality(sub[c])
    BY <1>5, <1>6
  <2> HIDE DEF G, r
  <2>3. \A c \in X : c \in T /\ G[c] \in T => r[G[c]] >= r[c] + 1
    <3> TAKE c \in X
    <3> HAVE c \in T /\ G[c] \in T
    <3>1. G[c] = m[c + Left] /\ G[c] \in X /\ Cardinality(sub[G[c]]) + 1 <= Cardinality(sub[c])
      BY <2>1, <1>7, <1>9
    <3>2. Cardinality(sub[G[c]]) \in Nat /\ Cardinality(sub[c]) \in Nat
      BY <3>1, <1>5, <1>6
    <3> QED
      BY <2>2, <3>1, <3>2
  <2> QED
    BY <2>1, <2>2, <2>3 DEF Steady
<1>11. /\ \A c \in X : G[c] = IF c \in T THEN m[c + Left] ELSE c
       /\ \A c \in X : r[c] = - Cardinality(sub[c])
  OBVIOUS
<1> HIDE DEF G, r, n
<1>12. \A c \in X : r[c] < r[x] + n
  <2> TAKE c \in X
  <2>1. /\ Cardinality(sub[c]) \in Nat /\ Cardinality(sub[x]) \in Nat
        /\ Cardinality(sub[x]) <= Cardinality(N)
    BY <1>5, <1>6
  <2> QED
    BY <2>1, <1>1, <1>8, <1>11
<1>13. PICK f : Walks(f, X, T, G, x, n)
  BY <1>1, <1>8, <1>10, <1>12, Stops
<1>14. /\ f \in [0 .. n -> X] /\ f[0] = x
       /\ \A k \in 0 .. n : k # 0 => f[k - 1] \in X /\ f[k] = G[f[k - 1]]
       /\ f[n] \in X /\ f[n] \notin T
  BY <1>13 DEF Walks
<1> DEFINE F(g) == [k \in 0 .. n |->
                     IF k = 0 THEN x ELSE LET z == g[k - 1]
                                          IN  IF m[z + Left] # NilNode THEN m[z + Left] ELSE z]
           w == CHOOSE g : g = F(g)
<1>15. Leftmost(m, x) = w[n]
  BY DEF Leftmost, While, n
<1>16. \A k \in 0 .. n : k # 0 => f[k] = IF m[f[k - 1] + Left] # NilNode THEN m[f[k - 1] + Left] ELSE f[k - 1]
  BY <1>9, <1>11, <1>14
<1>17. f = F(f)
  <2>1. \A k \in 0 .. n : f[k] = F(f)[k]
    BY <1>14, <1>16
  <2> QED
    BY <2>1, <1>14
<1>18. w = F(w)
  BY <1>17
<1> HIDE DEF w
<1>19. \A k \in 0 .. n : w[k] = IF k = 0 THEN x
                    ELSE IF m[w[k - 1] + Left] # NilNode THEN m[w[k - 1] + Left] ELSE w[k - 1]
  BY <1>18
<1>20. f[n] = w[n]
  <2>1. f[0] = w[0]
    BY <1>1, <1>14, <1>19
  <2>2. \A k \in 0 .. n : k # 0 /\ f[k - 1] = w[k - 1] => f[k] = w[k]
    BY <1>16, <1>19
  <2> QED
    BY <1>1, <2>1, <2>2, Alike
<1> DEFINE y == Leftmost(m, x)
<1>21. y \in X /\ y \notin T
  BY <1>14, <1>15, <1>20
<1> HIDE DEF y
<1>22. y \in N /\ y \in sub[x] /\ Fine(y) /\ t[y][Left] = NilNode
  BY <1>4, <1>6, <1>9, <1>21
<1>23. \A b \in sub[x] : K[b] <= K[y]
  <2> TAKE b \in sub[x]
  <2>1. b \in N /\ K[b] \in Int /\ K[y] \in Int
    BY <1>2, <1>3, <1>22
  <2>2. y \in sub[y] /\ sub[NilNode] = {} /\ sub[y] = {y} \union sub[t[y][Left]] \union sub[t[y][Right]]
    BY <1>2, <1>22 DEF Shape, Subtrees
  <2>3. b \in sub[y] => b = y \/ b \in sub[t[y][Right]]
    BY <2>2, <1>22
  <2>4. b \in sub[t[y][Right]] => K[b] <= K[y]
    BY <1>3, <1>22
  <2>5. b \notin sub[y] => K[b] <= K[y]
    BY <2>2, <1>22 DEF Fine
  <2> QED
    BY <2>1, <2>3, <2>4, <2>5
<1> QED
  BY <1>22, <1>23 DEF First, y

------------------------------------------------------------------------------
\* The tree with z called y.
Swap(a, z, y) == IF a = z THEN y ELSE a
Instead(N, z, y) == (N \ {z}) \union {y}
Renames(u, v, N, z, y) ==
  /\ IsMap(v, Instead(N, z, y))
  /\ \A a \in Spots(Instead(N, z, y)) : v[a][Red] = u[Swap(a, y, z)][Red]
  /\ \A a \in Instead(N, z, y), d \in Dirs : v[a][d] = Swap(u[Swap(a, y, z)][d], z, y)
  /\ v[RootNode][Left] = Swap(u[RootNode][Left], z, y)
  /\ \A a \in Instead(N, z, y) : v[a][Parent] = Swap(u[Swap(a, y, z)][Parent], z, y)
RenamedSub(N, sub, z, y) ==
  [a \in Instead(N, z, y) \union {NilNode} |->
     {c \in Instead(N, z, y) : Swap(c, y, z) \in sub[Swap(a, y, z)]}]
RenamedHeights(N, h, z, y) == [a \in Instead(N, z, y) \union {NilNode} |-> h[Swap(a, y, z)]]
RenamedKeys(N, K, z, y) == [a \in Instead(N, z, y) |-> K[Swap(a, y, z)]]

LEMMA Swaps ==
  ASSUME NEW N, Good(N), NEW z \in N, NEW y, y \notin N, y # NilNode, y # RootNode
  PROVE  /\ \A a \in Instead(N, z, y) : /\ Swap(a, y, z) \in N /\ a # NilNode /\ a # RootNode
                                        /\ Swap(Swap(a, y, z), z, y) = a
         /\ \A x \in N : Swap(x, z, y) \in Instead(N, z, y) /\ Swap(Swap(x, z, y), y, z) = x
         /\ Swap(NilNode, z, y) = NilNode /\ Swap(NilNode, y, z) = NilNode
         /\ Swap(RootNode, z, y) = RootNode /\ Swap(RootNode, y, z) = RootNode
BY DEF Good, Swap, Instead

LEMMA Renamed ==
  ASSUME NEW N, NEW u, NEW v, NEW sub, NEW h, NEW K, NEW z \in N, NEW y, y \notin N,
         y # NilNode, y # RootNode, Calmed(u, N, sub, h, K), Renames(u, v, N, z, y)
  PROVE  Calmed(v, Instead(N, z, y), RenamedSub(N, sub, z, y), RenamedHeights(N, h, z, y),
                RenamedKeys(N, K, z, y))
<1> DEFINE M == Instead(N, z, y)
           R(a) == Swap(a, z, y)
           B(a) == Swap(a, y, z)
           sub2 == RenamedSub(N, sub, z, y)
           h2 == RenamedHeights(N, h, z, y)
           K2 == RenamedKeys(N, K, z, y)
<1>1. /\ Shape(u, N, sub) /\ Ordered(u, N, sub, K) /\ Even(u, N, h)
      /\ Calm(u, N, NilNode) /\ u[u[RootNode][Left]][Red] = 0
      /\ Good(N) /\ Typed(u, N) /\ Links(u, N) /\ Subtrees(u, N, sub)
      /\ NilNode \notin N /\ RootNode \notin N
  BY DEF Calmed, Shape, Good
<1>2. /\ \A a \in M : B(a) \in N /\ a # NilNode /\ a # RootNode /\ R(B(a)) = a
      /\ \A x \in N : R(x) \in M /\ B(R(x)) = x
      /\ R(NilNode) = NilNode /\ B(NilNode) = NilNode /\ R(RootNode) = RootNode /\ B(RootNode) = RootNode
  BY <1>1, Swaps
<1>3. /\ IsMap(v, M)
      /\ \A a \in Spots(M) : v[a][Red] = u[B(a)][Red]
      /\ \A a \in M, d \in Dirs : v[a][d] = R(u[B(a)][d])
      /\ v[RootNode][Left] = R(u[RootNode][Left])
      /\ \A a \in M : v[a][Parent] = R(u[B(a)][Parent])
  BY DEF Renames
<1>4. /\ sub2 = [a \in M \union {NilNode} |-> {c \in M : B(c) \in sub[B(a)]}]
      /\ h2 = [a \in M \union {NilNode} |-> h[B(a)]]
      /\ K2 = [a \in M |-> K[B(a)]]
  BY DEF RenamedSub, RenamedHeights, RenamedKeys
<1> HIDE DEF M, R, B, sub2, h2, K2
<1>5. M \subseteq Spots(M) /\ RootNode \in Spots(M) /\ NilNode \in Spots(M) /\ Left \in Dirs /\ Right \in Dirs
  BY Opposites DEF Spots
<1>6. \A a \in N : /\ u[a][Red] \in {0, 1}
                   /\ \A d \in Dirs : u[a][d] \in N \union {NilNode}
                   /\ u[a][Parent] \in N \union {RootNode}
  BY <1>1 DEF Typed
<1>7. u[RootNode][Left] \in N \union {NilNode} /\ u[NilNode][Red] = 0 /\ u[RootNode][Red] = 0
  BY <1>1 DEF Typed
<1>8. Typed(v, M)
  <2>1. \A a \in M : /\ v[a][Red] \in {0, 1}
                     /\ \A d \in Dirs : v[a][d] \in M \union {NilNode}
                     /\ v[a][Parent] \in M \union {RootNode}
    <3> TAKE a \in M
    <3>1. B(a) \in N /\ v[a][Red] = u[B(a)][Red] /\ v[a][Parent] = R(u[B(a)][Parent])
      BY <1>2, <1>3, <1>5
    <3>2. \A d \in Dirs : v[a][d] \in M \union {NilNode}
      BY <3>1, <1>2, <1>3, <1>6
    <3> QED
      BY <3>1, <3>2, <1>2, <1>6
  <2>2. v[RootNode][Left] \in M \union {NilNode}
    BY <1>2, <1>3, <1>7
  <2>3. v[NilNode][Red] = 0 /\ v[RootNode][Red] = 0
    BY <1>2, <1>3, <1>5, <1>7
  <2> QED
    BY <2>1, <2>2, <2>3 DEF Typed
<1>9. Links(v, M)
  <2>1. ASSUME NEW a \in M, NEW d \in Dirs, v[a][d] # NilNode PROVE v[v[a][d]][Parent] = a
    <3> DEFINE c == u[B(a)][d]
    <3>1. B(a) \in N /\ v[a][d] = R(c) /\ c \in N \union {NilNode}
      BY <1>2, <1>3, <1>6
    <3>2. c \in N /\ c # NilNode
      BY <2>1, <3>1, <1>1, <1>2
    <3>3. u[c][Parent] = B(a)
      BY <3>1, <3>2, <1>1 DEF Links
    <3> HIDE DEF c
    <3>4. v[R(c)][Parent] = R(u[B(R(c))][Parent])
      BY <3>2, <1>2, <1>3
    <3> QED
      BY <3>1, <3>2, <3>3, <3>4, <1>2
  <2>2. v[RootNode][Left] # NilNode => v[v[RootNode][Left]][Parent] = RootNode
    <3> DEFINE c == u[RootNode][Left]
    <3>1. c \in N => c # NilNode /\ u[c][Parent] = RootNode
      BY <1>1 DEF Links
    <3>2. c \in N => v[R(c)][Parent] = R(u[B(R(c))][Parent])
      BY <1>2, <1>3
    <3> HIDE DEF c
    <3>3. v[RootNode][Left] = R(c) /\ c \in N \union {NilNode}
      BY <1>3, <1>7 DEF c
    <3> QED
      BY <3>1, <3>2, <3>3, <1>2
  <2>3. ASSUME NEW a \in M
        PROVE  \/ v[a][Parent] = RootNode /\ v[RootNode][Left] = a
               \/ v[a][Parent] \in M /\ \E d \in Dirs : v[v[a][Parent]][d] = a
    <3>1. B(a) \in N /\ v[a][Parent] = R(u[B(a)][Parent]) /\ R(B(a)) = a
      BY <1>2, <1>3
    <3>2. \/ u[B(a)][Parent] = RootNode /\ u[RootNode][Left] = B(a)
          \/ u[B(a)][Parent] \in N /\ \E d \in Dirs : u[u[B(a)][Parent]][d] = B(a)
      BY <3>1, <1>1 DEF Links
    <3>3. CASE u[B(a)][Parent] = RootNode /\ u[RootNode][Left] = B(a)
      BY <3>1, <3>3, <1>2, <1>3
    <3>4. ASSUME u[B(a)][Parent] \in N, NEW d \in Dirs, u[u[B(a)][Parent]][d] = B(a)
          PROVE  v[a][Parent] \in M /\ v[v[a][Parent]][d] = a
      <4>1. v[a][Parent] \in M /\ B(v[a][Parent]) = u[B(a)][Parent]
        BY <3>1, <3>4, <1>2
      <4>2. v[v[a][Parent]][d] = R(u[B(v[a][Parent])][d])
        BY <4>1, <1>3
      <4> QED
        BY <4>1, <4>2, <3>1, <3>4
    <3> QED
      BY <3>2, <3>3, <3>4
  <2> QED
    BY <2>1, <2>2, <2>3 DEF Links
<1>10. /\ sub \in [N \union {NilNode} -> SUBSET N] /\ sub[NilNode] = {} /\ sub[u[RootNode][Left]] = N
       /\ \A x \in N : /\ sub[x] = {x} \union sub[u[x][Left]] \union sub[u[x][Right]]
                       /\ x \notin sub[u[x][Left]] /\ x \notin sub[u[x][Right]]
                       /\ sub[u[x][Left]] \intersect sub[u[x][Right]] = {}
  BY <1>1 DEF Subtrees
<1>11. \A a \in M \union {NilNode} : sub2[a] = {c \in M : B(c) \in sub[B(a)]}
  BY <1>4
<1>12. \A x \in N \union {NilNode} : sub2[R(x)] = {c \in M : B(c) \in sub[x]}
  BY <1>2, <1>11
<1>13. \A a \in M, d \in Dirs : sub2[v[a][d]] = {c \in M : B(c) \in sub[u[B(a)][d]]}
  BY <1>2, <1>3, <1>6, <1>12
<1>14. Subtrees(v, M, sub2)
  <2>1. sub2 \in [M \union {NilNode} -> SUBSET M]
    BY <1>4
  <2>2. sub2[NilNode] = {}
    BY <1>2, <1>10, <1>11
  <2>3. sub2[v[RootNode][Left]] = M
    <3>1. sub2[v[RootNode][Left]] = {c \in M : B(c) \in N}
      BY <1>3, <1>7, <1>10, <1>12
    <3> QED
      BY <3>1, <1>2
  <2>4. ASSUME NEW a \in M
        PROVE  /\ sub2[a] = {a} \union sub2[v[a][Left]] \union sub2[v[a][Right]]
               /\ a \notin sub2[v[a][Left]] /\ a \notin sub2[v[a][Right]]
               /\ sub2[v[a][Left]] \intersect sub2[v[a][Right]] = {}
    <3> DEFINE x == B(a)
               s1 == sub[u[x][Left]]
               s2 == sub[u[x][Right]]
    <3>1. x \in N /\ sub[x] = {x} \union s1 \union s2 /\ x \notin s1 /\ x \notin s2 /\ s1 \intersect s2 = {}
      BY <1>2, <1>10
    <3>2. /\ sub2[a] = {c \in M : B(c) \in sub[x]}
          /\ sub2[v[a][Left]] = {c \in M : B(c) \in s1} /\ sub2[v[a][Right]] = {c \in M : B(c) \in s2}
      BY <1>5, <1>11, <1>13
    <3>3. \A c \in M : B(c) = x <=> c = a
      BY <1>2
    <3> HIDE DEF x, s1, s2
    <3>4. \A c \in M : (c \in sub2[a] <=> B(c) \in sub[x]) /\ (c \in sub2[v[a][Left]] <=> B(c) \in s1)
                       /\ (c \in sub2[v[a][Right]] <=> B(c) \in s2)
      BY <3>2
    <3>5. sub2[a] \subseteq M /\ sub2[v[a][Left]] \subseteq M /\ sub2[v[a][Right]] \subseteq M
      BY <3>2
    <3>6. sub2[a] = {a} \union sub2[v[a][Left]] \union sub2[v[a][Right]]
      BY <3>1, <3>3, <3>4, <3>5
    <3>7. B(a) = x
      BY DEF x
    <3>8. sub2[v[a][Left]] \intersect sub2[v[a][Right]] = {}
      BY <3>1, <3>4, <3>5
    <3> QED
      BY <3>1, <3>4, <3>6, <3>7, <3>8
  <2> QED
    BY <2>1, <2>2, <2>3, <2>4 DEF Subtrees
<1>15. Ordered(v, M, sub2, K2)
  <2>1. K \in [N -> Int] /\ \A x \in N, d \in Dirs : \A b \in sub[u[x][d]] : Beside(K, d, b, x)
    BY <1>1 DEF Ordered
  <2>2. K2 \in [M -> Int] /\ \A a \in M : K2[a] = K[B(a)]
    BY <2>1, <1>2, <1>4
  <2>3. ASSUME NEW a \in M, NEW d \in Dirs, NEW b \in sub2[v[a][d]] PROVE Beside(K2, d, b, a)
    <3>1. b \in M /\ B(b) \in sub[u[B(a)][d]] /\ B(a) \in N
      BY <2>3, <1>2, <1>13
    <3>2. Beside(K, d, B(b), B(a))
      BY <3>1, <2>1
    <3> QED
      BY <3>1, <3>2, <2>2 DEF Beside
  <2> QED
    BY <2>2, <2>3 DEF Ordered
<1>16. Even(v, M, h2)
  <2>1. /\ h \in [N \union {NilNode} -> Nat] /\ h[NilNode] = 0
        /\ \A x \in N, d \in Dirs : h[x] = h[u[x][d]] + 1 - u[x][Red]
    BY <1>1 DEF Even
  <2>2. /\ \A a \in M \union {NilNode} : h2[a] = h[B(a)] /\ h[B(a)] \in Nat
        /\ h2[NilNode] = 0
    BY <2>1, <1>2, <1>4
  <2>3. h2 \in [M \union {NilNode} -> Nat]
    BY <2>2, <1>4
  <2>4. ASSUME NEW a \in M, NEW d \in Dirs PROVE h2[a] = h2[v[a][d]] + 1 - v[a][Red]
    <3>1. B(a) \in N /\ u[B(a)][d] \in N \union {NilNode} /\ v[a][d] = R(u[B(a)][d]) /\ v[a][Red] = u[B(a)][Red]
      BY <1>2, <1>3, <1>5, <1>6
    <3>2. h2[v[a][d]] = h[u[B(a)][d]]
      BY <3>1, <2>2, <1>2
    <3> QED
      BY <3>1, <3>2, <2>1, <2>2
  <2> QED
    BY <2>2, <2>3, <2>4 DEF Even
<1>17. \A x \in N \union {NilNode} : R(x) \in Spots(M) /\ v[R(x)][Red] = u[x][Red]
  BY <1>2, <1>3, <1>5
<1>18. Calm(v, M, NilNode)
  <2>1. ASSUME NEW a \in M, NEW d \in Dirs, v[a][Red] = 1 PROVE v[v[a][d]][Red] = 0
    <3>1. B(a) \in N /\ u[B(a)][d] \in N \union {NilNode} /\ v[a][d] = R(u[B(a)][d]) /\ u[B(a)][Red] = 1
      BY <2>1, <1>2, <1>3, <1>5, <1>6
    <3>2. u[u[B(a)][d]][Red] = 0
      BY <3>1, <1>1, <1>7 DEF Calm
    <3> QED
      BY <3>1, <3>2, <1>17
  <2> QED
    BY <2>1 DEF Calm
<1>19. v[v[RootNode][Left]][Red] = 0
  BY <1>1, <1>3, <1>7, <1>17
<1>20. Good(M)
  BY <1>2 DEF Good
<1>21. Shape(v, M, sub2)
  BY <1>3, <1>8, <1>9, <1>14, <1>20 DEF Shape
<1>22. Calmed(v, M, sub2, h2, K2)
  BY <1>15, <1>16, <1>18, <1>19, <1>21 DEF Calmed
<1> QED
  BY <1>22 DEF M, sub2, h2, K2

\* The links to and from z.
Around(u, N, z, q, e, cl, cr) ==
  /\ q \in N \union {RootNode} /\ q # z /\ e \in Dirs /\ (q = RootNode => e = Left)
  /\ \A a \in N, d \in Dirs : u[a][d] = z <=> a = q /\ d = e
  /\ u[RootNode][Left] = z <=> q = RootNode
  /\ cl \in N \union {NilNode} /\ cr \in N \union {NilNode} /\ cl # z /\ cr # z
  /\ \A a \in N : u[a][Parent] = z <=> a \in {cl, cr}
  /\ u[z][Left] = cl /\ u[z][Right] = cr /\ u[z][Parent] = q /\ u[z][Red] \in Int
LEMMA AroundIt ==
  ASSUME NEW N, NEW u, NEW sub, Shape(u, N, sub), NEW z \in N
  PROVE  Around(u, N, z, u[z][Parent], Side(u, z), u[z][Left], u[z][Right])
<1> DEFINE q == u[z][Parent]
           e == Side(u, z)
           cl == u[z][Left]
           cr == u[z][Right]
<1>1. Good(N) /\ Typed(u, N) /\ Links(u, N) /\ z # NilNode /\ z # RootNode /\ RootNode \notin N /\ NilNode \notin N
  BY DEF Shape, Good
<1>2. /\ q \in N \union {RootNode} /\ q # z /\ e \in Dirs /\ (q = RootNode => e = Left) /\ u[q][e] = z
      /\ q \in N => u[q][Opposite(e)] # z
  BY Above
<1>3. \A a \in N, d \in Dirs : u[a][d] # NilNode => u[u[a][d]][Parent] = a /\ u[a][d] # a /\ u[a][d] \in N
  BY Below
<1>4. \A a \in N, d \in Dirs : u[a][d] = z <=> a = q /\ d = e
  <2> TAKE a \in N, d \in Dirs
  <2>1. u[a][d] = z => a = q
    BY <1>1, <1>3
  <2>2. a = q /\ u[a][d] = z => d = e
    BY <1>2, Opposites
  <2> QED
    BY <2>1, <2>2, <1>2
<1>5. u[RootNode][Left] = z <=> q = RootNode
  BY <1>1, <1>2 DEF Links
<1>6. cl \in N \union {NilNode} /\ cr \in N \union {NilNode} /\ cl # z /\ cr # z
  BY <1>1, <1>3, Opposites DEF Typed
<1>7. \A a \in N : u[a][Parent] = z <=> a \in {cl, cr}
  <2> TAKE a \in N
  <2>1. u[a][Parent] = z => \E d \in Dirs : u[z][d] = a
    BY <1>1 DEF Links
  <2>2. a \in {cl, cr} => u[a][Parent] = z
    BY <1>1, <1>3, Opposites
  <2> QED
    BY <2>1, <2>2 DEF Dirs
<1>8. u[z][Red] \in Int
  BY <1>1 DEF Typed
<1> HIDE DEF q, e, cl, cr
<1> QED
  BY <1>2, <1>4, <1>5, <1>6, <1>7, <1>8 DEF Around, q, e, cl, cr

LEMMA TakePlaceNow ==
  ASSUME NEW N, NEW m, NEW z \in N, NEW y, y \notin N, IsMemory(m), Room(DOMAIN m, N \union {y}),
         NEW sub, Shape(View(m, N), N, sub), NEW n, n = TakePlace(m, z, y)
  PROVE  /\ Same(m, n, N \union {y})
         /\ Renames(View(m, N), View(n, Instead(N, z, y)), N, z, y)
<1> DEFINE S == N \union {y}
           M == Instead(N, z, y)
           u == View(m, N)
           q == u[z][Parent]
           e == Side(u, z)
           cl == u[z][Left]
           cr == u[z][Right]
           c == u[z][Red]
           t0 == View(m, S)
           m1 == Poke(m, y + Red, c)
           m2 == Poke(m1, y + Left, cl)
           m3 == Poke(m2, y + Right, cr)
           m4 == Poke(m3, y + Parent, q)
           m5 == Poke(m4, cl + Parent, y)
           m6 == Poke(m5, cr + Parent, y)
           m7 == Poke(m6, q + e, y)
           t1 == Put(t0, y, Red, c)
           t2 == Put(t1, y, Left, cl)
           t3 == Put(t2, y, Right, cr)
           t4 == Put(t3, y, Parent, q)
           t5 == Put(t4, cl, Parent, y)
           t6 == Put(t5, cr, Parent, y)
           t7 == Put(t6, q, e, y)
<1>1. /\ Around(u, N, z, q, e, cl, cr) /\ Good(N) /\ Good(S) /\ y # NilNode /\ y # RootNode
      /\ N \subseteq Int /\ y \in Int
  <2>1. Good(N) /\ Good(S) /\ y # NilNode /\ y # RootNode /\ N \subseteq Int /\ y \in Int
    BY DEF Room, Good
  <2> HIDE DEF u
  <2> QED
    BY <2>1, AroundIt DEF u
<1>2. /\ q \in N \union {RootNode} /\ q # z /\ e \in Dirs /\ (q = RootNode => e = Left)
      /\ \A a \in N, d \in Dirs : u[a][d] = z <=> a = q /\ d = e
      /\ u[RootNode][Left] = z <=> q = RootNode
      /\ cl \in N \union {NilNode} /\ cr \in N \union {NilNode} /\ cl # z /\ cr # z
      /\ \A a \in N : u[a][Parent] = z <=> a \in {cl, cr}
      /\ c \in Int
  BY <1>1 DEF Around
<1>3. \A a \in Spots(N), f \in Fields : m[a + f] = u[a][f] /\ t0[a][f] = u[a][f]
  BY DEF u, t0, View, Spots
<1>4. Now(m, m, S, t0)
  BY DEF Now, Same, t0
<1> HIDE DEF u, q, e, cl, cr, c, t0, m1, m2, m3, m4, m5, m6, m7, t1, t2, t3, t4, t5, t6, t7
<1>5. /\ Red \in Fields /\ Left \in Fields /\ Right \in Fields /\ Parent \in Fields /\ Dirs \subseteq Fields
      /\ Red \notin Dirs /\ Parent \notin Dirs /\ Red # Parent /\ Left # Right
      /\ \A f \in Fields : f \in {Red, Left, Right, Parent}
  BY DEF Fields, Dirs, Red, Left, Right, Parent
<1>6. /\ z \in Spots(N) /\ z \in Spots(S) /\ y \in Spots(S) /\ q \in Spots(S) /\ q \in Spots(N)
      /\ cl \in Spots(S) /\ cr \in Spots(S) /\ N \subseteq Spots(N) /\ Spots(N) \subseteq Spots(S)
      /\ NilNode \in Int /\ RootNode \in Int
  BY <1>2 DEF Spots, NilNode, RootNode
<1>7. c \in Int /\ cl \in Int /\ cr \in Int /\ q \in Int /\ y \in Int
  BY <1>1, <1>2, <1>6
<1>8. m[z + Red] = c /\ m[z + Left] = cl /\ m[z + Right] = cr /\ m[z + Parent] = q
  BY <1>3, <1>5, <1>6 DEF c, cl, cr, q
<1>9. Now(m, m1, S, t1)
  BY <1>4, <1>5, <1>6, <1>7, PokeNow DEF m1, t1
<1>10. Now(m, m2, S, t2)
  BY <1>5, <1>6, <1>7, <1>9, PokeNow DEF m2, t2
<1>11. Now(m, m3, S, t3)
  BY <1>5, <1>6, <1>7, <1>10, PokeNow DEF m3, t3
<1>12. Now(m, m4, S, t4)
  BY <1>5, <1>6, <1>7, <1>11, PokeNow DEF m4, t4
<1>13. Now(m, m5, S, t5)
  BY <1>5, <1>6, <1>7, <1>12, PokeNow DEF m5, t5
<1>14. Now(m, m6, S, t6)
  BY <1>5, <1>6, <1>7, <1>13, PokeNow DEF m6, t6
<1>15. Now(m, m7, S, t7)
  <2>1. e \in Fields
    BY <1>2, <1>5
  <2> QED
    BY <2>1, <1>6, <1>7, <1>14, PokeNow DEF m7, t7
<1>16. /\ IsMap(t0, S) /\ IsMap(t1, S) /\ IsMap(t2, S) /\ IsMap(t3, S) /\ IsMap(t4, S) /\ IsMap(t5, S)
       /\ IsMap(t6, S)
  BY <1>4, <1>9, <1>10, <1>11, <1>12, <1>13, <1>14, ReadNow
<1>17. /\ \A a \in Spots(S), f \in Fields : t1[a][f] = IF a = y /\ f = Red THEN c ELSE t0[a][f]
       /\ \A a \in Spots(S), f \in Fields : t2[a][f] = IF a = y /\ f = Left THEN cl ELSE t1[a][f]
       /\ \A a \in Spots(S), f \in Fields : t3[a][f] = IF a = y /\ f = Right THEN cr ELSE t2[a][f]
       /\ \A a \in Spots(S), f \in Fields : t4[a][f] = IF a = y /\ f = Parent THEN q ELSE t3[a][f]
  <2>1. \A a \in Spots(S), f \in Fields : t1[a][f] = IF a = y /\ f = Red THEN c ELSE t0[a][f]
    BY <1>5, <1>6, <1>16, PutFields DEF t1
  <2>2. \A a \in Spots(S), f \in Fields : t2[a][f] = IF a = y /\ f = Left THEN cl ELSE t1[a][f]
    BY <1>5, <1>6, <1>16, PutFields DEF t2
  <2>3. \A a \in Spots(S), f \in Fields : t3[a][f] = IF a = y /\ f = Right THEN cr ELSE t2[a][f]
    BY <1>5, <1>6, <1>16, PutFields DEF t3
  <2>4. \A a \in Spots(S), f \in Fields : t4[a][f] = IF a = y /\ f = Parent THEN q ELSE t3[a][f]
    BY <1>5, <1>6, <1>16, PutFields DEF t4
  <2> QED
    BY <2>1, <2>2, <2>3, <2>4
<1>18. /\ \A a \in Spots(S), f \in Fields : t5[a][f] = IF a = cl /\ f = Parent THEN y ELSE t4[a][f]
       /\ \A a \in Spots(S), f \in Fields : t6[a][f] = IF a = cr /\ f = Parent THEN y ELSE t5[a][f]
       /\ \A a \in Spots(S), f \in Fields : t7[a][f] = IF a = q /\ f = e THEN y ELSE t6[a][f]
  <2>1. e \in Fields
    BY <1>2, <1>5
  <2>2. \A a \in Spots(S), f \in Fields : t5[a][f] = IF a = cl /\ f = Parent THEN y ELSE t4[a][f]
    BY <1>5, <1>6, <1>16, PutFields DEF t5
  <2>3. \A a \in Spots(S), f \in Fields : t6[a][f] = IF a = cr /\ f = Parent THEN y ELSE t5[a][f]
    BY <1>5, <1>6, <1>16, PutFields DEF t6
  <2>4. \A a \in Spots(S), f \in Fields : t7[a][f] = IF a = q /\ f = e THEN y ELSE t6[a][f]
    BY <2>1, <1>6, <1>16, PutFields DEF t7
  <2> QED
    BY <2>2, <2>3, <2>4
<1>19. \A f \in Fields : t4[y][f] = u[z][f]
  <2>1. t4[y][Red] = c /\ t4[y][Left] = cl /\ t4[y][Right] = cr /\ t4[y][Parent] = q
    <3>1. Red # Left /\ Red # Right /\ Red # Parent /\ Left # Right /\ Left # Parent /\ Right # Parent
      BY DEF Red, Left, Right, Parent
    <3>2. t4[y][Parent] = q
      BY <1>5, <1>6, <1>17
    <3>3. t4[y][Right] = t3[y][Right] /\ t3[y][Right] = cr
      BY <3>1, <1>5, <1>6, <1>17
    <3>4. t4[y][Left] = t3[y][Left] /\ t3[y][Left] = t2[y][Left] /\ t2[y][Left] = cl
      BY <3>1, <1>5, <1>6, <1>17
    <3>5. t4[y][Red] = t3[y][Red] /\ t3[y][Red] = t2[y][Red] /\ t2[y][Red] = t1[y][Red] /\ t1[y][Red] = c
      BY <3>1, <1>5, <1>6, <1>17
    <3> QED
      BY <3>2, <3>3, <3>4, <3>5
  <2> QED
    BY <2>1, <1>5 DEF c, cl, cr, q
<1>20. y \notin Spots(N)
  BY <1>1 DEF Spots
<1>21. \A a \in Spots(N), f \in Fields : t4[a][f] = u[a][f]
  <2> TAKE a \in Spots(N), f \in Fields
  <2>1. a # y /\ a \in Spots(S)
    BY <1>6, <1>20
  <2>2. t4[a][f] = t3[a][f] /\ t3[a][f] = t2[a][f] /\ t2[a][f] = t1[a][f] /\ t1[a][f] = t0[a][f]
    BY <2>1, <1>17
  <2> QED
    BY <2>2, <1>3
<1>22. n = m7
  <2>1. LET a == [m EXCEPT ![y + Red] = m[z + Red], ![y + Left] = m[z + Left],
                           ![y + Right] = m[z + Right], ![y + Parent] = m[z + Parent]]
        IN  a = m4
    BY <1>8 DEF m4, m3, m2, m1, Poke
  <2>2. m4[y + Parent] = q /\ m4[y + Left] = cl /\ m4[y + Right] = cr
    <3>1. \A f \in Fields : m4[y + f] = u[z][f]
      BY <1>6, <1>12, <1>19, ReadNow
    <3> QED
      BY <3>1, <1>5 DEF q, cl, cr
  <2>3. m4[q + Left] = u[q][Left]
    BY <1>5, <1>6, <1>12, <1>21, ReadNow
  <2>4. e = (IF m4[q + Left] = z THEN Left ELSE Right)
    BY <2>3 DEF e, q, Side
  <2>5. n = [m4 EXCEPT ![m4[y + Left] + Parent] = y, ![m4[y + Right] + Parent] = y,
                       ![m4[y + Parent] + (IF m4[m4[y + Parent] + Left] = z THEN Left ELSE Right)] = y]
    BY <2>1 DEF TakePlace
  <2>6. n = [m4 EXCEPT ![cl + Parent] = y, ![cr + Parent] = y, ![q + e] = y]
    BY <2>2, <2>4, <2>5
  <2> QED
    BY <2>6 DEF m7, m6, m5, Poke
<1>23. Same(m, n, S) /\ View(n, S) = t7
  BY <1>15, <1>22 DEF Now
<1>24. M \subseteq S /\ Spots(M) \subseteq Spots(S) /\ M \subseteq Spots(M)
       /\ NilNode \in Spots(M) /\ RootNode \in Spots(M)
  BY DEF Instead, Spots
<1> DEFINE v == View(n, M)
<1>25. IsMap(v, M) /\ \A a \in Spots(M), f \in Fields : v[a][f] = t7[a][f]
  <2>1. \A a \in Spots(S), f \in Fields : t7[a][f] = n[a + f]
    BY <1>23, Viewed
  <2>2. IsMap(v, M)
    BY <1>5, <1>23, Viewed DEF View, IsMap, Same, IsMemory
  <2>3. \A a \in Spots(M), f \in Fields : v[a][f] = n[a + f]
    BY DEF v, View
  <2> QED
    BY <2>1, <2>2, <2>3, <1>24, SMTT(25)
<1> HIDE DEF v, M, S
<1>26. \A a \in M : a = y \/ (a \in N /\ a # z /\ a # y)
  BY DEF M, Instead
<1>27. \A a \in Spots(M), f \in Fields :
         v[a][f] = IF a = q /\ f = e THEN y ELSE IF a \in {cl, cr} /\ f = Parent THEN y ELSE t4[a][f]
  BY <1>18, <1>24, <1>25
<1>28. q # y /\ cl # y /\ cr # y /\ e # Red /\ e # Parent
  BY <1>1, <1>2, <1>5
<1>29. \A f \in Fields : v[y][f] = u[z][f]
  <2>1. y \in Spots(M)
    BY <1>24 DEF M, Instead
  <2> QED
    BY <2>1, <1>19, <1>27, <1>28
<1>30. \A a \in Spots(N) \intersect Spots(M), f \in Fields :
         v[a][f] = IF a = q /\ f = e THEN y ELSE IF a \in {cl, cr} /\ f = Parent THEN y ELSE u[a][f]
  BY <1>21, <1>27
<1>31. \A a \in Spots(M) : a = y \/ (a \in Spots(N) /\ a # z /\ a # y)
  <2>1. z # NilNode /\ z # RootNode
    BY <1>1 DEF Good
  <2> QED
    BY <2>1, <1>1, <1>26 DEF Spots
<1>32. \A a \in Spots(M) : v[a][Red] = u[Swap(a, y, z)][Red]
  BY <1>5, <1>28, <1>29, <1>30, <1>31 DEF Swap
<1>33. \A a \in M, d \in Dirs : v[a][d] = Swap(u[Swap(a, y, z)][d], z, y)
  <2> TAKE a \in M, d \in Dirs
  <2>1. CASE a = y
    <3>1. u[z][d] # z
      BY <1>2
    <3> QED
      BY <2>1, <3>1, <1>5, <1>29 DEF Swap
  <2>2. CASE a \in N /\ a # z /\ a # y
    <3>1. v[a][d] = IF a = q /\ d = e THEN y ELSE u[a][d]
      BY <2>2, <1>5, <1>6, <1>24, <1>30
    <3>2. u[a][d] = z <=> a = q /\ d = e
      BY <2>2, <1>2
    <3> QED
      BY <2>2, <3>1, <3>2 DEF Swap
  <2> QED
    BY <2>1, <2>2, <1>26
<1>34. v[RootNode][Left] = Swap(u[RootNode][Left], z, y)
  <2>1. RootNode \in Spots(N) /\ RootNode \notin {cl, cr}
    BY <1>1, <1>2 DEF Spots, Good, NilNode, RootNode
  <2>2. v[RootNode][Left] = IF RootNode = q /\ Left = e THEN y ELSE u[RootNode][Left]
    BY <2>1, <1>5, <1>24, <1>30
  <2> QED
    BY <2>2, <1>2 DEF Swap
<1>35. \A a \in M : v[a][Parent] = Swap(u[Swap(a, y, z)][Parent], z, y)
  <2> TAKE a \in M
  <2>1. CASE a = y
    <3>1. u[z][Parent] # z
      BY <1>2 DEF q
    <3> QED
      BY <2>1, <3>1, <1>5, <1>29 DEF Swap
  <2>2. CASE a \in N /\ a # z /\ a # y
    <3>1. v[a][Parent] = IF a \in {cl, cr} THEN y ELSE u[a][Parent]
      BY <2>2, <1>5, <1>6, <1>24, <1>28, <1>30
    <3>2. u[a][Parent] = z <=> a \in {cl, cr}
      BY <2>2, <1>2
    <3> QED
      BY <2>2, <3>1, <3>2 DEF Swap
  <2> QED
    BY <2>1, <2>2, <1>26
<1>36. Renames(u, v, N, z, y)
  BY <1>25, <1>32, <1>33, <1>34, <1>35 DEF Renames, M
<1> QED
  BY <1>23, <1>36 DEF u, v, M, S

LEMMA SpliceNow ==
  ASSUME NEW N, NEW m, NEW sub, IsMemory(m), Room(DOMAIN m, N), Shape(View(m, N), N, sub),
         NEW y \in N, NEW x, Only(View(m, N), y, x), NEW n, n = Splice(m, y, x)
  PROVE  /\ Same(m, n, N) /\ Cut(View(m, N), View(n, N \ {y}), N, y, x)
         /\ n[y + Red] = View(m, N)[y][Red]
<1> DEFINE t == View(m, N)
           q == t[y][Parent]
           e == Side(t, y)
           m1 == Poke(m, x + Parent, q)
           m2 == Poke(m1, q + e, x)
           t1 == Put(t, x, Parent, q)
           t2 == Put(t1, q, e, x)
           M == N \ {y}
           v == View(n, M)
<1>1. PlaceOf(t, N, sub, y, x, q, e)
  BY CutPlace
<1>2. Now(m, m, N, t)
  BY DEF Now, Same
<1>3. /\ q \in Spots(N) /\ x \in Spots(N) /\ e \in Fields /\ Parent \in Fields /\ N \subseteq Int
      /\ q \in Int /\ x \in Int
  <2>1. q \in Spots(N) /\ x \in Spots(N) /\ e \in Dirs
    BY <1>1 DEF PlaceOf, Spots
  <2>2. e \in Fields /\ Parent \in Fields
    BY <2>1 DEF Fields, Dirs, Red, Left, Right, Parent
  <2>3. N \subseteq Int /\ Spots(N) \subseteq Int
    BY DEF Room, Spots, NilNode, RootNode
  <2> QED
    BY <2>1, <2>2, <2>3
<1>4. m[y + Parent] = q /\ SideOf(m, y) = e
  <2> HIDE DEF t
  <2> QED
    BY <1>2, ReadStep DEF t
<1> HIDE DEF t, q, e, m1, m2, t1, t2
<1>5. Now(m, m1, N, t1)
  BY <1>2, <1>3, PokeNow DEF m1, t1
<1>6. Now(m, m2, N, t2)
  BY <1>3, <1>5, PokeNow DEF m2, t2
<1>7. n = m2
  BY <1>4 DEF Splice, m2, m1, Poke
<1>8. Same(m, n, N) /\ View(n, N) = t2
  <2>1. Same(m, m2, N) /\ View(m2, N) = t2
    BY <1>6 DEF Now
  <2> QED
    BY <2>1, <1>7
<1>9. IsMap(v, M) /\ \A a \in Spots(M), f \in Fields : v[a][f] = n[a + f]
  <2>1. IsMap(v, M)
    BY DEF v, View, IsMap
  <2>2. \A a \in Spots(M), f \in Fields : v[a][f] = n[a + f]
    BY DEF v, View
  <2> QED
    BY <2>1, <2>2
<1>10. Spots(M) \subseteq Spots(N)
  BY DEF Spots
<1>11. \A a \in Spots(N), f \in Fields : t2[a][f] = n[a + f]
  BY <1>8, Viewed
<1>12. IsMap(t, N) /\ IsMap(t1, N)
  BY <1>2, <1>5, ReadNow
<1>13. \A a \in Spots(N), f \in Fields : t1[a][f] = IF a = x /\ f = Parent THEN q ELSE t[a][f]
  BY <1>3, <1>12, PutFields DEF t1
<1>14. \A a \in Spots(N), f \in Fields : t2[a][f] = IF a = q /\ f = e THEN x ELSE t1[a][f]
  BY <1>3, <1>12, PutFields DEF t2
<1>15. e # Parent
  BY <1>1 DEF PlaceOf, Dirs, Left, Right, Parent
<1> HIDE DEF v, M
<1>16. \A a \in Spots(M), f \in Fields :
         v[a][f] = IF a = x /\ f = Parent THEN q ELSE IF a = q /\ f = e THEN x ELSE t[a][f]
  <2> TAKE a \in Spots(M), f \in Fields
  <2>1. v[a][f] = t2[a][f] /\ a \in Spots(N)
    BY <1>9, <1>10, <1>11
  <2> QED
    BY <2>1, <1>13, <1>14, <1>15
<1>17. Cut(t, v, N, y, x)
  BY <1>9, <1>16 DEF Cut, M, q, e
<1>18. n[y + Red] = t[y][Red]
  <2>1. y \in Spots(N) /\ Red \in Fields /\ Red # Parent /\ Red # e
    BY <1>1 DEF Spots, Fields, Red, Left, Right, Parent, PlaceOf, Dirs
  <2> QED
    BY <2>1, <1>11, <1>13, <1>14
<1> QED
  BY <1>8, <1>17, <1>18 DEF t, v, M

\* Writes to the nodes of a part are writes to nodes.
LEMMA SameWider ==
  ASSUME NEW N, NEW M, M \subseteq N, NEW m, NEW n, Same(m, n, M)
  PROVE  Same(m, n, N)
BY DEF Same, Spots

LEMMA RoomLess ==
  ASSUME NEW N, NEW M, M \subseteq N, NEW D, Room(D, N)
  PROVE  Room(D, M)
BY DEF Room, Good, Spots

\* y is spliced out, and the balance made up for where it was black.
LEMMA SpliceOutNow ==
  ASSUME NEW N, NEW m, NEW sub, NEW h, NEW K, NEW J, NEW y \in N, NEW x, IsMemory(m),
         IsFiniteSet(DOMAIN m), Room(DOMAIN m, N), Calmed(View(m, N), N, sub, h, K),
         Only(View(m, N), y, x), Keyed(View(m, N), N, sub, y, J), NEW n, n = SpliceOut(m, y, x)
  PROVE  Same(m, n, N) /\ \E sub2, k : Calmed(View(n, N \ {y}), N \ {y}, sub2, k, J)
<1> DEFINE t == View(m, N)
           M == N \ {y}
           w == Splice(m, y, x)
           v == View(w, M)
           q == t[y][Parent]
           e == Side(t, y)
           root == w[RootNode + Left]
           S == Without(N, sub, y)
           H == Heights(N, h, y)
           s0 == [m |-> w, x |-> x, root |-> root]
<1>1. Shape(t, N, sub)
  BY DEF Calmed
<1>2. Same(m, w, N) /\ Cut(t, v, N, y, x) /\ w[y + Red] = t[y][Red]
  BY <1>1, SpliceNow
<1>3. PlaceOf(t, N, sub, y, x, q, e)
  BY <1>1, CutPlace
<1>4. n = FixUp(w, y, x)
  BY DEF SpliceOut
<1>5. IsMemory(w) /\ DOMAIN w = DOMAIN m /\ M \subseteq N
  BY <1>2 DEF Same
<1>6. Room(DOMAIN w, M)
  BY <1>5, RoomLess
<1>7. /\ t[y][Red] = 1 => Calmed(v, M, S, H, J)
      /\ t[y][Red] = 0 => Uneven(v, M, S, H, J, q, e, x)
  <2> HIDE DEF t, v
  <2> QED
    BY <1>2, CutLevel DEF t
<1>8. t[y][Red] \in {0, 1}
  BY <1>1 DEF Shape, Typed
<1>9. CASE t[y][Red] = 1
  <2>1. n = w
    BY <1>2, <1>4, <1>9 DEF FixUp
  <2> QED
    BY <2>1, <1>2, <1>7, <1>9
<1>10. CASE t[y][Red] = 0
  <2>1. n = rbt_remove_fix_up(w, x, root)
    BY <1>2, <1>4, <1>10 DEF FixUp
  <2>2. Uneven(v, M, S, H, J, q, e, x)
    BY <1>7, <1>10
  <2>3. Now(w, w, M, View(w, M))
    BY <1>5, <1>6 DEF Now, Same
  <2>4. RootNode \in Spots(M) /\ Left \in Fields /\ Red \in Fields
    BY DEF Spots, Fields, Left, Red, Parent
  <2>5. Shape(v, M, S) /\ x \in M \union {NilNode}
    BY <2>2 DEF Uneven
  <2> HIDE DEF t, v, w, q, e
  <2>6. root = v[RootNode][Left] /\ root \in M \union {NilNode}
    BY <2>3, <2>4, <2>5, ReadNow DEF v, Shape, Typed
  <2>7. S \in [M \union {NilNode} -> SUBSET M]
    BY <2>5 DEF Shape, Subtrees
  <2>8. x \in Spots(M) /\ w[x + Red] = v[x][Red]
    <3>1. x \in Spots(M)
      BY <2>5 DEF Spots
    <3> QED
      BY <3>1, <2>3, <2>4, ReadNow DEF v
  <2>9. v[x][Red] \in {0, 1}
    BY <2>5 DEF Shape, Typed
  <2>i. s0.m = w /\ s0.x = x /\ s0.root = root
    OBVIOUS
  <2> HIDE DEF s0, root, S, M
  <2>10. v[x][Red] = 1 \/ q = RootNode => Rests(s0, M, J)
    <3> HAVE v[x][Red] = 1 \/ q = RootNode
    <3>1. \E k : Calmed(Put(v, x, Red, 0), M, S, k, J)
      BY <2>2, Settled
    <3>2. ~Deficient(s0)
      <4>1. q = RootNode => x = root
        <5>1. RootNode \notin M
          BY <1>1 DEF Shape, Good, M
        <5> QED
          BY <5>1, <2>2, <2>6 DEF Uneven
      <4> QED
        BY <4>1, <2>8, <2>i DEF Deficient
    <3>3. Rests(s0, M, J)
      <4>1. View(s0.m, M) = v
        BY <2>i DEF v
      <4> QED
        BY <4>1, <3>1, <3>2, <2>i DEF Rests
    <3> QED
      BY <3>3
  <2>11. v[x][Red] = 0 /\ q # RootNode => Climbs(s0, M, S, J)
    <3> HAVE v[x][Red] = 0 /\ q # RootNode
    <3>1. Active(v, M, S, H, J, q, e, x)
      BY <2>2, UnevenActive
    <3>2. v[x][Parent] = q
      <4>1. Parent \in Fields
        BY DEF Fields, Red, Parent
      <4> QED
        BY <4>1, <1>2, <2>8 DEF Cut, q, M
    <3>3. Climbs(s0, M, S, J)
      <4>1. View(s0.m, M) = v
        BY <2>i DEF v
      <4> QED
        BY <4>1, <3>1, <3>2, <2>6, <2>i DEF Climbs
    <3> QED
      BY <3>3
  <2>12. Climbs(s0, M, S, J) \/ Rests(s0, M, J)
    BY <2>9, <2>10, <2>11
  <2>13. IsFiniteSet(DOMAIN w)
    BY <1>5
  <2>14. PICK u, sub2, k : Now(w, n, M, u) /\ Calmed(u, M, sub2, k, J)
    <3> QED
      BY <2>1, <2>3, <2>5, <2>6, <2>7, <2>12, <2>13, FixUpNow DEF s0
  <2>15. Same(w, n, M) /\ View(n, M) = u
    BY <2>14 DEF Now
  <2>16. Same(w, n, N)
    BY <2>15, <1>5, SameWider
  <2>17. Same(m, n, N)
    BY <2>16, <1>2, SameStill
  <2> QED
    BY <2>14, <2>15, <2>17 DEF M, v
<1> QED
  BY <1>8, <1>9, <1>10

LEMMA KeyedSelf ==
  ASSUME NEW N, NEW t, NEW sub, NEW K, Shape(t, N, sub), Ordered(t, N, sub, K), NEW y \in N
  PROVE  Keyed(t, N, sub, y, [a \in N \ {y} |-> K[a]])
<1> DEFINE J == [a \in N \ {y} |-> K[a]]
<1>1. J \in [N \ {y} -> Int]
  BY DEF Ordered
<1>2. ASSUME NEW a \in N \ {y}, NEW d \in Dirs, NEW b \in sub[t[a][d]], b # y
      PROVE  Beside(J, d, b, a)
  <2>1. Beside(K, d, b, a)
    BY <1>2 DEF Ordered
  <2>2. b \in N
    BY <1>2, Below DEF Shape, Typed, Subtrees
  <2> QED
    BY <2>1, <2>2, <1>2 DEF Beside
<1> HIDE DEF J
<1>3. Keyed(t, N, sub, y, J)
  BY <1>1, <1>2 DEF Keyed
<1> QED
  BY <1>3 DEF J

\* Where y is the successor of z, its key may stand for the key of z.
NextKeys(N, K, z, y) == [a \in N \ {y} |-> IF a = z THEN K[y] ELSE K[a]]
LEMMA KeyedNext ==
  ASSUME NEW N, NEW t, NEW sub, NEW K, Shape(t, N, sub), Ordered(t, N, sub, K), IsFiniteSet(N),
         NEW z \in N, t[z][Right] # NilNode, NEW y, First(t, N, sub, K, t[z][Right], y)
  PROVE  y \in N /\ y # z /\ Keyed(t, N, sub, y, NextKeys(N, K, z, y))
<1> DEFINE J == NextKeys(N, K, z, y)
           r == t[z][Right]
<1>1. /\ y \in sub[r] /\ y \in N /\ \A b \in sub[r] : K[b] <= K[y]
  BY DEF First
<1>2. /\ r \in N /\ sub[r] \subseteq sub[z] /\ z \notin sub[r] /\ Right \in Dirs
  BY Below DEF Dirs
<1>3. y # z /\ y \in sub[z]
  BY <1>1, <1>2
<1>4. K \in [N -> Int] /\ \A a \in N, d \in Dirs : \A b \in sub[t[a][d]] : Beside(K, d, b, a)
  BY DEF Ordered
<1>5. J \in [N \ {y} -> Int]
  BY <1>1, <1>4 DEF NextKeys
<1>6. J[z] = K[y] /\ \A a \in N : a # y /\ a # z => J[a] = K[a]
  BY <1>3 DEF NextKeys
<1>7. ASSUME NEW a \in N \ {y}, NEW d \in Dirs, NEW b \in sub[t[a][d]], b # y
      PROVE  Beside(J, d, b, a)
  <2>1. t[a][d] \in N /\ b \in N
    <3>1. t[a][d] \in N \union {NilNode} /\ t[a][d] # NilNode
      BY DEF Shape, Typed, Subtrees
    <3> QED
      BY <3>1, Below
  <2>2. Beside(K, d, b, a)
    BY <1>4
  <2>3. CASE a = z /\ d = Left
    <3>1. b # z
      BY <2>3 DEF Shape, Subtrees
    <3>2. Beside(K, Right, y, z)
      BY <1>1, <1>2, <1>4
    <3>3. K[b] >= K[z] /\ K[y] <= K[z] /\ K[b] \in Int /\ K[z] \in Int /\ K[y] \in Int
      BY <3>2, <2>1, <2>2, <2>3, <1>1, <1>4 DEF Beside, Left, Right
    <3>4. K[b] >= K[y]
      BY <3>3
    <3> QED
      BY <3>1, <3>4, <2>1, <2>3, <1>6, <1>7 DEF Beside
  <2>4. CASE a = z /\ d # Left
    <3>1. d = Right /\ b \in sub[r]
      BY <2>4 DEF Dirs
    <3>2. b # z /\ K[b] <= K[y]
      BY <3>1, <1>1, <1>2
    <3> QED
      BY <3>2, <2>1, <2>4, <1>6, <1>7 DEF Beside
  <2>5. CASE a # z /\ b = z
    <3>1. sub[b] \subseteq sub[t[a][d]]
      BY <2>1, SubtreeIn
    <3>2. Beside(K, d, y, a)
      BY <3>1, <2>5, <1>3, <1>4
    <3> QED
      BY <3>2, <2>5, <1>6 DEF Beside
  <2>6. CASE a # z /\ b # z
    BY <2>1, <2>2, <2>6, <1>6, <1>7 DEF Beside
  <2> QED
    BY <2>3, <2>4, <2>5, <2>6
<1> HIDE DEF J
<1>8. Keyed(t, N, sub, y, J)
  BY <1>5, <1>7 DEF Keyed
<1> QED
  BY <1>1, <1>3, <1>8 DEF J

\* Keys are not fields.
LEMMA KeysSame ==
  ASSUME NEW N, NEW m, NEW n, Room(DOMAIN m, N), Same(m, n, N)
  PROVE  \A x \in Spots(N) : n[x] = m[x]
<1> TAKE x \in Spots(N)
<1>1. x \in DOMAIN m /\ x \in Int
  BY DEF Room, Parent
<1>2. ASSUME NEW y \in Spots(N), NEW f \in Fields PROVE x # y + f
  <2>1. y \in Int /\ f \in 1 .. 4
    BY DEF Room, Spots, Fields, Red, Parent, NilNode, RootNode
  <2>2. x < y => x + 5 <= y
    BY DEF Room, NodeWords, Parent
  <2>3. y < x => y + 5 <= x
    BY DEF Room, NodeWords, Parent
  <2> QED
    BY <1>1, <2>1, <2>2, <2>3
<1> QED
  BY <1>1, <1>2 DEF Same

\* The node that rbt_remove splices out, and the keys of the others then.
Goes(m, t, N, sub, K, z, y, J) ==
  /\ y \in N /\ Only(t, y, OnlyChild(m, y)) /\ Keyed(t, N, sub, y, J)
  /\ \/ y = z /\ J = [a \in N \ {z} |-> K[a]]
        /\ rbt_remove(m, z) = SpliceOut(m, y, OnlyChild(m, y))
     \/ y # z /\ J = NextKeys(N, K, z, y)
        /\ rbt_remove(m, z) = TakePlace(SpliceOut(m, y, OnlyChild(m, y)), z, y)
LEMMA GoesNow ==
  ASSUME NEW N, NEW m, NEW sub, NEW h, NEW K, Fit(m, N, sub, h, K), NEW z \in N
  PROVE  \E y, J : Goes(m, View(m, N), N, sub, K, z, y, J)
<1> DEFINE t == View(m, N)
<1>1. /\ IsMemory(m) /\ IsFiniteSet(DOMAIN m) /\ Room(DOMAIN m, N) /\ Shape(t, N, sub) /\ Ordered(t, N, sub, K)
  BY DEF Fit
<1>2. IsFiniteSet(N) /\ Now(m, m, N, t)
  BY <1>1, RoomFor DEF Now, Same
<1> HIDE DEF t
<1>3. \A x \in N : m[x + Left] = t[x][Left] /\ m[x + Right] = t[x][Right]
  BY <1>1, <1>2, ReadStep
<1>4. ASSUME NEW x \in N, NilNode \in {t[x][Left], t[x][Right]}
      PROVE  Only(t, x, OnlyChild(m, x))
  BY <1>3, <1>4 DEF Only, OnlyChild
<1>5. CASE NilNode \in {t[z][Left], t[z][Right]}
  <2> DEFINE J == [a \in N \ {z} |-> K[a]]
  <2>1. rbt_remove(m, z) = SpliceOut(m, z, OnlyChild(m, z))
    BY <1>3, <1>5 DEF rbt_remove
  <2>2. Keyed(t, N, sub, z, J)
    BY <1>1, KeyedSelf
  <2>3. Goes(m, t, N, sub, K, z, z, J)
    BY <2>1, <2>2, <1>4, <1>5 DEF Goes
  <2> QED
    BY <2>3 DEF t
<1>6. CASE NilNode \notin {t[z][Left], t[z][Right]}
  <2> DEFINE r == t[z][Right]
             y == Leftmost(m, r)
             J == NextKeys(N, K, z, y)
  <2>1. r \in N
    BY <1>1, <1>6, Below DEF Dirs
  <2> HIDE DEF r, y
  <2>2. First(t, N, sub, K, r, y)
    BY <2>1, <1>1, <1>2, LeftmostNow DEF y
  <2>3. y \in N /\ y # z /\ Keyed(t, N, sub, y, J)
    BY <2>2, <1>1, <1>2, <1>6, KeyedNext DEF r
  <2>4. rbt_remove(m, z) = TakePlace(SpliceOut(m, y, OnlyChild(m, y)), z, y)
    <3>1. tree_successor(m, z) = y
      BY <1>3, <1>6 DEF tree_successor, y, r
    <3>2. ~(NilNode \in {m[z + Left], m[z + Right]})
      BY <1>3, <1>6
    <3> QED
      BY <3>1, <3>2, <2>3 DEF rbt_remove
  <2>5. Only(t, y, OnlyChild(m, y))
    BY <2>2, <2>3, <1>4 DEF First
  <2> HIDE DEF J
  <2>6. Goes(m, t, N, sub, K, z, y, J)
    BY <2>3, <2>4, <2>5 DEF Goes, J
  <2> QED
    BY <2>6 DEF t
<1> QED
  BY <1>5, <1>6

\* Removing keeps a red-black tree of the other nodes, with their keys.
THEOREM RemoveKeeps ==
  ASSUME NEW N, NEW m, IsTree(m, N), NEW z \in N
  PROVE  IsTree(rbt_remove(m, z), N \ {z}) /\ Same(m, rbt_remove(m, z), N)
<1> DEFINE t == View(m, N)
           M == N \ {z}
           n == rbt_remove(m, z)
           K2(K) == [a \in M |-> K[a]]
<1>1. PICK sub, h, K : Fit(m, N, sub, h, K)
  BY DEF IsTree
<1>2. /\ IsMemory(m) /\ IsFiniteSet(DOMAIN m) /\ Room(DOMAIN m, N) /\ Calmed(t, N, sub, h, K)
      /\ (\A x \in N : m[x] = K[x]) /\ m[RootNode] = 0 /\ K \in [N -> Int]
  BY <1>1 DEF Fit, Calmed, Ordered
<1>3. PICK y, J : Goes(m, t, N, sub, K, z, y, J)
  BY <1>1, GoesNow
<1> DEFINE x == OnlyChild(m, y)
           s == SpliceOut(m, y, x)
           V == N \ {y}
<1> HIDE DEF t, x, s, n, M
<1>4. y \in N /\ Only(t, y, x) /\ Keyed(t, N, sub, y, J)
  BY <1>3 DEF Goes, x
<1>5. PICK sub1, h1 : Same(m, s, N) /\ Calmed(View(s, V), V, sub1, h1, J)
  <2> HIDE DEF V
  <2> QED
    BY <1>2, <1>4, SpliceOutNow DEF s, t, V
<1>6. Same(m, n, N) /\ \E sub2, h2 : Calmed(View(n, M), M, sub2, h2, K2(K))
  <2>1. CASE y = z
    <3>1. n = s /\ J = K2(K) /\ V = M
      BY <2>1, <1>3 DEF Goes, n, s, x, M
    <3> QED
      BY <3>1, <1>5
  <2>2. CASE y # z
    <3>1. n = TakePlace(s, z, y) /\ J = NextKeys(N, K, z, y)
      BY <2>2, <1>3 DEF Goes, n, s, x
    <3>2. V \union {y} = N /\ z \in V /\ y \notin V /\ y # NilNode /\ y # RootNode
      BY <2>2, <1>2, <1>4 DEF Room, Good
    <3>3. Instead(V, z, y) = M
      BY <2>2, <1>4 DEF Instead, M
    <3>4. IsMemory(s) /\ Room(DOMAIN s, N) /\ Shape(View(s, V), V, sub1)
      BY <1>2, <1>5 DEF Same, Calmed
    <3> HIDE DEF V
    <3>5. Same(s, n, N) /\ Renames(View(s, V), View(n, M), V, z, y)
      BY <3>1, <3>2, <3>3, <3>4, TakePlaceNow
    <3>6. Calmed(View(n, M), M, RenamedSub(V, sub1, z, y), RenamedHeights(V, h1, z, y), RenamedKeys(V, J, z, y))
      BY <3>2, <3>3, <3>5, <1>5, Renamed
    <3>7. RenamedKeys(V, J, z, y) = K2(K)
      <4>1. \A a \in M : J[Swap(a, y, z)] = K[a]
        BY <3>1, <2>2 DEF NextKeys, Swap, M
      <4> QED
        BY <4>1, <3>3 DEF RenamedKeys
    <3>8. Same(m, n, N)
      BY <3>5, <1>5, SameStill
    <3> QED
      BY <3>6, <3>7, <3>8
  <2> QED
    BY <2>1, <2>2
<1>7. PICK sub2, h2 : Calmed(View(n, M), M, sub2, h2, K2(K))
  BY <1>6
<1>8. \A a \in Spots(N) : n[a] = m[a]
  BY <1>2, <1>6, KeysSame
<1>9. (\A a \in M : n[a] = K2(K)[a]) /\ n[RootNode] = 0
  BY <1>2, <1>8 DEF Spots, M
<1>10. IsMemory(n) /\ IsFiniteSet(DOMAIN n) /\ Room(DOMAIN n, M)
  BY <1>2, <1>6, RoomLess DEF Same, M
<1> HIDE DEF K2
<1>11. Fit(n, M, sub2, h2, K2(K))
  BY <1>7, <1>9, <1>10 DEF Fit, Calmed
<1> QED
  BY <1>6, <1>11 DEF IsTree, n, M

------------------------------------------------------------------------------
\* A query finds a node whose key is not less, unless all keys are less.
THEOREM QueryFinds ==
  ASSUME NEW N, NEW m, IsTree(m, N), NEW q \in Int
  PROVE  \/ rbt_query_ge(m, q) = Null /\ \A b \in N : m[b] < q
         \/ rbt_query_ge(m, q) \in N /\ m[rbt_query_ge(m, q)] >= q
<1>1. PICK sub, h, K : Fit(m, N, sub, h, K)
  BY DEF IsTree
<1> DEFINE t == View(m, N)
           Fine(c) == \A b \in N : b \in sub[c] \/ K[b] < q
           X == {c \in N \union {NilNode} : Fine(c)}
           T == {c \in X : c # NilNode /\ m[c] < q}
           G == [c \in X |-> IF c \in T THEN m[c + Left] ELSE c]
           r == [c \in X |-> - Cardinality(sub[c])]
           n == Rounds(m)
           x == m[RootNode + Left]
<1>2. /\ IsMemory(m) /\ IsFiniteSet(DOMAIN m) /\ Room(DOMAIN m, N) /\ Shape(t, N, sub) /\ Ordered(t, N, sub, K)
      /\ (\A b \in N : m[b] = K[b]) /\ K \in [N -> Int]
  BY <1>1 DEF Fit, Ordered
<1>3. /\ IsFiniteSet(N) /\ Cardinality(N) \in Nat /\ n \in Nat /\ Cardinality(N) + 2 <= n
  BY <1>2, RoomFor DEF Rounds
<1>4. Now(m, m, N, t)
  BY <1>2 DEF Now, Same
<1> HIDE DEF t
<1>5. /\ \A c \in N : c \in sub[c] /\ sub[c] \subseteq N
      /\ \A c \in N : sub[c] = {c} \union sub[t[c][Left]] \union sub[t[c][Right]]
      /\ \A c \in N : t[c][Left] \in N \union {NilNode} /\ c \notin sub[t[c][Left]]
      /\ sub[NilNode] = {} /\ sub[t[RootNode][Left]] = N /\ t[RootNode][Left] \in N \union {NilNode}
  <2>1. /\ \A c \in N : sub[c] = {c} \union sub[t[c][Left]] \union sub[t[c][Right]]
        /\ sub[NilNode] = {} /\ sub[t[RootNode][Left]] = N
        /\ \A c \in N : c \notin sub[t[c][Left]]
    BY <1>2 DEF Shape, Subtrees
  <2>2. \A c \in N : c \in sub[c] /\ sub[c] \subseteq N
    BY <1>2, Below
  <2>3. t[RootNode][Left] \in N \union {NilNode} /\ \A c \in N : t[c][Left] \in N \union {NilNode}
    BY <1>2, Opposites DEF Shape, Typed
  <2> QED
    BY <2>1, <2>2, <2>3
<1>6. \A c \in N : \A a \in sub[t[c][Right]] : K[a] <= K[c]
  BY <1>2, Opposites DEF Ordered, Beside, Left, Right, Dirs
<1>7. (\A c \in N : m[c + Left] = t[c][Left]) /\ x = t[RootNode][Left]
  <2>1. RootNode \in Spots(N) /\ Left \in Fields
    BY DEF Spots, Fields, Left, Red, Parent
  <2> QED
    BY <2>1, <1>2, <1>4, ReadStep, ReadNow
<1>8. \A c \in N \union {NilNode} : Cardinality(sub[c]) \in Nat /\ Cardinality(sub[c]) <= Cardinality(N)
  <2>1. \A c \in N \union {NilNode} : sub[c] \subseteq N
    BY <1>5
  <2> QED
    BY <2>1, <1>3, FS_Subset, FS_CardinalityType
<1>9. ASSUME NEW c \in X, c # NilNode, m[c] < q
      PROVE  m[c + Left] \in X /\ Cardinality(sub[m[c + Left]]) + 1 <= Cardinality(sub[c])
  <2> DEFINE z == t[c][Left]
  <2>1. c \in N /\ z = m[c + Left] /\ z \in N \union {NilNode} /\ c \notin sub[z] /\ Fine(c) /\ K[c] < q
    BY <1>2, <1>5, <1>7, <1>9
  <2>2. sub[c] = {c} \union sub[z] \union sub[t[c][Right]] /\ sub[c] \subseteq N /\ c \in sub[c]
    BY <2>1, <1>5
  <2>3. \A b \in N : b \in sub[z] \/ K[b] < q
    <3> TAKE b \in N
    <3>1. b \in sub[t[c][Right]] => K[b] <= K[c]
      BY <2>1, <1>6
    <3>2. K[b] \in Int /\ K[c] \in Int
      BY <2>1, <1>2
    <3> QED
      BY <2>1, <2>2, <3>1, <3>2
  <2> HIDE DEF z
  <2>4. z \in X
    BY <2>1, <2>3
  <2>5. Cardinality(sub[z]) + 1 <= Cardinality(sub[c])
    BY <2>1, <2>2, <1>3, Smaller
  <2> QED
    BY <2>1, <2>4, <2>5
<1>10. x \in X
  BY <1>5, <1>7
<1>11. \A c \in X : c \in N \union {NilNode} /\ Fine(c)
  OBVIOUS
<1> HIDE DEF Fine, X
<1>12. (\A c \in X : c \in T <=> c # NilNode /\ m[c] < q) /\ T \subseteq X
  OBVIOUS
<1> HIDE DEF T
<1>13. Steady(X, T, G, r)
  <2>1. G \in [X -> X] /\ \A c \in X : G[c] = IF c \in T THEN m[c + Left] ELSE c
    BY <1>9, <1>12
  <2>2. r \in [X -> Int] /\ \A c \in X : r[c] = - Cardinality(sub[c])
    BY <1>8, <1>11
  <2> HIDE DEF G, r
  <2>3. \A c \in X : c \in T /\ G[c] \in T => r[G[c]] >= r[c] + 1
    <3> TAKE c \in X
    <3> HAVE c \in T /\ G[c] \in T
    <3>1. G[c] = m[c + Left] /\ G[c] \in X /\ Cardinality(sub[G[c]]) + 1 <= Cardinality(sub[c])
      BY <2>1, <1>9, <1>12
    <3>2. Cardinality(sub[G[c]]) \in Nat /\ Cardinality(sub[c]) \in Nat
      BY <3>1, <1>8, <1>11
    <3> QED
      BY <2>2, <3>1, <3>2
  <2> QED
    BY <2>1, <2>2, <2>3 DEF Steady
<1>14. /\ \A c \in X : G[c] = IF c \in T THEN m[c + Left] ELSE c
       /\ \A c \in X : r[c] = - Cardinality(sub[c])
  OBVIOUS
<1> HIDE DEF G, r, n, x
<1>15. \A c \in X : r[c] < r[x] + n
  <2> TAKE c \in X
  <2>1. /\ Cardinality(sub[c]) \in Nat /\ Cardinality(sub[x]) \in Nat
        /\ Cardinality(sub[x]) <= Cardinality(N)
    BY <1>8, <1>10, <1>11
  <2> QED
    BY <2>1, <1>3, <1>10, <1>14
<1>16. PICK f : Walks(f, X, T, G, x, n)
  BY <1>3, <1>10, <1>13, <1>15, Stops
<1>17. /\ f \in [0 .. n -> X] /\ f[0] = x
       /\ \A k \in 0 .. n : k # 0 => f[k - 1] \in X /\ f[k] = G[f[k - 1]]
       /\ f[n] \in X /\ f[n] \notin T
  BY <1>16 DEF Walks
<1> DEFINE F(g) == [k \in 0 .. n |->
                     IF k = 0 THEN x ELSE LET z == g[k - 1]
                                          IN  IF z # NilNode /\ m[z] < q THEN m[z + Left] ELSE z]
           w == CHOOSE g : g = F(g)
<1>18. rbt_query_ge(m, q) = IF w[n] = NilNode THEN Null ELSE w[n]
  BY DEF rbt_query_ge, While, n, x
<1>19. \A k \in 0 .. n : k # 0 =>
          f[k] = IF f[k - 1] # NilNode /\ m[f[k - 1]] < q THEN m[f[k - 1] + Left] ELSE f[k - 1]
  BY <1>12, <1>14, <1>17
<1>20. f = F(f)
  <2>1. \A k \in 0 .. n : f[k] = F(f)[k]
    BY <1>17, <1>19
  <2> QED
    BY <2>1, <1>17
<1>21. w = F(w)
  BY <1>20
<1> HIDE DEF w
<1>22. \A k \in 0 .. n : w[k] = IF k = 0 THEN x
              ELSE IF w[k - 1] # NilNode /\ m[w[k - 1]] < q THEN m[w[k - 1] + Left] ELSE w[k - 1]
  BY <1>21
<1>23. f[n] = w[n]
  <2>1. f[0] = w[0]
    BY <1>3, <1>17, <1>22
  <2>2. \A k \in 0 .. n : k # 0 /\ f[k - 1] = w[k - 1] => f[k] = w[k]
    BY <1>19, <1>22
  <2> QED
    BY <1>3, <2>1, <2>2, Alike
<1> DEFINE y == w[n]
<1>24. y \in X /\ y \notin T
  BY <1>17, <1>23
<1> HIDE DEF y
<1>25. y \in N \union {NilNode} /\ Fine(y) /\ (y = NilNode \/ ~(m[y] < q))
  BY <1>11, <1>12, <1>24
<1>26. CASE y = NilNode
  <2>1. \A b \in N : m[b] < q
    BY <1>2, <1>5, <1>25, <1>26 DEF Fine
  <2> QED
    BY <2>1, <1>18, <1>26 DEF y
<1>27. CASE y # NilNode
  <2>1. y \in N /\ m[y] \in Int /\ ~(m[y] < q)
    BY <1>2, <1>25, <1>27
  <2>2. m[y] >= q
    BY <2>1
  <2> QED
    BY <2>1, <2>2, <1>18, <1>27 DEF y
<1> QED
  BY <1>26, <1>27

------------------------------------------------------------------------------
\* A set that has b and with each node its children has all that is below b.
LEMMA Closed ==
  ASSUME NEW N, NEW t, NEW sub, Shape(t, N, sub), IsFiniteSet(N), NEW V,
         \A c \in V \intersect N, d \in Dirs : t[c][d] # NilNode => t[c][d] \in V
  PROVE  \A b \in N : b \in V => sub[b] \subseteq V
<1> DEFINE Q(b) == b \in V => sub[b] \subseteq V
           P == {n \in Nat : \A b \in N : Cardinality(sub[b]) <= n => Q(b)}
<1>1. /\ \A b \in N : /\ sub[b] = {b} \union sub[t[b][Left]] \union sub[t[b][Right]]
                      /\ b \notin sub[t[b][Left]] /\ b \notin sub[t[b][Right]]
      /\ sub[NilNode] = {}
      /\ \A b \in N : sub[b] \subseteq N /\ b \in sub[b]
  BY Below DEF Shape, Subtrees
<1>2. \A b \in N : Cardinality(sub[b]) \in Nat /\ Cardinality(sub[b]) # 0
  BY <1>1, FS_Subset, FS_CardinalityType, FS_EmptySet
<1>3. 0 \in P
  BY <1>2
<1>4. ASSUME NEW n \in P PROVE n + 1 \in P
  <2>1. ASSUME NEW b \in N, Cardinality(sub[b]) <= n + 1, b \in V, NEW c \in sub[b], c # b
        PROVE  c \in V
    <3>1. PICK d \in Dirs : c \in sub[t[b][d]]
      BY <2>1, <1>1 DEF Dirs
    <3>2. t[b][d] \in N /\ t[b][d] # NilNode
      BY <3>1, <1>1 DEF Shape, Typed
    <3>3. sub[t[b][d]] \subseteq sub[b] /\ b \notin sub[t[b][d]]
      BY <3>2, Below DEF Shape, Good
    <3>4. Cardinality(sub[t[b][d]]) <= n
      <4>1. Cardinality(sub[t[b][d]]) + 1 <= Cardinality(sub[b])
        BY <1>1, <3>3, Smaller
      <4> QED
        BY <4>1, <2>1, <3>2, <1>2
    <3>5. Q(t[b][d])
      BY <3>2, <3>4
    <3> QED
      BY <3>1, <3>2, <3>5, <2>1
  <2> QED
    BY <2>1
<1>5. P = Nat
  <2>1. P \in SUBSET Nat
    OBVIOUS
  <2> HIDE DEF P
  <2> QED
    BY <1>3, <1>4, <2>1, Induction
<1>6. \A b \in N : Q(b)
  BY <1>2, <1>5
<1> QED
  BY <1>6

\* The nodes that can be reached from x are those below it.
LEMMA NodesNow ==
  ASSUME NEW N, NEW m, NEW sub, NEW h, NEW K, Fit(m, N, sub, h, K), NEW x \in N \union {NilNode}
  PROVE  Nodes(m, x) = sub[x]
<1> DEFINE t == View(m, N)
           Children(V) == {m[y + d] : y \in V, d \in {Left, Right}} \ {NilNode}
           s == {x} \ {NilNode}
           X == {V \in SUBSET sub[x] : s \subseteq V}
           T == {V \in X : ~(Children(V) \subseteq V)}
           G == [V \in X |-> IF V \in T THEN V \union Children(V) ELSE V]
           r == [V \in X |-> Cardinality(V)]
           n == Rounds(m)
<1>1. /\ IsMemory(m) /\ IsFiniteSet(DOMAIN m) /\ Room(DOMAIN m, N) /\ Shape(t, N, sub)
  BY DEF Fit
<1>2. /\ IsFiniteSet(N) /\ Cardinality(N) \in Nat /\ n \in Nat /\ Cardinality(N) + 2 <= n
  BY <1>1, RoomFor DEF Rounds
<1>3. Now(m, m, N, t)
  BY <1>1 DEF Now, Same
<1> HIDE DEF t
<1>4. /\ \A c \in N : c \in sub[c] /\ sub[c] \subseteq N
      /\ \A c \in N, d \in Dirs : t[c][d] # NilNode => t[c][d] \in N /\ sub[t[c][d]] \subseteq sub[c]
      /\ sub[NilNode] = {} /\ NilNode \notin N
  <2>1. \A c \in N : c \in sub[c] /\ sub[c] \subseteq N
    BY <1>1, Below
  <2>2. \A c \in N, d \in Dirs : t[c][d] # NilNode => t[c][d] \in N /\ sub[t[c][d]] \subseteq sub[c]
    BY <1>1, Below
  <2> QED
    BY <2>1, <2>2, <1>1 DEF Shape, Subtrees, Good
<1>5. \A c \in N, d \in Dirs : m[c + d] = t[c][d]
  BY <1>1, <1>3, ReadStep
<1>6. sub[x] \subseteq N /\ s \subseteq sub[x]
  BY <1>4
<1>7. ASSUME NEW V \in X PROVE Children(V) \subseteq sub[x]
  <2>1. \A y \in V, d \in Dirs : m[y + d] # NilNode => m[y + d] \in sub[x]
    <3> TAKE y \in V, d \in Dirs
    <3> HAVE m[y + d] # NilNode
    <3>1. y \in sub[x] /\ y \in N
      BY <1>6
    <3>2. sub[y] \subseteq sub[x]
      <4>1. x \in N
        BY <3>1, <1>4
      <4> QED
        BY <4>1, <3>1, <1>1, <1>2, SubtreeIn
    <3>3. t[y][d] \in N /\ sub[t[y][d]] \subseteq sub[y] /\ t[y][d] \in sub[t[y][d]]
      BY <3>1, <1>4, <1>5
    <3> QED
      BY <3>1, <3>2, <3>3, <1>5
  <2> QED
    BY <2>1 DEF Dirs
<1> HIDE DEF Children
<1>8. s \in X
  BY <1>6
<1>9. \A V \in X : /\ IsFiniteSet(V) /\ Cardinality(V) \in Nat /\ Cardinality(V) <= Cardinality(N)
                   /\ V \subseteq sub[x] /\ s \subseteq V
  <2>1. \A V \in X : V \subseteq N
    BY <1>6
  <2> QED
    BY <2>1, <1>2, FS_Subset, FS_CardinalityType
<1>10. ASSUME NEW V \in X, V \in T
       PROVE  V \union Children(V) \in X /\ Cardinality(V \union Children(V)) >= Cardinality(V) + 1
  <2> DEFINE W == V \union Children(V)
  <2>1. W \in X
    BY <1>7
  <2>2. PICK e : e \in W /\ e \notin V
    BY <1>10
  <2>3. W \subseteq N
    BY <2>1, <1>6
  <2> HIDE DEF W
  <2>4. V \subseteq W
    BY DEF W
  <2>5. Cardinality(V) + 1 <= Cardinality(W)
    BY <2>2, <2>3, <2>4, <1>2, Smaller
  <2> QED
    BY <2>1, <2>5, <1>9 DEF W
<1>11. \A V \in X : V \in T <=> ~(Children(V) \subseteq V)
  OBVIOUS
<1> HIDE DEF X, T, s
<1>12. Steady(X, T, G, r)
  <2>1. G \in [X -> X] /\ \A V \in X : G[V] = IF V \in T THEN V \union Children(V) ELSE V
    BY <1>10
  <2>2. r \in [X -> Int] /\ \A V \in X : r[V] = Cardinality(V)
    BY <1>9
  <2> HIDE DEF G, r, Children
  <2> QED
    BY <2>1, <2>2, <1>10 DEF Steady
<1>13. /\ \A V \in X : G[V] = IF V \in T THEN V \union Children(V) ELSE V
       /\ \A V \in X : r[V] = Cardinality(V)
  OBVIOUS
<1> HIDE DEF G, r, n
<1>14. \A V \in X : r[V] < r[s] + n
  <2> TAKE V \in X
  <2>1. Cardinality(V) \in Nat /\ Cardinality(s) \in Nat /\ Cardinality(V) <= Cardinality(N)
    BY <1>8, <1>9
  <2> QED
    BY <2>1, <1>2, <1>8, <1>13
<1>15. PICK f : Walks(f, X, T, G, s, n)
  BY <1>2, <1>8, <1>12, <1>14, Stops
<1>16. /\ f \in [0 .. n -> X] /\ f[0] = s
       /\ \A k \in 0 .. n : k # 0 => f[k - 1] \in X /\ f[k] = G[f[k - 1]]
       /\ f[n] \in X /\ f[n] \notin T
  BY <1>15 DEF Walks
<1> DEFINE F(g) == [k \in 0 .. n |->
                     IF k = 0 THEN s ELSE LET V == g[k - 1]
                                          IN  IF ~(Children(V) \subseteq V) THEN V \union Children(V) ELSE V]
           w == CHOOSE g : g = F(g)
<1>17. Nodes(m, x) = w[n]
  BY DEF Nodes, While, n, s, Children
<1>18. \A k \in 0 .. n : k # 0 =>
          f[k] = IF ~(Children(f[k - 1]) \subseteq f[k - 1]) THEN f[k - 1] \union Children(f[k - 1]) ELSE f[k - 1]
  BY <1>11, <1>13, <1>16
<1>19. f = F(f)
  <2>1. \A k \in 0 .. n : f[k] = F(f)[k]
    BY <1>16, <1>18
  <2> QED
    BY <2>1, <1>16
<1>20. w = F(w)
  BY <1>19
<1> HIDE DEF w
<1>21. \A k \in 0 .. n : w[k] = IF k = 0 THEN s
          ELSE IF ~(Children(w[k - 1]) \subseteq w[k - 1]) THEN w[k - 1] \union Children(w[k - 1]) ELSE w[k - 1]
  BY <1>20
<1>22. f[n] = w[n]
  <2>1. f[0] = w[0]
    <3>1. 0 \in 0 .. n
      BY <1>2
    <3>2. w[0] = s
      BY <3>1, <1>21
    <3> QED
      BY <3>2, <1>16
  <2>2. \A k \in 0 .. n : k # 0 /\ f[k - 1] = w[k - 1] => f[k] = w[k]
    BY <1>18, <1>21
  <2> QED
    BY <1>2, <2>1, <2>2, Alike
<1> DEFINE V == w[n]
<1>23. V \in X /\ Children(V) \subseteq V
  BY <1>11, <1>16, <1>22
<1> HIDE DEF V
<1>24. V \subseteq sub[x] /\ s \subseteq V
  BY <1>9, <1>23
<1>25. \A c \in V \intersect N, d \in Dirs : t[c][d] # NilNode => t[c][d] \in V
  <2> TAKE c \in V \intersect N, d \in Dirs
  <2> HAVE t[c][d] # NilNode
  <2>1. m[c + d] = t[c][d]
    BY <1>5
  <2>2. m[c + d] \in Children(V)
    BY <2>1 DEF Children, Dirs
  <2> QED
    BY <2>1, <2>2, <1>23
<1>26. sub[x] \subseteq V
  <2>1. CASE x = NilNode
    BY <2>1, <1>4
  <2>2. CASE x \in N
    <3>1. x \in V
      BY <2>2, <1>4, <1>24 DEF s
    <3> QED
      BY <3>1, <2>2, <1>1, <1>2, <1>25, Closed
  <2> QED
    BY <2>1, <2>2
<1> QED
  BY <1>17, <1>24, <1>26 DEF V

\* From a node without one of its children, as many black nodes are above as are below the root.
LEMMA BlacksNow ==
  ASSUME NEW N, NEW m, NEW sub, NEW h, NEW K, Fit(m, N, sub, h, K), NEW x \in N,
         NilNode \in {m[x + Left], m[x + Right]}
  PROVE  Blacks(m, x) = h[m[RootNode + Left]]
<1> DEFINE t == View(m, N)
           top == t[RootNode][Left]
           Up(s) == [x |-> m[s.x + Parent], n |-> s.n + 1 - m[s.x + Red]]
           Counted(s) == /\ s.x \in N => s.n = h[s.x] - 1 + t[s.x][Red]
                         /\ s.x = RootNode => s.n = h[top]
           X == {s \in [x : N \union {RootNode}, n : Int] : Counted(s)}
           T == {s \in X : s.x # RootNode}
           G == [s \in X |-> IF s \in T THEN Up(s) ELSE s]
           Rank(a) == IF a = RootNode THEN Cardinality(N) + 1 ELSE Cardinality(sub[a])
           r == [s \in X |-> Rank(s.x)]
           n == Rounds(m)
           s0 == [x |-> x, n |-> 0]
<1>1. /\ IsMemory(m) /\ IsFiniteSet(DOMAIN m) /\ Room(DOMAIN m, N) /\ Shape(t, N, sub) /\ Even(t, N, h)
  BY DEF Fit
<1>2. /\ IsFiniteSet(N) /\ Cardinality(N) \in Nat /\ n \in Nat /\ Cardinality(N) + 2 <= n
  BY <1>1, RoomFor DEF Rounds
<1>3. Now(m, m, N, t)
  BY <1>1 DEF Now, Same
<1> HIDE DEF t
<1>4. /\ h \in [N \union {NilNode} -> Nat] /\ h[NilNode] = 0
      /\ \A z \in N, d \in Dirs : h[z] = h[t[z][d]] + 1 - t[z][Red]
  BY <1>1 DEF Even
<1>5. /\ \A c \in N : sub[c] \subseteq N /\ t[c][Red] \in Int /\ t[c][Parent] \in N \union {RootNode}
      /\ RootNode \notin N /\ NilNode \notin N
      /\ \A c \in N : t[c][Parent] = RootNode => top = c
      /\ \A c \in N : t[c][Parent] \in N =>
            /\ sub[c] \subseteq sub[t[c][Parent]] /\ t[c][Parent] \in sub[t[c][Parent]]
            /\ t[c][Parent] \notin sub[c] /\ \E d \in Dirs : t[t[c][Parent]][d] = c
  <2>1. \A c \in N : sub[c] \subseteq N /\ c \in sub[c]
    BY <1>1, Below
  <2>2. \A c \in N : t[c][Red] \in Int /\ t[c][Parent] \in N \union {RootNode}
    BY <1>1 DEF Shape, Typed
  <2>3. RootNode \notin N /\ NilNode \notin N
    BY <1>1 DEF Shape, Good
  <2>4. \A c \in N : t[c][Parent] = RootNode => top = c
    BY <1>1, <2>3 DEF Shape, Links
  <2>5. ASSUME NEW c \in N, t[c][Parent] \in N
        PROVE  /\ sub[c] \subseteq sub[t[c][Parent]] /\ t[c][Parent] \notin sub[c]
               /\ \E d \in Dirs : t[t[c][Parent]][d] = c
    BY <2>5, <1>1, Above
  <2> QED
    BY <2>1, <2>2, <2>3, <2>4, <2>5
<1>6. /\ \A c \in N : /\ m[c + Parent] = t[c][Parent] /\ m[c + Red] = t[c][Red]
                      /\ m[c + Left] = t[c][Left] /\ m[c + Right] = t[c][Right]
      /\ m[RootNode + Left] = top
  <2>1. RootNode \in Spots(N) /\ Left \in Fields
    BY DEF Spots, Fields, Left, Red, Parent
  <2> QED
    BY <2>1, <1>1, <1>3, ReadStep, ReadNow
<1>7. \A c \in N : Cardinality(sub[c]) \in Nat /\ Cardinality(sub[c]) <= Cardinality(N)
  BY <1>2, <1>5, FS_Subset, FS_CardinalityType
<1> HIDE DEF top
<1>8. ASSUME NEW s \in X, s.x # RootNode
      PROVE  Up(s) \in X /\ Rank(Up(s).x) >= Rank(s.x) + 1
  <2> DEFINE c == s.x
             p == t[c][Parent]
             u == Up(s)
  <2>1. c \in N /\ s.n = h[c] - 1 + t[c][Red] /\ h[c] \in Nat
    BY <1>4, <1>8
  <2>2. u = [x |-> p, n |-> h[c]]
    BY <2>1, <1>5, <1>6
  <2>3. CASE p = RootNode
    <3>1. top = c
      BY <2>1, <2>3, <1>5
    <3>2. u \in X
      BY <3>1, <2>1, <2>2, <2>3, <1>5
    <3>3. Cardinality(sub[c]) <= Cardinality(N) /\ Cardinality(sub[c]) \in Nat
      BY <2>1, <1>7
    <3>4. Rank(u.x) = Cardinality(N) + 1 /\ Rank(s.x) = Cardinality(sub[c])
      BY <1>8, <2>2, <2>3
    <3> QED
      BY <3>2, <3>3, <3>4, <1>2
  <2>4. CASE p # RootNode
    <3>1. p \in N /\ p \in sub[p] /\ sub[c] \subseteq sub[p] /\ p \notin sub[c] /\ sub[p] \subseteq N
      BY <2>1, <2>4, <1>5
    <3>2. PICK d \in Dirs : t[p][d] = c
      BY <2>1, <3>1, <1>5
    <3>3. h[p] = h[c] + 1 - t[p][Red] /\ t[p][Red] \in Int /\ h[p] \in Nat
      BY <3>1, <3>2, <1>4, <1>5
    <3>4. h[c] = h[p] - 1 + t[p][Red]
      BY <3>3, <2>1
    <3>5. u \in X
      <4>1. u.x \in N /\ u.n \in Nat /\ u = [x |-> u.x, n |-> u.n] /\ u.x # RootNode
        BY <3>1, <2>1, <2>2, <2>4
      <4>2. u.n = h[u.x] - 1 + t[u.x][Red]
        BY <3>4, <2>2
      <4> HIDE DEF u, p
      <4> QED
        BY <4>1, <4>2
    <3> HIDE DEF p
    <3>6. Cardinality(sub[c]) + 1 <= Cardinality(sub[p]) /\ Cardinality(sub[p]) \in Nat
          /\ Cardinality(sub[c]) \in Nat
      <4>1. sub[p] \in SUBSET N /\ sub[c] \in SUBSET sub[p]
        BY <3>1
      <4> HIDE DEF c
      <4> QED
        BY <4>1, <3>1, <1>2, Smaller
    <3>7. Rank(u.x) = Cardinality(sub[p]) /\ Rank(s.x) = Cardinality(sub[c])
      BY <1>8, <2>2, <2>4
    <3> QED
      BY <3>5, <3>6, <3>7
  <2> QED
    BY <2>3, <2>4
<1>9. s0 \in X
  <2>1. \E d \in Dirs : t[x][d] = NilNode
    BY <1>6 DEF Dirs
  <2>2. h[x] = 0 + 1 - t[x][Red] /\ t[x][Red] \in Int
    BY <2>1, <1>4, <1>5
  <2> QED
    BY <2>2, <1>5
<1>10. \A s \in X : s = [x |-> s.x, n |-> s.n] /\ Rank(s.x) \in Nat /\ Rank(s.x) <= Cardinality(N) + 1
                   /\ (s.x = RootNode => s.n = h[top])
  <2> TAKE s \in X
  <2>1. s.x \in N \/ s.x = RootNode
    OBVIOUS
  <2>2. s = [x |-> s.x, n |-> s.n] /\ (s.x = RootNode => s.n = h[top])
    OBVIOUS
  <2>3. s.x = RootNode => Rank(s.x) = Cardinality(N) + 1
    OBVIOUS
  <2>4. s.x # RootNode => Rank(s.x) = Cardinality(sub[s.x])
    OBVIOUS
  <2> HIDE DEF Rank
  <2> QED
    BY <2>1, <2>2, <2>3, <2>4, <1>2, <1>7
<1>11. (\A s \in X : s \in T <=> s.x # RootNode) /\ T \subseteq X
  OBVIOUS
<1> HIDE DEF X, T, Rank, Up
<1>12. Steady(X, T, G, r)
  <2>1. G \in [X -> X] /\ \A s \in X : G[s] = IF s \in T THEN Up(s) ELSE s
    BY <1>8, <1>11
  <2>2. r \in [X -> Int] /\ \A s \in X : r[s] = Rank(s.x)
    BY <1>10
  <2> HIDE DEF G, r
  <2> QED
    BY <2>1, <2>2, <1>8, <1>11 DEF Steady
<1>13. /\ \A s \in X : G[s] = IF s \in T THEN Up(s) ELSE s
       /\ \A s \in X : r[s] = Rank(s.x)
  OBVIOUS
<1> HIDE DEF G, r, n, s0
<1>14. \A s \in X : r[s] < r[s0] + n
  <2> TAKE s \in X
  <2>1. Rank(s.x) \in Nat /\ Rank(s0.x) \in Nat /\ Rank(s.x) <= Cardinality(N) + 1
    BY <1>9, <1>10
  <2> QED
    BY <2>1, <1>2, <1>9, <1>13
<1>15. PICK f : Walks(f, X, T, G, s0, n)
  BY <1>2, <1>9, <1>12, <1>14, Stops
<1>16. /\ f \in [0 .. n -> X] /\ f[0] = s0
       /\ \A k \in 0 .. n : k # 0 => f[k - 1] \in X /\ f[k] = G[f[k - 1]]
       /\ f[n] \in X /\ f[n] \notin T
  BY <1>15 DEF Walks
<1> DEFINE F(g) == [k \in 0 .. n |->
                     IF k = 0 THEN s0 ELSE LET s == g[k - 1]
                                           IN  IF s.x # RootNode THEN Up(s) ELSE s]
           w == CHOOSE g : g = F(g)
<1>17. Blacks(m, x) = w[n].n
  BY DEF Blacks, While, n, s0, Up
<1>18. \A k \in 0 .. n : k # 0 => f[k] = IF f[k - 1].x # RootNode THEN Up(f[k - 1]) ELSE f[k - 1]
  BY <1>11, <1>13, <1>16
<1>19. f = F(f)
  <2>1. \A k \in 0 .. n : f[k] = F(f)[k]
    BY <1>16, <1>18
  <2> QED
    BY <2>1, <1>16
<1>20. w = F(w)
  BY <1>19
<1> HIDE DEF w
<1>21. \A k \in 0 .. n : w[k] = IF k = 0 THEN s0
          ELSE IF w[k - 1].x # RootNode THEN Up(w[k - 1]) ELSE w[k - 1]
  BY <1>20
<1>22. f[n] = w[n]
  <2>1. f[0] = w[0]
    <3>1. 0 \in 0 .. n
      BY <1>2
    <3>2. w[0] = s0
      BY <3>1, <1>21
    <3> QED
      BY <3>2, <1>16
  <2>2. \A k \in 0 .. n : k # 0 /\ f[k - 1] = w[k - 1] => f[k] = w[k]
    BY <1>18, <1>21
  <2> QED
    BY <1>2, <2>1, <2>2, Alike
<1>23. w[n].n = h[top]
  BY <1>10, <1>11, <1>16, <1>22
<1> QED
  BY <1>6, <1>17, <1>23

\* What the functions that look at a tree show of one.
THEOREM TreeShows ==
  ASSUME NEW N, NEW m, IsTree(m, N)
  PROVE  TreeOf(m) = N /\ Linked(m) /\ RedBlack(m)
<1>1. PICK sub, h, K : Fit(m, N, sub, h, K)
  BY DEF IsTree
<1> DEFINE t == View(m, N)
<1>2. /\ IsMemory(m) /\ IsFiniteSet(DOMAIN m) /\ Room(DOMAIN m, N) /\ Shape(t, N, sub) /\ Ordered(t, N, sub, K)
      /\ Calm(t, N, NilNode) /\ t[t[RootNode][Left]][Red] = 0 /\ \A c \in N : m[c] = K[c]
  BY <1>1 DEF Fit
<1>3. Now(m, m, N, t)
  BY <1>2 DEF Now, Same
<1> HIDE DEF t
<1>4. /\ \A c \in N, d \in Dirs : m[c + d] = t[c][d] /\ m[t[c][d] + Red] = t[t[c][d]][Red]
      /\ \A c \in N : m[c + Red] = t[c][Red] /\ m[c + Parent] = t[c][Parent]
  BY <1>2, <1>3, ReadStep
<1>5. /\ m[RootNode + Left] = t[RootNode][Left]
      /\ \A c \in N \union {NilNode} : m[c + Red] = t[c][Red]
  <2>1. RootNode \in Spots(N) /\ Left \in Fields /\ Red \in Fields /\ N \union {NilNode} \subseteq Spots(N)
    BY DEF Spots, Fields, Left, Red, Parent
  <2> QED
    BY <2>1, <1>3, ReadNow
<1>6. /\ t[RootNode][Left] \in N \union {NilNode} /\ sub[t[RootNode][Left]] = N /\ sub[NilNode] = {}
      /\ t[NilNode][Red] = 0 /\ NilNode \notin N
      /\ \A c \in N, d \in Dirs : t[c][d] \in N \union {NilNode}
      /\ \A c \in N, d \in Dirs : t[c][d] # NilNode => t[t[c][d]][Parent] = c
      /\ \A c \in N : sub[c] \subseteq N
  <2>1. \A c \in N : sub[c] \subseteq N
    BY <1>2, Below
  <2>2. \A c \in N, d \in Dirs : t[c][d] # NilNode => t[t[c][d]][Parent] = c
    BY <1>2 DEF Shape, Links
  <2>3. \A c \in N, d \in Dirs : t[c][d] \in N \union {NilNode}
    BY <1>2 DEF Shape, Typed
  <2> QED
    BY <2>1, <2>2, <2>3, <1>2 DEF Shape, Typed, Subtrees, Good
<1>7. \A x \in N \union {NilNode} : Nodes(m, x) = sub[x]
  BY <1>1, NodesNow
<1>8. TreeOf(m) = N
  BY <1>5, <1>6, <1>7 DEF TreeOf
<1>9. Linked(m)
  <2>1. ASSUME NEW x \in N, NEW d \in Dirs, m[x + d] # NilNode
        PROVE  m[m[x + d] + Parent] = x
    <3>1. m[x + d] = t[x][d] /\ t[x][d] \in N /\ t[t[x][d]][Parent] = x
      BY <2>1, <1>4, <1>6
    <3> QED
      BY <3>1, <1>4
  <2> QED
    BY <2>1, <1>8 DEF Linked, Dirs
<1>10. m[NilNode + Red] = 0 /\ m[m[RootNode + Left] + Red] = 0
  BY <1>2, <1>5, <1>6
<1>11. \A x, y \in {z \in N : NilNode \in {m[z + Left], m[z + Right]}} : Blacks(m, x) = Blacks(m, y)
  BY <1>1, BlacksNow
<1>12. ASSUME NEW x \in N
       PROVE  /\ m[x + Red] = 1 => \A d \in {Left, Right} : m[m[x + d] + Red] = 0
              /\ \A y \in Nodes(m, m[x + Left])  : m[y] >= m[x]
              /\ \A y \in Nodes(m, m[x + Right]) : m[y] <= m[x]
  <2>1. m[x + Red] = 1 => \A d \in Dirs : m[m[x + d] + Red] = 0
    <3> HAVE m[x + Red] = 1
    <3> TAKE d \in Dirs
    <3>1. m[x + d] = t[x][d] /\ m[t[x][d] + Red] = t[t[x][d]][Red] /\ t[x][Red] = 1
      BY <1>4
    <3>2. t[t[x][d]][Red] = 0
      BY <3>1, <1>2, <1>6 DEF Calm
    <3> QED
      BY <3>1, <3>2
  <2>2. ASSUME NEW d \in Dirs
        PROVE  Nodes(m, m[x + d]) = sub[t[x][d]] /\ sub[t[x][d]] \subseteq N
    BY <1>4, <1>6, <1>7
  <2>3. ASSUME NEW d \in Dirs, NEW y \in Nodes(m, m[x + d])
        PROVE  y \in N /\ Beside(K, d, y, x)
    BY <2>2, <2>3, <1>2 DEF Ordered
  <2>4. \A y \in Nodes(m, m[x + Left])  : m[y] >= m[x]
    <3> TAKE y \in Nodes(m, m[x + Left])
    <3>1. y \in N /\ Beside(K, Left, y, x)
      BY <2>3, Opposites
    <3> QED
      BY <3>1, <1>2 DEF Beside
  <2>5. \A y \in Nodes(m, m[x + Right])  : m[y] <= m[x]
    <3> TAKE y \in Nodes(m, m[x + Right])
    <3>1. y \in N /\ Beside(K, Right, y, x)
      BY <2>3, Opposites
    <3> QED
      BY <3>1, <1>2 DEF Beside, Left, Right
  <2> QED
    BY <2>1, <2>4, <2>5 DEF Dirs
<1>13. RedBlack(m)
  BY <1>8, <1>10, <1>11, <1>12 DEF RedBlack
<1> QED
  BY <1>8, <1>9, <1>13

------------------------------------------------------------------------------
\* The tree that rbt_init makes has no nodes.
THEOREM InitMakes ==
  ASSUME NEW m, IsMemory(m), IsFiniteSet(DOMAIN m), Room(DOMAIN m, {})
  PROVE  IsTree(rbt_init(m), {}) /\ IsMemory(rbt_init(m)) /\ DOMAIN rbt_init(m) = DOMAIN m
<1> DEFINE n == rbt_init(m)
           t == View(n, {})
           sub == [x \in {NilNode} |-> {}]
           h == [x \in {NilNode} |-> 0]
           K == [x \in {} |-> 0]
<1>1. IsMemory(n) /\ DOMAIN n = DOMAIN m
  BY DEF rbt_init, IsMemory
<1>2. \A x \in {NilNode, RootNode}, f \in 0 .. Parent : x + f \in DOMAIN m
  BY DEF Room, Spots
<1>3. /\ n[NilNode + Red] = 0 /\ n[NilNode + Left] = NilNode /\ n[NilNode + Right] = NilNode
      /\ n[RootNode] = 0 /\ n[RootNode + Red] = 0 /\ n[RootNode + Left] = NilNode
      /\ n[RootNode + Right] = NilNode
  <2>1. {-10, -9, -8, -7, -6, -5, -4, -3, -2, -1} \subseteq DOMAIN m
    <3>1. NilNode = -5 /\ RootNode = -10 /\ Parent = 4
      BY DEF NilNode, RootNode, Parent
    <3>2. \A f \in 0 .. 4 : -5 + f \in DOMAIN m /\ -10 + f \in DOMAIN m
      BY <1>2, <3>1
    <3> QED
      BY <3>2
  <2> QED
    BY <2>1 DEF rbt_init, NilNode, RootNode, Red, Left, Right, Parent
<1>4. IsMap(t, {}) /\ \A x \in Spots({}), f \in Fields : t[x][f] = n[x + f]
  BY Viewed
<1>5. Spots({}) = {NilNode, RootNode} /\ Red \in Fields /\ Left \in Fields /\ Right \in Fields
  BY DEF Spots, Fields, Red, Left, Right, Parent
<1> HIDE DEF n, t
<1>6. t[NilNode][Red] = 0 /\ t[RootNode][Red] = 0 /\ t[RootNode][Left] = NilNode
  BY <1>3, <1>4, <1>5
<1>7. Shape(t, {}, sub)
  <2>1. Good({})
    BY DEF Good
  <2>2. Typed(t, {}) /\ Links(t, {})
    BY <1>6 DEF Typed, Links
  <2>3. Subtrees(t, {}, sub)
    BY <1>6 DEF Subtrees
  <2> QED
    BY <2>1, <2>2, <2>3, <1>4 DEF Shape
<1>8. Ordered(t, {}, sub, K) /\ Even(t, {}, h) /\ Calm(t, {}, NilNode)
  BY DEF Ordered, Even, Calm
<1>9. IsFiniteSet(DOMAIN n) /\ Room(DOMAIN n, {})
  BY <1>1 DEF n
<1>10. Fit(n, {}, sub, h, K)
  BY <1>1, <1>3, <1>6, <1>7, <1>8, <1>9 DEF Fit, t, n
<1> QED
  BY <1>1, <1>10 DEF IsTree, n

\* A tree does not depend on other words, nor on the parent of nil.
THEOREM TreeKept ==
  ASSUME NEW N, NEW m, IsTree(m, N), NEW n, IsMemory(n), DOMAIN n = DOMAIN m,
         \A x \in Spots(N), f \in 0 .. Parent : (x = NilNode /\ f = Parent) \/ n[x + f] = m[x + f]
  PROVE  IsTree(n, N)
<1>1. PICK sub, h, K : Fit(m, N, sub, h, K)
  BY DEF IsTree
<1> DEFINE t == View(m, N)
           u == View(n, N)
<1>2. /\ IsMemory(m) /\ IsFiniteSet(DOMAIN m) /\ Room(DOMAIN m, N) /\ Shape(t, N, sub) /\ Ordered(t, N, sub, K)
      /\ Even(t, N, h) /\ Calm(t, N, NilNode) /\ t[t[RootNode][Left]][Red] = 0
      /\ (\A x \in N : m[x] = K[x]) /\ m[RootNode] = 0
  BY <1>1 DEF Fit
<1>3. Fields = 1 .. 4 /\ Parent = 4 /\ 0 \in 0 .. 4 /\ 1 .. 4 \subseteq 0 .. 4 /\ RootNode # NilNode
  BY DEF Fields, Red, Parent, RootNode, NilNode
<1>4. IsMap(t, N) /\ \A x \in Spots(N), f \in Fields : t[x][f] = m[x + f]
  BY Viewed
<1>5. IsMap(u, N) /\ \A x \in Spots(N), f \in Fields : u[x][f] = n[x + f]
  BY Viewed
<1> HIDE DEF t, u
<1>6. \A x \in Spots(N), f \in Fields : (x = NilNode /\ f = Parent) \/ u[x][f] = t[x][f]
  BY <1>3, <1>4, <1>5
<1>7. /\ Red \in Fields /\ Parent \in Fields /\ Dirs \subseteq Fields /\ Left \in Dirs
      /\ Red # Parent /\ Parent \notin Dirs
      /\ N \subseteq Spots(N) /\ NilNode \in Spots(N) /\ RootNode \in Spots(N) /\ NilNode \notin N
  <2>1. Red \in Fields /\ Parent \in Fields /\ Dirs \subseteq Fields /\ Left \in Dirs
        /\ Red # Parent /\ Parent \notin Dirs
    BY DEF Fields, Dirs, Red, Left, Right, Parent
  <2> QED
    BY <2>1, <1>2 DEF Spots, Shape, Good
<1>8. /\ \A x \in Spots(N) : u[x][Red] = t[x][Red]
      /\ \A x \in Spots(N), d \in Dirs : u[x][d] = t[x][d]
      /\ \A x \in N : u[x][Parent] = t[x][Parent]
  BY <1>6, <1>7
<1>9. Typed(u, N)
  <2>1. Typed(t, N)
    BY <1>2 DEF Shape
  <2> QED
    BY <2>1, <1>7, <1>8 DEF Typed
<1>10. /\ \A x \in N, d \in Dirs : t[x][d] \in N \union {NilNode}
       /\ \A x \in N : t[x][Parent] \in N \union {RootNode}
       /\ t[RootNode][Left] \in N \union {NilNode}
  BY <1>2 DEF Shape, Typed
<1>11. Links(u, N)
  <2>1. Links(t, N)
    BY <1>2 DEF Shape
  <2>2. \A x \in N, d \in Dirs : u[x][d] # NilNode => u[u[x][d]][Parent] = x
    BY <2>1, <1>7, <1>8, <1>10 DEF Links
  <2>3. u[RootNode][Left] # NilNode => u[u[RootNode][Left]][Parent] = RootNode
    BY <2>1, <1>7, <1>8, <1>10 DEF Links
  <2>4. \A x \in N : \/ u[x][Parent] = RootNode /\ u[RootNode][Left] = x
                     \/ u[x][Parent] \in N /\ \E d \in Dirs : u[u[x][Parent]][d] = x
    BY <2>1, <1>7, <1>8, <1>10 DEF Links
  <2> QED
    BY <2>2, <2>3, <2>4 DEF Links
<1>12. Subtrees(u, N, sub)
  <2>1. Subtrees(t, N, sub)
    BY <1>2 DEF Shape
  <2>2. \A x \in N : u[x][Left] = t[x][Left] /\ u[x][Right] = t[x][Right]
    BY <1>7, <1>8, Opposites
  <2>3. u[RootNode][Left] = t[RootNode][Left]
    BY <1>7, <1>8
  <2> QED
    BY <2>1, <2>2, <2>3 DEF Subtrees
<1>13. Shape(u, N, sub)
  BY <1>2, <1>5, <1>9, <1>11, <1>12 DEF Shape
<1>14. Ordered(u, N, sub, K)
  BY <1>2, <1>7, <1>8 DEF Ordered
<1>15. Even(u, N, h)
  BY <1>2, <1>7, <1>8 DEF Even
<1>16. Calm(u, N, NilNode)
  <2>1. \A x \in N, d \in Dirs : u[u[x][d]][Red] = t[t[x][d]][Red]
    <3> TAKE x \in N, d \in Dirs
    <3>1. u[x][d] = t[x][d] /\ t[x][d] \in Spots(N)
      BY <1>7, <1>8, <1>10 DEF Spots
    <3> QED
      BY <3>1, <1>8
  <2> QED
    BY <2>1, <1>2, <1>7, <1>8 DEF Calm
<1>17. u[u[RootNode][Left]][Red] = 0
  <2>1. u[RootNode][Left] = t[RootNode][Left] /\ t[RootNode][Left] \in Spots(N)
    BY <1>7, <1>8, <1>10 DEF Spots
  <2> QED
    BY <2>1, <1>2, <1>8
<1>18. (\A x \in N : n[x] = K[x]) /\ n[RootNode] = 0
  <2>1. \A x \in N \union {RootNode} : n[x] = m[x]
    <3> TAKE x \in N \union {RootNode}
    <3>1. x \in Spots(N) /\ x + 0 = x
      BY <1>2, <1>7 DEF Room, RootNode
    <3>2. n[x + 0] = m[x + 0]
      BY <3>1, <1>3
    <3> QED
      BY <3>1, <3>2
  <2> QED
    BY <2>1, <1>2
<1>19. Fit(n, N, sub, h, K)
  BY <1>2, <1>13, <1>14, <1>15, <1>16, <1>17, <1>18 DEF Fit, u
<1> QED
  BY <1>19 DEF IsTree

\* What a tree takes for granted of the memory, and its keys.
LEMMA TreeFacts ==
  ASSUME NEW N, NEW m, IsTree(m, N)
  PROVE  IsMemory(m) /\ IsFiniteSet(DOMAIN m) /\ Room(DOMAIN m, N) /\ IsFiniteSet(N) /\ \A x \in N : m[x] \in Int
<1>1. PICK sub, h, K : Fit(m, N, sub, h, K)
  BY DEF IsTree
<1> QED
  BY <1>1, RoomFor DEF Fit, Ordered

==================================================================================
