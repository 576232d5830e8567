---------------------------- MODULE RedBlackTree -----------------------------
(***************************************************************************)
(* The tree of free blocks (malloclab/red_black_tree.c).  A node is five   *)
(* words of the memory m at its address; the nodes nil and root are static *)
(* variables of mm.c, placed below the heap.  Larger keys are on the left: *)
(* compare is "less than", and where it holds the code goes left.  Each    *)
(* function maps a memory to a memory, and its mirror images in the code   *)
(* are one operator with a direction.                                      *)
(***************************************************************************)
EXTENDS Integers, FiniteSets

\* Offsets of the fields of a node; its key is at offset 0.
Red    == 1
Left   == 2
Right  == 3
Parent == 4
Opposite(d) == Left + Right - d

Null    == 0                   \* no node is there
NilNode == -5
RootNode == -10

\* A loop: what is left of s when Test no longer holds, after at most n rounds.
While(Test(_), Body(_), s, n) ==
  LET after[k \in 0 .. n] ==
        IF k = 0 THEN s
        ELSE LET t == after[k - 1] IN IF Test(t) THEN Body(t) ELSE t
  IN  after[n]

\* Bound of the rounds: no loop meets a node twice, and a node has five words.
NodeWords == Parent + 1
Rounds(m) == Cardinality(DOMAIN m) \div NodeWords

\* The child of p that x is, asked as the code does: left, or else right.
SideOf(m, x) == IF m[m[x + Parent] + Left] = x THEN Left ELSE Right

rbt_init(m) ==
  [m EXCEPT ![NilNode] = 0, ![NilNode + Red] = 0, ![NilNode + Left] = NilNode,
            ![NilNode + Right] = NilNode, ![NilNode + Parent] = NilNode,
            ![RootNode] = 0, ![RootNode + Red] = 0, ![RootNode + Left] = NilNode,
            ![RootNode + Right] = NilNode, ![RootNode + Parent] = NilNode]

\* left_rotate is rotate with d = Left, right_rotate with d = Right.
rotate(m, x, d) ==
  LET y == m[x + Opposite(d)]
      c == m[y + d]
      a == [m EXCEPT ![x + Opposite(d)] = c, ![y + Parent] = m[x + Parent],
                     ![m[x + Parent] + SideOf(m, x)] = y, ![y + d] = x, ![x + Parent] = y]
  IN  IF c = NilNode THEN a ELSE [a EXCEPT ![c + Parent] = x]

\* The key of root is 0, so the way from it is to the left as well.
Way(m, x, key) == IF m[x] < key THEN Left ELSE Right

LeafFor(m, key) ==
  LET next(x)   == m[x + Way(m, x, key)]
      Inside(x) == next(x) # NilNode
  IN  While(Inside, next, RootNode, Rounds(m))

tree_insert_help(m, z) ==
  LET y == LeafFor(m, m[z])
  IN  [m EXCEPT ![z + Left] = NilNode, ![z + Right] = NilNode, ![z + Parent] = y,
                ![y + Way(m, y, m[z])] = z]

\* The end of the loop of rbt_insert: top becomes the parent of x and of g, the former
\* grandparent.
Crown(m, top, g, d) == rotate([m EXCEPT ![top + Red] = 0, ![g + Red] = 1], g, Opposite(d))

\* A round of the loop, at node x: p is the parent of x, g its grandparent.
ParentRed(s) == s.m[s.m[s.x + Parent] + Red] = 1
InsertStep(s) ==
  LET m == s.m
      x == s.x
      p == m[x + Parent]
      g == m[p + Parent]
      d == SideOf(m, p)
      u == m[g + Opposite(d)]
  IN  IF m[u + Red] = 1
      THEN [m |-> [m EXCEPT ![p + Red] = 0, ![u + Red] = 0, ![g + Red] = 1], x |-> g]
      ELSE IF m[p + Opposite(d)] = x
      THEN [m |-> Crown(rotate(m, p, d), x, g, d), x |-> p]
      ELSE [m |-> Crown(m, p, g, d), x |-> x]

InsertLoop(m, x) == While(ParentRed, InsertStep, [m |-> m, x |-> x], Rounds(m)).m

RootBlack(m)    == [m EXCEPT ![m[RootNode + Left] + Red] = 0]
rbt_insert(m, x) == RootBlack(InsertLoop([tree_insert_help(m, x) EXCEPT ![x + Red] = 1], x))

Leftmost(m, x) ==
  LET next(y)   == m[y + Left]
      Inside(y) == next(y) # NilNode
  IN  While(Inside, next, x, Rounds(m))
FirstFromLeft(m, x) ==
  LET up(y)     == m[y + Parent]
      IsRight(y) == SideOf(m, y) = Right
  IN  up(While(IsRight, up, x, Rounds(m)))

tree_successor(m, x) ==
  IF m[x + Right] # NilNode THEN Leftmost(m, m[x + Right])
  ELSE IF FirstFromLeft(m, x) = RootNode THEN NilNode ELSE FirstFromLeft(m, x)

\* A node whose key is not less than q, the highest on the way to the largest.
rbt_query_ge(m, q) ==
  LET next(x) == m[x + Left]
      Less(x) == x # NilNode /\ m[x] < q
      x == While(Less, next, m[RootNode + Left], Rounds(m))
  IN  IF x = NilNode THEN Null ELSE x

\* p is the parent of x, which is its child d. The sibling of x becomes black.
BlackSibling(m, p, d) ==
  LET s == m[p + Opposite(d)]
  IN  IF m[s + Red] = 0 THEN m
      ELSE Crown(m, s, p, Opposite(d))

\* Mutant: the red child may be the one next to x.
RedAway_Unturned(m, w, d) == m

\* The sibling w has a red child; the one away from x becomes red.
RedAway(m, w, d) ==
  IF m[m[w + Opposite(d)] + Red] = 1 THEN m
  ELSE Crown(m, m[w + d], w, d)

\* The sibling v takes the place and the colour of p.
TurnParent(m, p, v, d) ==
  rotate([m EXCEPT ![v + Red] = m[p + Red], ![p + Red] = 0,
                   ![m[v + Opposite(d)] + Red] = 0], p, d)

\* A round of the loop, at node x. root was the root of the tree when the loop began.
Deficient(s) == s.m[s.x + Red] = 0 /\ s.x # s.root
FixStep(s) ==
  LET p == s.m[s.x + Parent]
      d == SideOf(s.m, s.x)
      a == BlackSibling(s.m, p, d)
      w == a[p + Opposite(d)]
      c == RedAway(a, w, d)
  IN  IF a[a[w + Left] + Red] = 0 /\ a[a[w + Right] + Red] = 0
      THEN [s EXCEPT !.m = [a EXCEPT ![w + Red] = 1], !.x = p]
      ELSE [s EXCEPT !.m = TurnParent(c, p, c[p + Opposite(d)], d), !.x = s.root]

rbt_remove_fix_up(m, x, root) ==
  LET Blackened(s) == [s.m EXCEPT ![s.x + Red] = 0]
  IN  Blackened(While(Deficient, FixStep, [m |-> m, x |-> x, root |-> root], Rounds(m)))

\* Mutant: y keeps its colour.
TakePlace_OwnColour(m, z, y) ==
  LET a == [m EXCEPT ![y + Left] = m[z + Left], ![y + Right] = m[z + Right],
                     ![y + Parent] = m[z + Parent]]
      q == a[y + Parent]
  IN  [a EXCEPT ![a[y + Left] + Parent] = y, ![a[y + Right] + Parent] = y,
                ![q + (IF a[q + Left] = z THEN Left ELSE Right)] = y]

\* y takes the place of z, and what the fix-up has made of z's links and colour.
TakePlace(m, z, y) ==
  LET a == [m EXCEPT ![y + Red] = m[z + Red], ![y + Left] = m[z + Left],
                     ![y + Right] = m[z + Right], ![y + Parent] = m[z + Parent]]
      q == a[y + Parent]
  IN  [a EXCEPT ![a[y + Left] + Parent] = y, ![a[y + Right] + Parent] = y,
                ![q + (IF a[q + Left] = z THEN Left ELSE Right)] = y]

\* y, with the only child x, is spliced out.
Splice(m, y, x) == [m EXCEPT ![x + Parent] = m[y + Parent],
                             ![m[y + Parent] + SideOf(m, y)] = x]
FixUp(m, y, x)  == IF m[y + Red] = 1 THEN m
                   ELSE rbt_remove_fix_up(m, x, m[RootNode + Left])
OnlyChild(m, y) == IF m[y + Left] = NilNode THEN m[y + Right] ELSE m[y + Left]
SpliceOut(m, y, x) == FixUp(Splice(m, y, x), y, x)

\* y is z or its successor.
rbt_remove(m, z) ==
  LET y == IF NilNode \in {m[z + Left], m[z + Right]} THEN z ELSE tree_successor(m, z)
      Instead(n, v) == IF v = z THEN n ELSE TakePlace(n, z, v)
      Without(v) == Instead(SpliceOut(m, v, OnlyChild(m, v)), v)
  IN  Without(y)

------------------------------------------------------------------------------
\* The nodes below and including x.
Nodes(m, x) ==
  LET Children(V) == {m[y + d] : y \in V, d \in {Left, Right}} \ {NilNode}
      Open(V)     == ~(Children(V) \subseteq V)
      Grown(V)    == V \union Children(V)
  IN  While(Open, Grown, {x} \ {NilNode}, Rounds(m))
TreeOf(m) == Nodes(m, m[RootNode + Left])

\* The black nodes from x up to the root of the tree.
Blacks(m, x) ==
  LET Below(s) == s.x # RootNode
      Up(s)    == [x |-> m[s.x + Parent], n |-> s.n + 1 - m[s.x + Red]]
  IN  While(Below, Up, [x |-> x, n |-> 0], Rounds(m)).n

\* Links go up as they go down.
Linked(m) == \A x \in TreeOf(m), d \in {Left, Right} :
               m[x + d] # NilNode => m[m[x + d] + Parent] = x

\* Order and balance, and what the assertions in the code say: nil is never red.
RedBlack(m) ==
  /\ m[NilNode + Red] = 0 /\ m[m[RootNode + Left] + Red] = 0
  /\ \A x, y \in {z \in TreeOf(m) : NilNode \in {m[z + Left], m[z + Right]}} :
        Blacks(m, x) = Blacks(m, y)
  /\ \A x \in TreeOf(m) :
        /\ m[x + Red] = 1 => \A d \in {Left, Right} : m[m[x + d] + Red] = 0
        /\ \A y \in Nodes(m, m[x + Left])  : m[y] >= m[x]
        /\ \A y \in Nodes(m, m[x + Right]) : m[y] <= m[x]
==============================================================================
