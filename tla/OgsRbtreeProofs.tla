-------------------------- MODULE OgsRbtreeProofs --------------------------
(***************************************************************************)
(* Theorems about the red-black tree of ogs-rbtree.c, for any finite set   *)
(* of nodes and any keys: after any insertions and deletions it is         *)
(* red-black, can be walked both ways, and is a list sorted by key.        *)
(*                                                                         *)
(* Induction over trees is replaced by places: every node of the tree has  *)
(* a place P[n] in a sequence q, and below it are the places from an edge  *)
(* E["left"][n] to E["right"][n].  What the surgery does to the tree is    *)
(* said by the new places, node by node.  In the same way every node has a *)
(* black height H[n], but for the one black node that may be missing on    *)
(* one way down while the loop of rb_delete_color runs.                    *)
(***************************************************************************)
EXTENDS OgsRbtree, ProofLemmas

\* What a pointer may be, and what the helpers pass on.
Pointers == RbNodes \cup {NoNode}

Trees == [root : Pointers, parent : [RbNodes -> Pointers], child : [Sides -> [RbNodes -> Pointers]]]

\* The nodes of T are linked to each other as a tree's, the others to nothing.
Linked(t, T) ==
  /\ t \in Trees /\ T \subseteq RbNodes
  /\ IF T = {} THEN t.root = NoNode ELSE t.root \in T
  /\ \A n \in T : n = t.root <=> t.parent[n] = NoNode
  /\ \A n \in T \ {t.root} : t.parent[n] \in T /\ \E s \in Sides : t.child[s][t.parent[n]] = n
  /\ \A n \in T, s \in Sides : t.child[s][n] # NoNode => t.child[s][n] \in T /\ t.parent[t.child[s][n]] = n
  /\ \A n \in RbNodes \ T : t.parent[n] = NoNode /\ \A s \in Sides : t.child[s][n] = NoNode

\* The place next to place i on a side.
Beyond(s, i) == IF s = "left" THEN i - 1 ELSE i + 1

\* Of the nodes below n, and n itself, the places are those from the left edge
\* of n to its right edge, and P is that of n: what is below a child of n are
\* the places on its side.
SpanAt(t, P, E, n, s) ==
  IF t.child[s][n] = NoNode THEN E[s][n] = P[n]
  ELSE E[s][t.child[s][n]] = E[s][n] /\ E[Other(s)][t.child[s][n]] = Beyond(s, P[n])

Spans(t, T, P, E) ==
  /\ P \in [RbNodes -> Int] /\ E \in [Sides -> [RbNodes -> Int]]
  /\ \A n \in T : E["left"][n] <= P[n] /\ P[n] <= E["right"][n]
  /\ \A n \in T, s \in Sides : SpanAt(t, P, E, n, s)

\* q has the nodes of the tree at their places.
Lists(t, T, q, P, E) ==
  /\ q \in Seq(RbNodes)
  /\ \A n \in T : P[n] \in 1 .. Len(q) /\ q[P[n]] = n
  /\ \A i \in 1 .. Len(q) : q[i] \in T /\ P[q[i]] = i
  /\ T # {} => E["left"][t.root] = 1 /\ E["right"][t.root] = Len(q)

Shape(t, T, q, P, E) == Linked(t, T) /\ Spans(t, T, P, E) /\ Lists(t, T, q, P, E)

-----------------------------------------------------------------------------
(* Links                                                                   *)

\* The two sides.
LEMMA SidesAre ==
  /\ "left" \in Sides /\ "right" \in Sides /\ \A s \in Sides : s = "left" \/ s = "right"
  /\ \A s \in Sides : Other(s) \in Sides /\ Other(s) # s /\ Other(Other(s)) = s
  /\ \A s, u \in Sides : u = s \/ u = Other(s)
BY Zenon DEF Sides, Other

\* What a tree's fields are.
LEMMA TreeSays ==
  ASSUME NEW t \in Trees
  PROVE  /\ t.root \in Pointers /\ t.parent \in [RbNodes -> Pointers]
         /\ t.child \in [Sides -> [RbNodes -> Pointers]]
         /\ \A s \in Sides : t.child[s] \in [RbNodes -> Pointers] /\ \A n \in RbNodes : t.child[s][n] \in Pointers
         /\ \A n \in RbNodes : t.parent[n] \in Pointers
         /\ NoNode \notin RbNodes
BY RbtreeAssumption DEF Trees

\* Trees are made of their fields.
LEMMA TreeFrom ==
  ASSUME NEW r \in Pointers, NEW p \in [RbNodes -> Pointers], NEW c \in [Sides -> [RbNodes -> Pointers]],
         NEW t, t = [root |-> r, parent |-> p, child |-> c]
  PROVE  t \in Trees /\ t.root = r /\ t.parent = p /\ t.child = c
BY DEF Trees

\* A child of one place is not the child of another, nor on the other side.
LEMMA OneParent ==
  ASSUME NEW t, NEW T, NEW q, NEW P, NEW E, Linked(t, T), Spans(t, T, P, E)
  PROVE  \A x, y \in RbNodes, a, b \in Sides :
           t.child[a][x] = t.child[b][y] /\ t.child[a][x] # NoNode => x = y /\ a = b
<1> SUFFICES ASSUME NEW x \in RbNodes, NEW y \in RbNodes, NEW a \in Sides, NEW b \in Sides,
                    t.child[a][x] = t.child[b][y], t.child[a][x] # NoNode
             PROVE  x = y /\ a = b
  OBVIOUS
<1>1. x \in T /\ y \in T
  BY DEF Linked
<1>2. t.parent[t.child[a][x]] = x /\ t.parent[t.child[b][y]] = y
  BY <1>1 DEF Linked
<1>3. x = y
  BY <1>2
<1> DEFINE c == t.child[a][x]
<1>4. c \in T
  BY <1>1 DEF Linked
<1>5. ASSUME a # b PROVE FALSE
  <2>1. b = Other(a)
    BY <1>5, SidesAre
  <2>2. SpanAt(t, P, E, x, a) /\ SpanAt(t, P, E, x, b)
    BY <1>1 DEF Spans
  <2>3. E[Other(a)][c] = Beyond(a, P[x]) /\ E[Other(b)][c] = Beyond(b, P[x])
    BY <1>3, <2>2 DEF SpanAt
  <2>4. E["left"][c] <= P[c] /\ P[c] <= E["right"][c] /\ P[c] \in Int /\ P[x] \in Int
        /\ E["left"][c] \in Int /\ E["right"][c] \in Int
    BY <1>1, <1>4, SidesAre, TreeSays DEF Spans, Linked
  <2> HIDE DEF c
  <2>5. CASE a = "left"
    BY <2>1, <2>3, <2>4, <2>5 DEF Other, Beyond
  <2>6. CASE a = "right"
    BY <2>1, <2>3, <2>4, <2>6 DEF Other, Beyond
  <2>7. QED
    BY <2>5, <2>6, SidesAre
<1>6. QED
  BY <1>3, <1>5

\* u is t with another child, or another parent, of one node.
ChildSet(t, s, n, m, u) ==
  /\ u \in Trees /\ u.root = t.root /\ u.parent = t.parent
  /\ \A a \in Sides, x \in RbNodes : u.child[a][x] = IF a = s /\ x = n THEN m ELSE t.child[a][x]
ParentSet(t, n, m, u) ==
  /\ u \in Trees /\ u.root = t.root /\ u.child = t.child
  /\ \A x \in RbNodes : u.parent[x] = IF x = n THEN m ELSE t.parent[x]

\* What SetChild does, field by field.
LEMMA SetChildFields ==
  ASSUME NEW t \in Trees, NEW s \in Sides, NEW n \in RbNodes, NEW m \in Pointers,
         NEW u, u = SetChild(t, s, n, m)
  PROVE  ChildSet(t, s, n, m, u)
<1> DEFINE d == [t.child[s] EXCEPT ![n] = m]
           c == [t.child EXCEPT ![s] = d]
<1>1. /\ t.root \in Pointers /\ t.parent \in [RbNodes -> Pointers]
      /\ t.child \in [Sides -> [RbNodes -> Pointers]] /\ t.child[s] \in [RbNodes -> Pointers]
      /\ t = [root |-> t.root, parent |-> t.parent, child |-> t.child]
  BY DEF Trees
<1>2. d \in [RbNodes -> Pointers] /\ \A x \in RbNodes : d[x] = IF x = n THEN m ELSE t.child[s][x]
  BY <1>1
<1>3. u = [t EXCEPT !.child = c]
  BY <1>1 DEF SetChild
<1> HIDE DEF d
<1>4. /\ c \in [Sides -> [RbNodes -> Pointers]]
      /\ \A a \in Sides, x \in RbNodes : c[a][x] = IF a = s /\ x = n THEN m ELSE t.child[a][x]
  BY <1>1, <1>2
<1> HIDE DEF c
<1>5. u \in Trees /\ u.root = t.root /\ u.parent = t.parent /\ u.child = c
  BY <1>1, <1>3, <1>4 DEF Trees
<1>6. QED
  BY <1>4, <1>5 DEF ChildSet

\* What SetParent does; a NULL node has no parent to set.
LEMMA SetParentFields ==
  ASSUME NEW t \in Trees, NEW n \in RbNodes, NEW m \in Pointers, NEW u, u = [t EXCEPT !.parent[n] = m]
  PROVE  ParentSet(t, n, m, u)
<1> DEFINE p == [t.parent EXCEPT ![n] = m]
<1>1. /\ t.root \in Pointers /\ t.parent \in [RbNodes -> Pointers]
      /\ t.child \in [Sides -> [RbNodes -> Pointers]]
      /\ t = [root |-> t.root, parent |-> t.parent, child |-> t.child]
  BY DEF Trees
<1>2. p \in [RbNodes -> Pointers] /\ \A x \in RbNodes : p[x] = IF x = n THEN m ELSE t.parent[x]
  BY <1>1
<1>3. u = [t EXCEPT !.parent = p]
  BY <1>1
<1> HIDE DEF p
<1>4. u \in Trees /\ u.root = t.root /\ u.child = t.child /\ u.parent = p
  BY <1>1, <1>2, <1>3 DEF Trees
<1>5. QED
  BY <1>2, <1>4 DEF ParentSet

\* n is the child of p and of no other, or the root.
Hangs(t, n, p) ==
  /\ p \in Pointers /\ (p = NoNode <=> t.root = n)
  /\ p # NoNode => \E s \in Sides : t.child[s][p] = n
  /\ \A x \in RbNodes, s \in Sides : t.child[s][x] = n => x = p /\ s = SideOf(t, n, p)

\* u is t with another node, or none, at the place of n.
Replaced(t, n, new, p, u) ==
  /\ u \in Trees
  /\ u.root = IF t.root = n THEN new ELSE t.root
  /\ \A x \in RbNodes : u.parent[x] = IF x = new THEN p ELSE t.parent[x]
  /\ \A x \in RbNodes, s \in Sides : u.child[s][x] = IF t.child[s][x] = n THEN new ELSE t.child[s][x]

\* rb_replace_node and rb_change_child
LEMMA ReplaceFields ==
  ASSUME NEW t \in Trees, NEW n \in RbNodes, NEW new \in Pointers, NEW p, Hangs(t, n, p),
         NEW u, u = ReplaceNode(t, n, new, p)
  PROVE  Replaced(t, n, new, p, u)
<1> DEFINE v == ChangeChild(t, n, new, p)
<1>1. /\ v \in Trees /\ v.parent = t.parent
      /\ v.root = IF t.root = n THEN new ELSE t.root
      /\ \A x \in RbNodes, s \in Sides : v.child[s][x] = IF t.child[s][x] = n THEN new ELSE t.child[s][x]
  <2>1. CASE p = NoNode
    <3>1. v = [t EXCEPT !.root = new] /\ t.root = n
      BY <2>1 DEF ChangeChild, Hangs
    <3>2. \A x \in RbNodes, s \in Sides : t.child[s][x] # n
      BY <2>1, RbtreeAssumption DEF Hangs
    <3>3. v \in Trees /\ v.root = new /\ v.parent = t.parent /\ v.child = t.child
      BY <3>1 DEF Trees
    <3> HIDE DEF v
    <3>4. QED
      BY <3>1, <3>2, <3>3
  <2>2. CASE p # NoNode
    <3> DEFINE s == SideOf(t, n, p)
    <3>1. v = SetChild(t, s, p, new) /\ s \in Sides
      BY <2>2 DEF ChangeChild, SideOf, Sides
    <3>2. p \in RbNodes /\ t.root # n
      BY <2>2 DEF Hangs, Pointers
    <3>3. t.child[s][p] = n /\ \A x \in RbNodes, a \in Sides : t.child[a][x] = n => x = p /\ a = s
      BY <2>2, <3>2 DEF Hangs
    <3> HIDE DEF v, s
    <3>4. /\ v \in Trees /\ v.root = t.root /\ v.parent = t.parent
          /\ \A a \in Sides, x \in RbNodes : v.child[a][x] = IF a = s /\ x = p THEN new ELSE t.child[a][x]
      <4>1. ChildSet(t, s, p, new, v)
        BY <3>1, <3>2, SetChildFields
      <4>2. QED
        BY <4>1 DEF ChildSet
    <3>5. QED
      BY <3>2, <3>3, <3>4
  <2>3. QED
    BY <2>1, <2>2
<1>2. u = SetParent(v, new, p) /\ p \in Pointers
  BY DEF ReplaceNode, Hangs
<1> HIDE DEF v
<1>3. CASE new = NoNode
  <2>1. u = v
    BY <1>2, <1>3 DEF SetParent
  <2>2. \A x \in RbNodes : x # new
    BY <1>3, RbtreeAssumption
  <2>3. QED
    BY <1>1, <2>1, <2>2 DEF Replaced
<1>4. CASE new # NoNode
  <2>1. u = [v EXCEPT !.parent[new] = p] /\ new \in RbNodes
    BY <1>2, <1>4 DEF SetParent, Pointers
  <2>2. /\ u \in Trees /\ u.root = v.root /\ u.child = v.child
        /\ \A x \in RbNodes : u.parent[x] = IF x = new THEN p ELSE v.parent[x]
    <3>1. ParentSet(v, new, p, u)
      BY <1>1, <1>2, <2>1, SetParentFields
    <3>2. QED
      BY <3>1 DEF ParentSet
  <2>3. QED
    BY <1>1, <2>2 DEF Replaced
<1>5. QED
  BY <1>3, <1>4

\* The places below a child are on its side of its parent's.
LEMMA BelowChild ==
  ASSUME NEW t, NEW T, NEW P, NEW E, Linked(t, T), Spans(t, T, P, E),
         NEW x \in T, NEW s \in Sides, NEW c, c = t.child[s][x], c # NoNode
  PROVE  /\ c \in T /\ x \in RbNodes /\ c \in RbNodes
         /\ P[x] \in Int /\ P[c] \in Int
         /\ E["left"][x] \in Int /\ E["right"][x] \in Int /\ E["left"][c] \in Int /\ E["right"][c] \in Int
         /\ E["left"][c] <= P[c] /\ P[c] <= E["right"][c] /\ E["left"][x] <= P[x] /\ P[x] <= E["right"][x]
         /\ s = "left" => E["left"][c] = E["left"][x] /\ E["right"][c] = P[x] - 1
         /\ s = "right" => E["left"][c] = P[x] + 1 /\ E["right"][c] = E["right"][x]
<1>1. c \in T /\ x \in RbNodes /\ c \in RbNodes
  BY DEF Linked
<1>2. SpanAt(t, P, E, x, s)
  BY DEF Spans
<1>3. /\ P[x] \in Int /\ P[c] \in Int /\ \A a \in Sides : E[a][x] \in Int /\ E[a][c] \in Int
      /\ E["left"][c] <= P[c] /\ P[c] <= E["right"][c] /\ E["left"][x] <= P[x] /\ P[x] <= E["right"][x]
  BY <1>1 DEF Spans
<1>4. E[s][c] = E[s][x] /\ E[Other(s)][c] = Beyond(s, P[x])
  BY <1>2 DEF SpanAt
<1>5. CASE s = "left"
  BY <1>1, <1>3, <1>4, <1>5, SidesAre DEF Other, Beyond
<1>6. CASE s = "right"
  BY <1>1, <1>3, <1>4, <1>6, SidesAre DEF Other, Beyond
<1>7. QED
  BY <1>5, <1>6, SidesAre

\* A node is not below itself.
LEMMA Apart ==
  ASSUME NEW t, NEW T, NEW P, NEW E, Linked(t, T), Spans(t, T, P, E),
         NEW x \in T, NEW s \in Sides, NEW c, c = t.child[s][x], c # NoNode
  PROVE  c # x /\ \A a \in Sides : t.child[a][c] # x /\ t.child[a][c] # c
<1>1. /\ c \in T /\ E["left"][c] <= P[c] /\ P[c] <= E["right"][c]
      /\ P[x] \in Int /\ P[c] \in Int /\ E["left"][c] \in Int /\ E["right"][c] \in Int
      /\ P[x] = E["right"][c] + 1 \/ P[x] = E["left"][c] - 1
  <2>1. CASE s = "left"
    BY <2>1, BelowChild
  <2>2. CASE s = "right"
    BY <2>2, BelowChild
  <2>3. QED
    BY <2>1, <2>2, SidesAre
<1>2. c # x
  BY <1>1
<1>3. ASSUME NEW a \in Sides, NEW g, g = t.child[a][c], g # NoNode PROVE g # x /\ g # c
  <2>1. /\ P[g] \in Int /\ P[g] # P[c] /\ E["left"][c] <= P[g] /\ P[g] <= E["right"][c]
    <3>1. CASE a = "left"
      BY <1>1, <1>3, <3>1, BelowChild, SMTT(60)
    <3>2. CASE a = "right"
      BY <1>1, <1>3, <3>2, BelowChild, SMTT(60)
    <3>3. QED
      BY <3>1, <3>2, SidesAre
  <2>2. QED
    BY <1>1, <2>1
<1>4. x # NoNode /\ c # NoNode
  BY RbtreeAssumption DEF Linked
<1>5. QED
  BY <1>2, <1>3, <1>4

\* A node of a tree hangs on its parent.
LEMMA HangsOnParent ==
  ASSUME NEW t, NEW T, NEW P, NEW E, Linked(t, T), Spans(t, T, P, E), NEW n \in T
  PROVE  Hangs(t, n, t.parent[n])
<1> DEFINE p == t.parent[n]
<1>1. t \in Trees /\ T \subseteq RbNodes /\ n \in RbNodes /\ p \in Pointers
  BY TreeSays DEF Linked
<1>2. p = NoNode <=> t.root = n
  BY DEF Linked
<1>3. p # NoNode => p \in T /\ \E s \in Sides : t.child[s][p] = n
  BY <1>2 DEF Linked
<1>4. n # NoNode
  BY <1>1, RbtreeAssumption
<1>5. ASSUME NEW x \in RbNodes, NEW s \in Sides, t.child[s][x] = n PROVE x = p /\ s = SideOf(t, n, p)
  <2>1. x \in T
    BY <1>4, <1>5 DEF Linked
  <2>2. x = p
    BY <1>4, <1>5, <2>1 DEF Linked
  <2>3. CASE s = "left"
    BY <1>5, <2>2, <2>3 DEF SideOf
  <2>4. CASE s = "right"
    <3>1. t.child["left"][p] # n
      <4>1. SUFFICES ASSUME t.child["left"][p] = n PROVE FALSE
        OBVIOUS
      <4> DEFINE y == p
                 a == "left"
      <4>2. y \in RbNodes /\ a \in Sides /\ t.child[a][y] = t.child[s][x] /\ t.child[a][y] # NoNode /\ a # s
        BY <1>1, <1>4, <1>5, <2>1, <2>2, <2>4, <4>1, SidesAre
      <4> HIDE DEF y, a
      <4>3. QED
        BY <4>2, OneParent
    <3>2. QED
      BY <2>2, <2>4, <3>1 DEF SideOf
  <2>5. QED
    BY <2>3, <2>4, SidesAre
<1>6. QED
  BY <1>1, <1>2, <1>3, <1>5 DEF Hangs

-----------------------------------------------------------------------------
(* Rotations                                                               *)

\* u is t with n turned down to a side: its child r on the other side is in
\* its place, and that one's child m on this side is now n's.
Turned(t, n, side, r, m, u) ==
  /\ u \in Trees
  /\ u.root = IF t.root = n THEN r ELSE t.root
  /\ \A x \in RbNodes : u.parent[x] = IF x = n THEN r ELSE IF x = r THEN t.parent[n]
                                     ELSE IF x = m THEN n ELSE t.parent[x]
  /\ \A x \in RbNodes, s \in Sides :
       u.child[s][x] = IF x = n THEN IF s = side THEN t.child[s][n] ELSE m
                       ELSE IF x = r THEN IF s = side THEN n ELSE t.child[s][r]
                       ELSE IF t.child[s][x] = n THEN r ELSE t.child[s][x]

\* rb_rotate_left and rb_rotate_right
LEMMA RotateFields ==
  ASSUME NEW t, NEW T, NEW P, NEW E, Linked(t, T), Spans(t, T, P, E), NEW n \in T, NEW side \in Sides,
         t.child[Other(side)][n] # NoNode, NEW u, u = Rotate(t, n, side)
  PROVE  Turned(t, n, side, t.child[Other(side)][n], t.child[side][t.child[Other(side)][n]], u)
<1> DEFINE far == Other(side)
           p == t.parent[n]
           r == t.child[far][n]
           m == t.child[side][r]
           a == SetChild(t, far, n, m)
           moved == SetParent(a, m, n)
           raised == ReplaceNode(moved, n, r, p)
           b == SetChild(raised, side, r, n)
<1>1. u = SetParent(b, n, r)
  BY DEF Rotate
<1>2. /\ t \in Trees /\ n \in RbNodes /\ r \in T /\ r \in RbNodes /\ m \in Pointers /\ far \in Sides
      /\ far # side /\ p \in Pointers /\ NoNode \notin RbNodes
  BY SidesAre, TreeSays DEF Linked, far
<1> HIDE DEF far, p
<1>3. r # n /\ m # n /\ m # r
  BY <1>2, Apart
<1> HIDE DEF r, m
<1>4. Hangs(t, n, p)
  BY HangsOnParent DEF p
<1>5. \A s \in Sides : t.child[s][n] # n /\ t.child[s][r] # n
  <2>1. \A s \in Sides : t.child[s][n] # n
    BY <1>2, Apart
  <2>2. \A s \in Sides : t.child[s][r] # n
    <3>1. r = t.child[far][n] /\ r # NoNode
      BY <1>2 DEF r
    <3>2. QED
      BY <1>2, <3>1, Apart
  <2>3. QED
    BY <2>1, <2>2
<1>6. ChildSet(t, far, n, m, a)
  BY <1>2, SetChildFields
<1> HIDE DEF a
<1>7. /\ moved \in Trees /\ moved.root = t.root
      /\ \A x \in RbNodes : moved.parent[x] = IF x = m THEN n ELSE t.parent[x]
      /\ \A s \in Sides, x \in RbNodes : moved.child[s][x] = IF s = far /\ x = n THEN m ELSE t.child[s][x]
  <2>1. CASE m = NoNode
    BY <1>2, <1>6, <2>1 DEF SetParent, ChildSet
  <2>2. CASE m # NoNode
    <3>1. moved = [a EXCEPT !.parent[m] = n] /\ m \in RbNodes
      BY <1>2, <2>2 DEF SetParent, Pointers
    <3>2. a \in Trees /\ n \in Pointers
      BY <1>2, <1>6 DEF ChildSet, Pointers
    <3> HIDE DEF moved
    <3>3. ParentSet(a, m, n, moved)
      BY <3>1, <3>2, SetParentFields
    <3>4. QED
      BY <1>6, <3>3 DEF ChildSet, ParentSet
  <2>3. QED
    BY <2>1, <2>2
<1> HIDE DEF moved
<1>8. Hangs(moved, n, p)
  <2>1. \A s \in Sides, x \in RbNodes : moved.child[s][x] = n <=> t.child[s][x] = n
    BY <1>2, <1>3, <1>5, <1>7
  <2>2. CASE p = NoNode
    BY <1>4, <1>7, <2>1, <2>2, RbtreeAssumption DEF Hangs
  <2>3. CASE p # NoNode
    <3>1. p \in RbNodes
      BY <1>2, <2>3 DEF Pointers
    <3>2. SideOf(moved, n, p) = SideOf(t, n, p)
      BY <2>1, <3>1, SidesAre DEF SideOf
    <3>3. QED
      BY <1>4, <1>7, <2>1, <3>1, <3>2 DEF Hangs
  <2>4. QED
    BY <2>2, <2>3
<1>9. Replaced(moved, n, r, p, raised)
  <2>1. r \in Pointers
    BY <1>2 DEF Pointers
  <2>2. QED
    BY <1>2, <1>7, <1>8, <2>1, ReplaceFields
<1> HIDE DEF raised
<1>10. ChildSet(raised, side, r, n, b)
  <2>1. n \in Pointers /\ raised \in Trees
    BY <1>2, <1>9 DEF Pointers, Replaced
  <2>2. QED
    BY <1>2, <2>1, SetChildFields
<1>11. ParentSet(b, n, r, u)
  <2>1. r \in Pointers /\ b \in Trees
    BY <1>2, <1>10 DEF Pointers, ChildSet
  <2>2. u = [b EXCEPT !.parent[n] = r]
    BY <1>1, <1>2 DEF SetParent
  <2> HIDE DEF b
  <2>3. QED
    BY <1>2, <2>1, <2>2, SetParentFields
<1> HIDE DEF b
<1>12. u \in Trees /\ u.root = IF t.root = n THEN r ELSE t.root
  BY <1>7, <1>9, <1>10, <1>11 DEF Replaced, ChildSet, ParentSet
<1>13. \A x \in RbNodes : u.parent[x] = IF x = n THEN r ELSE IF x = r THEN p ELSE IF x = m THEN n ELSE t.parent[x]
  BY <1>3, <1>7, <1>9, <1>10, <1>11 DEF Replaced, ChildSet, ParentSet
<1>14. \A x \in RbNodes, s \in Sides :
         u.child[s][x] = IF x = r /\ s = side THEN n
                         ELSE IF (IF s = far /\ x = n THEN m ELSE t.child[s][x]) = n THEN r
                         ELSE IF s = far /\ x = n THEN m ELSE t.child[s][x]
  BY <1>7, <1>9, <1>10, <1>11 DEF Replaced, ChildSet, ParentSet
<1>15. \A s \in Sides : s = side \/ s = far
  BY <1>2, SidesAre
<1>16. \A x \in RbNodes, s \in Sides :
       u.child[s][x] = IF x = n THEN IF s = side THEN t.child[s][n] ELSE m
                       ELSE IF x = r THEN IF s = side THEN n ELSE t.child[s][r]
                       ELSE IF t.child[s][x] = n THEN r ELSE t.child[s][x]
  BY <1>2, <1>3, <1>5, <1>14, <1>15
<1>17. QED
  BY <1>12, <1>13, <1>16 DEF Turned, r, m, p, far

\* F is E with the edge of r on a side, and that of n on the other, moved.
TurnedEdges(E, P, n, side, r, F) ==
  /\ F \in [Sides -> [RbNodes -> Int]]
  /\ F[side][r] = E[side][n] /\ F[Other(side)][n] = Beyond(side, P[r])
  /\ \A x \in RbNodes : /\ x # r => F[side][x] = E[side][x]
                        /\ x # n => F[Other(side)][x] = E[Other(side)][x]

\* There are such edges.
LEMMA TurnedEdgesExist ==
  ASSUME NEW E \in [Sides -> [RbNodes -> Int]], NEW P \in [RbNodes -> Int], NEW n \in RbNodes, NEW r \in RbNodes,
         NEW side \in Sides
  PROVE  \E F : TurnedEdges(E, P, n, side, r, F)
<1> DEFINE far == Other(side)
           b == Beyond(side, P[r])
           f == [x \in RbNodes |-> IF x = r THEN E[side][n] ELSE E[side][x]]
           g == [x \in RbNodes |-> IF x = n THEN b ELSE E[far][x]]
           F == [s \in Sides |-> IF s = side THEN f ELSE g]
<1>1. far \in Sides /\ far # side
  BY SidesAre
<1>2. b \in Int
  BY DEF Beyond
<1> HIDE DEF far, b
<1>3. \A x \in RbNodes : E[side][x] \in Int /\ E[far][x] \in Int
  BY <1>1
<1>4. f \in [RbNodes -> Int] /\ g \in [RbNodes -> Int]
  BY <1>2, <1>3
<1> HIDE DEF f, g
<1>5. F \in [Sides -> [RbNodes -> Int]] /\ F[side] = f /\ F[far] = g
  BY <1>1, <1>4
<1> HIDE DEF F
<1>6. TurnedEdges(E, P, n, side, r, F)
  BY <1>5, Zenon DEF TurnedEdges, f, g, far, b
<1>7. QED
  BY <1>6

\* A rotation keeps the links of a tree.
LEMMA TurnKeepsLinks ==
  ASSUME NEW t, NEW T, NEW P, NEW E, Linked(t, T), Spans(t, T, P, E), NEW n \in T, NEW side \in Sides,
         NEW r, r = t.child[Other(side)][n], r # NoNode, NEW m, m = t.child[side][r],
         NEW u, Turned(t, n, side, r, m, u)
  PROVE  Linked(u, T)
<1> DEFINE far == Other(side)
           p == t.parent[n]
<1>1. /\ t \in Trees /\ T \subseteq RbNodes /\ n \in RbNodes /\ r \in T /\ r \in RbNodes /\ m \in Pointers
      /\ far \in Sides /\ far # side /\ p \in Pointers /\ NoNode \notin RbNodes
      /\ \A s \in Sides : s = side \/ s = far
  BY SidesAre, TreeSays, Zenon DEF Linked
<1>2. r # n /\ m # n /\ m # r /\ \A s \in Sides : t.child[s][r] # n /\ t.child[s][n] # n /\ t.child[s][r] # r
  <2>1. \A s \in Sides : t.child[s][n] # n
    BY <1>1, Apart
  <2>2. r # n /\ \A s \in Sides : t.child[s][r] # n /\ t.child[s][r] # r
    BY <1>1, Apart, Zenon
  <2>3. QED
    BY <2>1, <2>2
<1>3. /\ t.child[far][n] = r /\ t.child[side][r] = m
      /\ t.parent[r] = n /\ (m # NoNode => m \in T /\ t.parent[m] = r)
      /\ \A x \in RbNodes, s \in Sides : t.child[s][x] = n => x = p
      /\ p # NoNode => p \in T
      /\ p = NoNode <=> t.root = n
  <2>1. t.parent[r] = n /\ (m # NoNode => m \in T /\ t.parent[m] = r)
    <3>1. \A x \in T, a \in Sides : t.child[a][x] # NoNode => t.child[a][x] \in T /\ t.parent[t.child[a][x]] = x
      BY Zenon DEF Linked
    <3>2. QED
      BY <1>1, <3>1
  <2>2. Hangs(t, n, p)
    BY HangsOnParent
  <2>3. p # NoNode => p \in T
    BY <1>1, Zenon DEF Linked
  <2>4. QED
    BY <1>1, <2>1, <2>2, <2>3, Zenon DEF Hangs
<1>4. p # r /\ p # n
  <2>1. p # NoNode => \E s \in Sides : t.child[s][p] = n
    BY HangsOnParent DEF Hangs
  <2>2. QED
    BY <1>1, <1>2, <2>1
<1> HIDE DEF p, far
<1>5. /\ u \in Trees /\ u.root = IF t.root = n THEN r ELSE t.root
      /\ \A x \in RbNodes : u.parent[x] = IF x = n THEN r ELSE IF x = r THEN p
                                     ELSE IF x = m THEN n ELSE t.parent[x]
      /\ \A x \in RbNodes, s \in Sides :
       u.child[s][x] = IF x = n THEN IF s = side THEN t.child[s][n] ELSE m
                       ELSE IF x = r THEN IF s = side THEN n ELSE t.child[s][r]
                       ELSE IF t.child[s][x] = n THEN r ELSE t.child[s][x]
  BY DEF Turned, p
<1>6. IF T = {} THEN u.root = NoNode ELSE u.root \in T
  BY <1>1, <1>5, Zenon DEF Linked
<1>7. t.root # r
  BY <1>1, <1>3 DEF Linked
<1>8. ASSUME NEW x \in T PROVE x = u.root <=> u.parent[x] = NoNode
  <2>1. x = t.root <=> t.parent[x] = NoNode
    BY DEF Linked
  <2>2. n # NoNode /\ r # NoNode /\ x \in RbNodes
    BY <1>1, Zenon
  <2>3. CASE x = n
    BY <1>2, <1>5, <2>2, <2>3, Zenon
  <2>4. CASE x = r
    BY <1>2, <1>3, <1>5, <1>7, <2>2, <2>4
  <2>5. CASE x = m
    <3>1. t.parent[m] = r /\ m # NoNode
      BY <1>1, <1>3, <2>2, <2>5
    <3>2. x # t.root
      BY <2>1, <2>2, <2>5, <3>1, Zenon
    <3>3. u.parent[x] = n /\ x # r /\ x # n
      BY <1>2, <1>5, <2>2, <2>5
    <3>4. QED
      BY <1>5, <2>2, <3>2, <3>3, Zenon
  <2>6. CASE x # n /\ x # r /\ x # m
    BY <1>5, <2>1, <2>2, <2>6
  <2>7. QED
    BY <2>3, <2>4, <2>5, <2>6
<1>9. ASSUME NEW x \in T \ {u.root} PROVE u.parent[x] \in T /\ \E s \in Sides : u.child[s][u.parent[x]] = x
  <2>1. x \in RbNodes /\ n # NoNode /\ r # NoNode
    BY <1>1, Zenon
  <2>2. CASE x = n
    BY <1>1, <1>2, <1>5, <2>1, <2>2
  <2>3. CASE x = r
    <3>1. t.root # n /\ p # NoNode /\ p \in RbNodes
      BY <1>1, <1>3, <1>5, <2>3
    <3>2. PICK s \in Sides : t.child[s][p] = n
      BY <3>1, HangsOnParent, SMTT(60) DEF Hangs, p
    <3>3. u.parent[x] = p
      BY <1>2, <1>5, <2>1, <2>3
    <3>4. u.child[s][p] = IF t.child[s][p] = n THEN r ELSE t.child[s][p]
      BY <1>4, <1>5, <3>1
    <3>5. u.child[s][p] = r
      BY <3>2, <3>4
    <3>6. QED
      BY <1>3, <2>3, <3>1, <3>3, <3>5, Zenon
  <2>4. CASE x = m
    <3>1. u.parent[x] = n /\ u.child[far][n] = m
      BY <1>1, <1>2, <1>5, <2>1, <2>4
    <3>2. QED
      BY <1>1, <2>4, <3>1, Zenon
  <2>5. CASE x # n /\ x # r /\ x # m
    <3>1. x # t.root
      BY <1>5, <2>5
    <3>2. t.parent[x] \in T /\ u.parent[x] = t.parent[x]
      BY <1>5, <2>1, <2>5, <3>1 DEF Linked
    <3>3. PICK s \in Sides : t.child[s][t.parent[x]] = x
      BY <3>1 DEF Linked
    <3>4. t.parent[x] = n => s = side
      BY <1>1, <1>3, <2>5, <3>3
    <3>5. t.parent[x] = r => s # side
      BY <1>1, <1>3, <2>5, <3>3, Zenon
    <3>6. u.child[s][t.parent[x]] = x
      BY <1>1, <1>5, <2>5, <3>2, <3>3, <3>4, <3>5
    <3>7. QED
      BY <3>2, <3>6
  <2>6. QED
    BY <2>2, <2>3, <2>4, <2>5
<1>10. ASSUME NEW x \in T, NEW s \in Sides, u.child[s][x] # NoNode
       PROVE  u.child[s][x] \in T /\ u.parent[u.child[s][x]] = x
  <2> DEFINE c == t.child[s][x]
  <2>1. x \in RbNodes /\ (c # NoNode => c \in T /\ c \in RbNodes /\ t.parent[c] = x)
    BY <1>1, Zenon DEF Linked
  <2>2. CASE x = n /\ s # side
    BY <1>1, <1>2, <1>3, <1>5, <1>10, <2>2
  <2>3. CASE x = n /\ s = side
    <3>1. u.child[s][x] = c /\ c # n
      BY <1>2, <1>5, <2>1, <2>3, Zenon
    <3>2. c # r /\ c # m
      <4>1. c # r
        <5>1. SUFFICES ASSUME c = r PROVE FALSE
          OBVIOUS
        <5>2. n \in RbNodes /\ t.child[side][n] = t.child[far][n] /\ t.child[far][n] # NoNode
          BY <1>1, <1>3, <2>3, <5>1
        <5> HIDE DEF c
        <5>3. QED
          BY <1>1, <5>2, OneParent
      <4>2. QED
        BY <1>2, <1>3, <1>10, <2>1, <2>3, <3>1, <4>1
    <3>3. QED
      BY <1>5, <1>10, <2>1, <3>1, <3>2, SMTT(60)
  <2>4. CASE x = r /\ s = side
    BY <1>1, <1>2, <1>5, <2>4, Zenon
  <2>5. CASE x = r /\ s # side
    <3>1. u.child[s][x] = c /\ c # n /\ c # r
      BY <1>2, <1>5, <2>1, <2>5, Zenon
    <3>2. c # m
      <4>1. SUFFICES ASSUME c = m PROVE FALSE
        OBVIOUS
      <4>2. s = far /\ t.child[side][r] = t.child[far][r] /\ t.child[far][r] # NoNode
        BY <1>1, <1>3, <1>10, <2>5, <3>1, <4>1, Zenon
      <4> HIDE DEF c
      <4>3. QED
        BY <1>1, <4>2, OneParent
    <3>3. QED
      BY <1>5, <1>10, <2>1, <3>1, <3>2
  <2>6. CASE x # n /\ x # r /\ c = n
    <3>1. u.child[s][x] = r
      BY <1>5, <2>1, <2>6
    <3>2. x = p
      BY <1>3, <2>1, <2>6
    <3>3. QED
      BY <1>1, <1>2, <1>5, <3>1, <3>2
  <2>7. CASE x # n /\ x # r /\ c # n
    <3>1. u.child[s][x] = c
      BY <1>5, <2>1, <2>7, Zenon
    <3>2. c # r /\ c # m
      BY <1>3, <1>10, <2>1, <2>7, <3>1
    <3>3. QED
      BY <1>5, <1>10, <2>1, <2>7, <3>1, <3>2
  <2>8. QED
    BY <2>2, <2>3, <2>4, <2>5, <2>6, <2>7
<1>11. ASSUME NEW x \in RbNodes \ T PROVE u.parent[x] = NoNode /\ \A s \in Sides : u.child[s][x] = NoNode
  <2>1. t.parent[x] = NoNode /\ \A s \in Sides : t.child[s][x] = NoNode
    BY Zenon DEF Linked
  <2>2. x # n /\ x # r /\ x # m
    BY <1>1, <1>3
  <2>3. QED
    BY <1>1, <1>5, <2>1, <2>2
<1>12. QED
  BY <1>1, <1>5, <1>6, <1>8, <1>9, <1>10, <1>11 DEF Linked

\* A rotation keeps the shape of a tree: its order, and all places.
LEMMA TurnKeepsShape ==
  ASSUME NEW t, NEW T, NEW q, NEW P, NEW E, Shape(t, T, q, P, E), NEW n \in T, NEW side \in Sides,
         NEW r, r = t.child[Other(side)][n], r # NoNode, NEW m, m = t.child[side][r],
         NEW u, Turned(t, n, side, r, m, u), NEW F, TurnedEdges(E, P, n, side, r, F)
  PROVE  Shape(u, T, q, P, F)
<1> DEFINE far == Other(side)
<1>1. Linked(t, T) /\ Spans(t, T, P, E) /\ Lists(t, T, q, P, E)
  BY DEF Shape
<1>2. Linked(u, T)
  BY <1>1, TurnKeepsLinks
<1>3. /\ t \in Trees /\ T \subseteq RbNodes /\ n \in RbNodes /\ r \in T /\ r \in RbNodes /\ m \in Pointers
      /\ far \in Sides /\ far # side /\ NoNode \notin RbNodes /\ Other(far) = side
      /\ \A s \in Sides : s = side \/ s = far
      /\ m # NoNode => m \in T /\ m \in RbNodes
  BY <1>1, SidesAre, TreeSays DEF Linked
<1>4. r # n /\ m # n /\ m # r /\ \A s \in Sides : t.child[s][r] # n /\ t.child[s][n] # n /\ t.child[s][r] # r
  <2>1. \A s \in Sides : t.child[s][n] # n
    BY <1>1, <1>3, Apart
  <2>2. r # n /\ \A s \in Sides : t.child[s][r] # n /\ t.child[s][r] # r
    BY <1>1, <1>3, Apart
  <2>3. QED
    BY <2>1, <2>2
<1>5. t.child[far][n] = r /\ t.child[side][r] = m
  OBVIOUS
<1>6. \A x \in RbNodes, s \in Sides : t.child[s][x] = r => x = n /\ s = far
  BY <1>1, <1>3, <1>5, OneParent
<1>7. /\ \A x \in RbNodes : P[x] \in Int /\ \A s \in Sides : E[s][x] \in Int /\ F[s][x] \in Int
      /\ \A x \in T, s \in Sides : SpanAt(t, P, E, x, s)
      /\ \A x \in T : E["left"][x] <= P[x] /\ P[x] <= E["right"][x]
  BY <1>1 DEF Spans, TurnedEdges
<1>8. /\ F[side][r] = E[side][n] /\ F[far][n] = Beyond(side, P[r])
      /\ \A x \in RbNodes : (x # r => F[side][x] = E[side][x]) /\ (x # n => F[far][x] = E[far][x])
  BY DEF TurnedEdges
<1>9. \A i, j \in Int : i = Beyond(far, j) => Beyond(side, i) = j
  BY <1>3 DEF Beyond, Sides
<1>10. E[far][r] = E[far][n] /\ E[side][r] = Beyond(far, P[n])
  <2>1. SpanAt(t, P, E, n, far)
    BY <1>3, <1>7, Zenon
  <2>2. QED
    BY <1>3, <1>5, <2>1 DEF SpanAt
<1>11. \A s \in Sides : F[s][r] = E[s][n]
  BY <1>3, <1>4, <1>8, <1>10
<1>12. \A x \in RbNodes, s \in Sides : x # n /\ x # r => F[s][x] = E[s][x]
  BY <1>3, <1>8
<1>13. \A x \in RbNodes, s \in Sides :
         u.child[s][x] = IF x = n THEN IF s = side THEN t.child[s][n] ELSE m
                         ELSE IF x = r THEN IF s = side THEN n ELSE t.child[s][r]
                         ELSE IF t.child[s][x] = n THEN r ELSE t.child[s][x]
  BY DEF Turned
<1> HIDE DEF far
<1>14. ASSUME NEW x \in T PROVE F["left"][x] <= P[x] /\ P[x] <= F["right"][x]
  <2>1. x \in RbNodes
    BY <1>3
  <2>2. CASE x # n /\ x # r
    BY <1>7, <1>12, <2>1, <2>2, SidesAre
  <2>3. CASE x = n
    <3>1. F[side][n] = E[side][n] /\ F[far][n] = Beyond(side, P[r])
      BY <1>3, <1>4, <1>8
    <3>2. E["left"][r] <= P[r] /\ P[r] <= E["right"][r] /\ E["left"][n] <= P[n] /\ P[n] <= E["right"][n]
      BY <1>3, <1>7
    <3>3. /\ P[r] \in Int /\ P[n] \in Int
          /\ E["left"][r] \in Int /\ E["right"][r] \in Int /\ E["left"][n] \in Int /\ E["right"][n] \in Int
      BY <1>3, <1>7, SidesAre
    <3>4. CASE side = "left"
      BY <1>3, <1>10, <2>3, <3>1, <3>2, <3>3, <3>4, SidesAre DEF Beyond
    <3>5. CASE side = "right"
      BY <1>3, <1>10, <2>3, <3>1, <3>2, <3>3, <3>5, SidesAre DEF Beyond
    <3>6. QED
      BY <3>4, <3>5, SidesAre, Zenon
  <2>4. CASE x = r
    <3>1. F["left"][r] = E["left"][n] /\ F["right"][r] = E["right"][n]
      BY <1>11, SidesAre
    <3>2. E["left"][r] <= P[r] /\ P[r] <= E["right"][r] /\ E["left"][n] <= P[n] /\ P[n] <= E["right"][n]
      BY <1>3, <1>7
    <3>3. /\ P[r] \in Int /\ P[n] \in Int
          /\ E["left"][r] \in Int /\ E["right"][r] \in Int /\ E["left"][n] \in Int /\ E["right"][n] \in Int
      BY <1>3, <1>7, SidesAre
    <3>4. CASE side = "left"
      BY <1>3, <1>10, <2>4, <3>1, <3>2, <3>3, <3>4, SidesAre, SMTT(60) DEF Beyond
    <3>5. CASE side = "right"
      BY <1>3, <1>10, <2>4, <3>1, <3>2, <3>3, <3>5, SidesAre DEF Beyond
    <3>6. QED
      BY <3>4, <3>5, SidesAre, Zenon
  <2>5. QED
    BY <2>2, <2>3, <2>4
<1>15. ASSUME NEW x \in T, NEW s \in Sides PROVE SpanAt(u, P, F, x, s)
  <2> DEFINE c == t.child[s][x]
  <2>1. SpanAt(t, P, E, x, s) /\ x \in RbNodes /\ (c # NoNode => c \in RbNodes) /\ Other(s) \in Sides
    BY <1>1, <1>3, <1>7, SidesAre DEF Linked
  <2>2. CASE x = n /\ s = far
    <3>1. u.child[s][x] = m /\ SpanAt(t, P, E, r, side)
      BY <1>3, <1>7, <1>13, <2>2
    <3>2. CASE m = NoNode
      <4>1. E[side][r] = P[r]
        BY <1>5, <3>1, <3>2 DEF SpanAt
      <4>2. P[n] \in Int /\ P[r] \in Int
        BY <1>3, <1>7
      <4>3. Beyond(side, P[r]) = P[n]
        BY <1>9, <1>10, <4>1, <4>2
      <4>4. QED
        BY <1>8, <2>2, <3>1, <3>2, <4>3 DEF SpanAt
    <3>3. CASE m # NoNode
      <4>1. E[side][m] = E[side][r] /\ E[far][m] = Beyond(side, P[r])
        BY <1>5, <3>1, <3>3 DEF SpanAt, far
      <4>2. F[side][m] = E[side][m] /\ F[far][m] = E[far][m]
        BY <1>3, <1>4, <1>12, <3>3, ZenonT(30)
      <4>3. F[far][m] = F[far][n] /\ F[Other(far)][m] = Beyond(far, P[n])
        BY <1>3, <1>8, <1>10, <4>1, <4>2
      <4>4. QED
        BY <2>2, <3>1, <3>3, <4>3, Zenon DEF SpanAt
    <3>4. QED
      BY <3>2, <3>3
  <2>3. CASE x = r /\ s = side
    <3>1. u.child[s][x] = n /\ n # NoNode
      BY <1>3, <1>4, <1>13, <2>3, Zenon
    <3>2. F[side][n] = E[side][n]
      BY <1>3, <1>4, <1>8
    <3>3. F[s][n] = F[s][r] /\ F[Other(s)][n] = Beyond(s, P[r])
      BY <1>8, <2>3, <3>2 DEF far
    <3>4. QED
      BY <2>3, <3>1, <3>3, Zenon DEF SpanAt
  <2>4. CASE x # n /\ x # r /\ c = n
    <3>1. u.child[s][x] = r
      BY <1>13, <2>1, <2>4
    <3>2. E[s][n] = E[s][x] /\ E[Other(s)][n] = Beyond(s, P[x])
      BY <1>3, <2>1, <2>4 DEF SpanAt
    <3>3. F[s][r] = F[s][x] /\ F[Other(s)][r] = Beyond(s, P[x])
      BY <1>11, <1>12, <2>1, <2>4, <3>2
    <3>4. QED
      BY <3>1, <3>3 DEF SpanAt
  <2>5. CASE ~(x = n /\ s = far) /\ ~(x = r /\ s = side) /\ c # n
    <3>1. u.child[s][x] = c /\ c # r
      BY <1>3, <1>4, <1>6, <1>13, <2>1, <2>5
    <3>2. F[s][x] = E[s][x]
      BY <1>3, <1>8, <1>12, <2>1, <2>5
    <3>3. c # NoNode => F[s][c] = E[s][c] /\ F[Other(s)][c] = E[Other(s)][c]
      BY <1>12, <2>1, <2>5, <3>1
    <3> HIDE DEF c
    <3>4. (IF c = NoNode THEN E[s][x] = P[x] ELSE E[s][c] = E[s][x] /\ E[Other(s)][c] = Beyond(s, P[x]))
      BY <2>1 DEF SpanAt, c
    <3>5. (IF c = NoNode THEN F[s][x] = P[x] ELSE F[s][c] = F[s][x] /\ F[Other(s)][c] = Beyond(s, P[x]))
      BY <3>2, <3>3, <3>4
    <3>6. QED
      BY <3>1, <3>5, Zenon DEF SpanAt
  <2>6. QED
    <3>1. c = n => x # n /\ x # r
      BY <1>4
    <3>2. QED
      BY <2>2, <2>3, <2>4, <2>5, <3>1
<1>16. Spans(u, T, P, F)
  <2>1. P \in [RbNodes -> Int] /\ F \in [Sides -> [RbNodes -> Int]]
    BY <1>1 DEF Spans, TurnedEdges
  <2>2. QED
    BY <1>14, <1>15, <2>1 DEF Spans
<1>17. Lists(u, T, q, P, F)
  <2>1. F["left"][u.root] = E["left"][t.root] /\ F["right"][u.root] = E["right"][t.root]
    <3>1. t.root \in T /\ t.root \in RbNodes /\ t.root # r
      <4>1. t.root \in T
        BY <1>1, Zenon DEF Linked
      <4>2. t.parent[t.root] = NoNode /\ t.parent[r] = n
        BY <1>1, <1>3, <1>5, <4>1, TreeSays DEF Linked
      <4>3. QED
        BY <1>3, <4>1, <4>2
    <3>2. u.root = IF t.root = n THEN r ELSE t.root
      BY DEF Turned
    <3>3. CASE t.root = n
      BY <1>11, <3>2, <3>3, SidesAre
    <3>4. CASE t.root # n
      BY <1>12, <3>1, <3>2, <3>4, SidesAre
    <3>5. QED
      BY <3>3, <3>4
  <2>2. QED
    BY <1>1, <2>1 DEF Lists
<1>18. QED
  BY <1>2, <1>16, <1>17 DEF Shape

-----------------------------------------------------------------------------
(* Unlinking a node, and giving its place to another                       *)

\* u is t without n, whose child c (or none) is in its place.
Unlinked(t, n, c, u) ==
  /\ u \in Trees
  /\ u.root = IF t.root = n THEN c ELSE t.root
  /\ \A x \in RbNodes : u.parent[x] = IF x = n THEN NoNode ELSE IF x = c THEN t.parent[n] ELSE t.parent[x]
  /\ \A x \in RbNodes, s \in Sides :
       u.child[s][x] = IF x = n THEN NoNode ELSE IF t.child[s][x] = n THEN c ELSE t.child[s][x]

\* The place of n is gone: those behind it move up.
Gone(q, P, E, n, q2, P2, E2) ==
  /\ q2 = RemoveAt(q, P[n])
  /\ P2 \in [RbNodes -> Int] /\ E2 \in [Sides -> [RbNodes -> Int]]
  /\ \A x \in RbNodes : /\ P2[x] = IF P[x] > P[n] THEN P[x] - 1 ELSE P[x]
                        /\ E2["left"][x] = IF E["left"][x] > P[n] THEN E["left"][x] - 1 ELSE E["left"][x]
                        /\ E2["right"][x] = IF E["right"][x] >= P[n] THEN E["right"][x] - 1 ELSE E["right"][x]

\* There is such a sequence, with its places and edges.
LEMMA GoneExist ==
  ASSUME NEW q, NEW P \in [RbNodes -> Int], NEW E \in [Sides -> [RbNodes -> Int]], NEW n \in RbNodes
  PROVE  \E q2, P2, E2 : Gone(q, P, E, n, q2, P2, E2)
<1> DEFINE k == P[n]
           p == [x \in RbNodes |-> IF P[x] > k THEN P[x] - 1 ELSE P[x]]
           f == [x \in RbNodes |-> IF E["left"][x] > k THEN E["left"][x] - 1 ELSE E["left"][x]]
           g == [x \in RbNodes |-> IF E["right"][x] >= k THEN E["right"][x] - 1 ELSE E["right"][x]]
           F == [s \in Sides |-> IF s = "left" THEN f ELSE g]
<1>1. k \in Int /\ \A x \in RbNodes : P[x] \in Int /\ E["left"][x] \in Int /\ E["right"][x] \in Int
  BY SidesAre
<1> HIDE DEF k
<1>2. p \in [RbNodes -> Int] /\ f \in [RbNodes -> Int] /\ g \in [RbNodes -> Int]
  BY <1>1
<1> HIDE DEF f, g, p
<1>3. F \in [Sides -> [RbNodes -> Int]] /\ F["left"] = f /\ F["right"] = g
  BY <1>2 DEF Sides
<1> HIDE DEF F
<1>4. Gone(q, P, E, n, RemoveAt(q, k), p, F)
  BY <1>2, <1>3 DEF Gone, k, p, f, g
<1>5. QED
  BY <1>4

\* A root with nothing below it is the only node.
LEMMA LoneRoot ==
  ASSUME NEW t, NEW T, NEW q, NEW P, NEW E, Shape(t, T, q, P, E), T # {},
         \A s \in Sides : t.child[s][t.root] = NoNode
  PROVE  T = {t.root} /\ Len(q) = 1
<1>1. Linked(t, T) /\ Spans(t, T, P, E) /\ Lists(t, T, q, P, E)
  BY DEF Shape
<1> DEFINE n == t.root
<1>2. n \in T
  BY <1>1 DEF Linked
<1>3. SpanAt(t, P, E, n, "left") /\ SpanAt(t, P, E, n, "right")
  BY <1>1, <1>2, SidesAre DEF Spans
<1>4. E["left"][n] = P[n] /\ E["right"][n] = P[n]
  BY <1>3, SidesAre DEF SpanAt
<1>5. P[n] = 1 /\ Len(q) = 1
  BY <1>1, <1>4 DEF Lists
<1>6. \A x \in T : P[x] = 1 /\ q[P[x]] = x
  BY <1>1, <1>5 DEF Lists
<1>7. \A x \in T : x = n
  BY <1>2, <1>6
<1>8. QED
  BY <1>2, <1>5, <1>7

\* Unlinking a node with one child at most keeps the links of the others.
LEMMA UnlinkKeepsLinks ==
  ASSUME NEW t, NEW T, NEW q, NEW P, NEW E, Shape(t, T, q, P, E), NEW n \in T, NEW d \in Sides,
         t.child[Other(d)][n] = NoNode, NEW c, c = t.child[d][n], NEW u, Unlinked(t, n, c, u)
  PROVE  Linked(u, T \ {n})
<1>1. Linked(t, T) /\ Spans(t, T, P, E)
  BY DEF Shape
<1>2. /\ t \in Trees /\ T \subseteq RbNodes /\ n \in RbNodes /\ c \in Pointers /\ NoNode \notin RbNodes
      /\ c # NoNode => c \in T /\ c \in RbNodes /\ t.parent[c] = n
  BY <1>1, TreeSays DEF Linked
<1>3. c # n /\ \A s \in Sides : t.child[s][n] # n
  <2>1. \A s \in Sides : t.child[s][n] # n
    BY <1>1, <1>2, Apart
  <2>2. QED
    BY <2>1
<1> DEFINE p == t.parent[n]
<1>4. Hangs(t, n, p)
  BY <1>1, HangsOnParent
<1>5. p \in Pointers /\ (p # NoNode => p \in T) /\ p # n /\ (p = NoNode <=> t.root = n)
  <2>1. p # n
    BY <1>2, <1>3, <1>4 DEF Hangs
  <2>2. QED
    BY <1>1, <1>4, <2>1 DEF Hangs, Linked
<1>6. \A x \in RbNodes, s \in Sides : t.child[s][x] = n => x = p
  BY <1>4 DEF Hangs
<1>7. \A x \in RbNodes, s \in Sides : c # NoNode /\ t.child[s][x] = c => x = n
  BY <1>1, <1>2, OneParent
<1> HIDE DEF p
<1>8. /\ u \in Trees
      /\ u.root = IF t.root = n THEN c ELSE t.root
      /\ \A x \in RbNodes : u.parent[x] = IF x = n THEN NoNode ELSE IF x = c THEN p ELSE t.parent[x]
      /\ \A x \in RbNodes, s \in Sides :
           u.child[s][x] = IF x = n THEN NoNode ELSE IF t.child[s][x] = n THEN c ELSE t.child[s][x]
  BY DEF Unlinked, p
<1>9. t.root \in T /\ (c # NoNode => t.root # c)
  <2>1. t.root \in T
    BY <1>1 DEF Linked
  <2>2. t.parent[t.root] = NoNode
    BY <1>1, <2>1 DEF Linked
  <2>3. QED
    BY <1>2, <2>1, <2>2
<1>10. t.root = n /\ c = NoNode => T = {n}
  <2>1. SUFFICES ASSUME t.root = n, c = NoNode PROVE T = {n}
    OBVIOUS
  <2>2. \A s \in Sides : t.child[s][t.root] = NoNode
    BY <2>1, SidesAre
  <2>3. QED
    BY <2>1, <2>2, LoneRoot
<1>11. IF T \ {n} = {} THEN u.root = NoNode ELSE u.root \in T \ {n}
  <2>1. CASE t.root # n
    BY <1>8, <1>9, <2>1
  <2>2. CASE t.root = n /\ c = NoNode
    BY <1>8, <1>10, <2>2
  <2>3. CASE t.root = n /\ c # NoNode
    BY <1>2, <1>3, <1>8, <2>3
  <2>4. QED
    BY <2>1, <2>2, <2>3
<1>12. ASSUME NEW x \in T \ {n} PROVE x = u.root <=> u.parent[x] = NoNode
  <2>1. (x = t.root <=> t.parent[x] = NoNode) /\ x \in RbNodes /\ x # n
    BY <1>1, <1>2 DEF Linked
  <2>2. CASE x = c
    <3>1. u.parent[x] = p /\ x # t.root
      BY <1>2, <1>8, <1>9, <2>1, <2>2
    <3>2. QED
      BY <1>5, <1>8, <2>2, <3>1
  <2>3. CASE x # c
    <3>1. u.parent[x] = t.parent[x]
      BY <1>8, <2>1, <2>3
    <3>2. QED
      BY <1>8, <2>1, <2>3, <3>1
  <2>4. QED
    BY <2>2, <2>3
<1>13. ASSUME NEW x \in T \ {n}, x # u.root
       PROVE  u.parent[x] \in T \ {n} /\ \E s \in Sides : u.child[s][u.parent[x]] = x
  <2>1. x \in RbNodes /\ x # n
    BY <1>2
  <2>2. CASE x = c
    <3>1. t.root # n /\ p # NoNode /\ p \in RbNodes /\ u.parent[x] = p
      BY <1>2, <1>5, <1>8, <1>13, <2>1, <2>2
    <3>2. PICK s \in Sides : t.child[s][p] = n
      BY <1>4, <3>1 DEF Hangs, p
    <3>3. u.child[s][p] = c
      BY <1>5, <1>8, <3>1, <3>2
    <3>4. QED
      BY <1>5, <2>2, <3>1, <3>3
  <2>3. CASE x # c
    <3>1. x # t.root /\ u.parent[x] = t.parent[x]
      BY <1>8, <1>13, <2>1, <2>3
    <3>2. t.parent[x] \in T
      BY <1>1, <3>1 DEF Linked
    <3>3. PICK s \in Sides : t.child[s][t.parent[x]] = x
      BY <1>1, <3>1 DEF Linked
    <3>4. t.parent[x] # n
      BY <1>2, <2>1, <2>3, <3>3, SidesAre
    <3>5. u.child[s][t.parent[x]] = x
      BY <1>2, <1>8, <2>1, <3>2, <3>3, <3>4
    <3>6. QED
      BY <3>1, <3>2, <3>4, <3>5
  <2>4. QED
    BY <2>2, <2>3
<1>14. ASSUME NEW x \in T \ {n}, NEW s \in Sides, u.child[s][x] # NoNode
       PROVE  u.child[s][x] \in T \ {n} /\ u.parent[u.child[s][x]] = x
  <2> DEFINE b == t.child[s][x]
  <2>1. x \in RbNodes /\ x # n /\ (b # NoNode => b \in T /\ b \in RbNodes /\ t.parent[b] = x)
    BY <1>1, <1>2 DEF Linked
  <2>2. CASE b = n
    <3>1. u.child[s][x] = c /\ x = p
      BY <1>6, <1>8, <2>1, <2>2
    <3>2. QED
      BY <1>2, <1>3, <1>8, <1>14, <3>1
  <2>3. CASE b # n
    <3>1. u.child[s][x] = b
      BY <1>8, <2>1, <2>3
    <3>2. b # c
      BY <1>7, <1>14, <2>1, <3>1
    <3>3. QED
      BY <1>8, <1>14, <2>1, <2>3, <3>1, <3>2
  <2>4. QED
    BY <2>2, <2>3
<1>15. ASSUME NEW x \in RbNodes \ (T \ {n})
       PROVE  u.parent[x] = NoNode /\ \A s \in Sides : u.child[s][x] = NoNode
  <2>1. CASE x = n
    BY <1>2, <1>8, <2>1
  <2>2. CASE x # n
    <3>1. x \notin T /\ t.parent[x] = NoNode /\ \A s \in Sides : t.child[s][x] = NoNode
      BY <1>1, <2>2 DEF Linked
    <3>2. QED
      BY <1>2, <1>8, <2>2, <3>1
  <2>3. QED
    BY <2>1, <2>2
<1>16. QED
  <2>1. T \ {n} \subseteq RbNodes
    BY <1>2
  <2>2. \A x \in (T \ {n}) \ {u.root} : u.parent[x] \in T \ {n} /\ \E s \in Sides : u.child[s][u.parent[x]] = x
    BY <1>13
  <2> DEFINE S == T \ {n}
  <2>3. /\ u \in Trees /\ S \subseteq RbNodes /\ (IF S = {} THEN u.root = NoNode ELSE u.root \in S)
        /\ \A x \in S : x = u.root <=> u.parent[x] = NoNode
        /\ \A x \in S \ {u.root} : u.parent[x] \in S /\ \E s \in Sides : u.child[s][u.parent[x]] = x
        /\ \A x \in S, s \in Sides : u.child[s][x] # NoNode => u.child[s][x] \in S /\ u.parent[u.child[s][x]] = x
        /\ \A x \in RbNodes \ S : u.parent[x] = NoNode /\ \A s \in Sides : u.child[s][x] = NoNode
    BY <1>8, <1>11, <1>12, <1>14, <1>15, <2>1, <2>2
  <2> HIDE DEF S
  <2>4. Linked(u, S)
    BY <2>3 DEF Linked
  <2>5. QED
    BY <2>4 DEF S

\* ... and their order.
LEMMA UnlinkKeepsShape ==
  ASSUME NEW t, NEW T, NEW q, NEW P, NEW E, Shape(t, T, q, P, E), NEW n \in T, NEW d \in Sides,
         t.child[Other(d)][n] = NoNode, NEW c, c = t.child[d][n], NEW u, Unlinked(t, n, c, u),
         NEW q2, NEW P2, NEW E2, Gone(q, P, E, n, q2, P2, E2)
  PROVE  Shape(u, T \ {n}, q2, P2, E2)
<1>1. Linked(t, T) /\ Spans(t, T, P, E) /\ Lists(t, T, q, P, E)
  BY DEF Shape
<1>2. Linked(u, T \ {n})
  BY UnlinkKeepsLinks
<1>3. /\ t \in Trees /\ T \subseteq RbNodes /\ n \in RbNodes /\ c \in Pointers /\ NoNode \notin RbNodes
      /\ c # NoNode => c \in T /\ c \in RbNodes
  BY <1>1, TreeSays DEF Linked
<1> DEFINE k == P[n]
           Len0 == Len(q)
<1>4. /\ \A x \in RbNodes : P[x] \in Int /\ E["left"][x] \in Int /\ E["right"][x] \in Int
      /\ \A x \in T, s \in Sides : SpanAt(t, P, E, x, s)
      /\ \A x \in T : E["left"][x] <= P[x] /\ P[x] <= E["right"][x]
      /\ k \in Int /\ Len0 \in Nat
  <2>1. /\ P \in [RbNodes -> Int] /\ E \in [Sides -> [RbNodes -> Int]]
        /\ \A x \in T, s \in Sides : SpanAt(t, P, E, x, s)
        /\ \A x \in T : E["left"][x] <= P[x] /\ P[x] <= E["right"][x]
    BY <1>1 DEF Spans
  <2>2. \A x \in RbNodes : P[x] \in Int /\ E["left"][x] \in Int /\ E["right"][x] \in Int
    BY <2>1, SidesAre
  <2>3. Len0 \in Nat
    BY <1>1, LenProperties DEF Lists
  <2>4. QED
    BY <1>3, <2>1, <2>2, <2>3
<1>5. /\ \A x \in T : P[x] \in 1 .. Len0 /\ q[P[x]] = x
      /\ \A i \in 1 .. Len0 : q[i] \in T /\ P[q[i]] = i
      /\ E["left"][t.root] = 1 /\ E["right"][t.root] = Len0
      /\ k \in 1 .. Len0 /\ q[k] = n
  BY <1>1 DEF Lists
<1>6. \A x \in T : x # n => P[x] # k
  BY <1>5
<1>7. /\ \A x \in RbNodes : /\ P2[x] = IF P[x] > k THEN P[x] - 1 ELSE P[x]
                            /\ E2["left"][x] = IF E["left"][x] > k THEN E["left"][x] - 1 ELSE E["left"][x]
                            /\ E2["right"][x] = IF E["right"][x] >= k THEN E["right"][x] - 1 ELSE E["right"][x]
      /\ P2 \in [RbNodes -> Int] /\ E2 \in [Sides -> [RbNodes -> Int]]
      /\ q2 = RemoveAt(q, k)
  BY DEF Gone
<1>8. \A x \in RbNodes, s \in Sides :
           u.child[s][x] = IF x = n THEN NoNode ELSE IF t.child[s][x] = n THEN c ELSE t.child[s][x]
  BY DEF Unlinked
<1> HIDE DEF k, Len0
<1>9. ASSUME NEW x \in T \ {n} PROVE E2["left"][x] <= P2[x] /\ P2[x] <= E2["right"][x]
  <2>1. x \in RbNodes /\ P[x] # k /\ E["left"][x] <= P[x] /\ P[x] <= E["right"][x]
    BY <1>3, <1>4, <1>6
  <2>2. P[x] \in Int /\ E["left"][x] \in Int /\ E["right"][x] \in Int /\ k \in Int
    BY <1>4, <2>1
  <2>3. /\ P2[x] = IF P[x] > k THEN P[x] - 1 ELSE P[x]
        /\ E2["left"][x] = IF E["left"][x] > k THEN E["left"][x] - 1 ELSE E["left"][x]
        /\ E2["right"][x] = IF E["right"][x] >= k THEN E["right"][x] - 1 ELSE E["right"][x]
    BY <1>7, <2>1
  <2>4. QED
    BY <2>1, <2>2, <2>3
<1>10. ASSUME NEW x \in T \ {n}, NEW s \in Sides PROVE SpanAt(u, P2, E2, x, s)
  <2> DEFINE b == t.child[s][x]
  <2>1. SpanAt(t, P, E, x, s) /\ x \in RbNodes /\ x # n /\ P[x] # k /\ (b # NoNode => b \in T /\ b \in RbNodes)
    BY <1>1, <1>3, <1>4, <1>6 DEF Linked
  <2>2. CASE b # n
    <3>1. u.child[s][x] = b
      BY <1>8, <2>1, <2>2
    <3>2. CASE b = NoNode
      <4>1. E[s][x] = P[x]
        BY <2>1, <3>2 DEF SpanAt
      <4>2. E2[s][x] = P2[x]
        <5>1. CASE s = "left"
          BY <1>4, <1>7, <2>1, <4>1, <5>1
        <5>2. CASE s = "right"
          BY <1>4, <1>7, <2>1, <4>1, <5>2
        <5>3. QED
          BY <5>1, <5>2, SidesAre
      <4>3. QED
        BY <3>1, <3>2, <4>2 DEF SpanAt
    <3>3. CASE b # NoNode
      <4>1. E[s][b] = E[s][x] /\ E[Other(s)][b] = Beyond(s, P[x]) /\ b \in RbNodes
        BY <2>1, <3>3 DEF SpanAt
      <4> HIDE DEF b
      <4>2. E2[s][b] = E2[s][x] /\ E2[Other(s)][b] = Beyond(s, P2[x])
        <5>1. CASE s = "left"
          BY <1>4, <1>7, <2>1, <4>1, <5>1 DEF Other, Beyond
        <5>2. CASE s = "right"
          BY <1>4, <1>7, <2>1, <4>1, <5>2 DEF Other, Beyond
        <5>3. QED
          BY <5>1, <5>2, SidesAre
      <4>3. QED
        BY <3>1, <3>3, <4>2 DEF SpanAt
    <3>4. QED
      BY <3>2, <3>3
  <2>3. CASE b = n
    <3>1. u.child[s][x] = c
      BY <1>8, <2>1, <2>3
    <3>2. E[s][n] = E[s][x] /\ E[Other(s)][n] = Beyond(s, P[x])
      BY <1>3, <2>1, <2>3 DEF SpanAt
    <3>3. SpanAt(t, P, E, n, d) /\ SpanAt(t, P, E, n, Other(d)) /\ E[Other(d)][n] = k
      <4>1. SpanAt(t, P, E, n, d) /\ SpanAt(t, P, E, n, Other(d))
        BY <1>4, SidesAre
      <4>2. QED
        BY <4>1 DEF SpanAt, k
    <3>4. CASE c = NoNode
      <4>1. E["left"][n] = k /\ E["right"][n] = k
        <5>1. E[d][n] = k
          BY <3>3, <3>4 DEF SpanAt, k
        <5>2. QED
          BY <3>3, <5>1, SidesAre DEF Other
      <4>2. E2[s][x] = P2[x]
        <5>1. CASE s = "left"
          BY <1>3, <1>4, <1>7, <2>1, <3>2, <4>1, <5>1 DEF Other, Beyond
        <5>2. CASE s = "right"
          BY <1>3, <1>4, <1>7, <2>1, <3>2, <4>1, <5>2 DEF Other, Beyond
        <5>3. QED
          BY <5>1, <5>2, SidesAre
      <4>3. QED
        BY <3>1, <3>4, <4>2 DEF SpanAt
    <3>5. CASE c # NoNode
      <4>1. E[d][c] = E[d][n] /\ E[Other(d)][c] = Beyond(d, k) /\ c \in RbNodes
        BY <1>3, <3>3, <3>5 DEF SpanAt, k
      <4>2. E["left"][n] <= k /\ k <= E["right"][n] /\ E["left"][n] \in Int /\ E["right"][n] \in Int
        BY <1>3, <1>4 DEF k
      <4>3. E2[s][c] = E2[s][x] /\ E2[Other(s)][c] = Beyond(s, P2[x])
        <5>1. CASE s = "left" /\ d = "left"
          BY <1>4, <1>7, <2>1, <3>2, <3>3, <4>1, <4>2, <5>1 DEF Other, Beyond
        <5>2. CASE s = "left" /\ d = "right"
          BY <1>4, <1>7, <2>1, <3>2, <3>3, <4>1, <4>2, <5>2 DEF Other, Beyond
        <5>3. CASE s = "right" /\ d = "left"
          BY <1>4, <1>7, <2>1, <3>2, <3>3, <4>1, <4>2, <5>3 DEF Other, Beyond
        <5>4. CASE s = "right" /\ d = "right"
          BY <1>4, <1>7, <2>1, <3>2, <3>3, <4>1, <4>2, <5>4 DEF Other, Beyond
        <5>5. QED
          BY <5>1, <5>2, <5>3, <5>4, SidesAre
      <4>4. QED
        BY <3>1, <3>5, <4>3 DEF SpanAt
    <3>6. QED
      BY <3>4, <3>5
  <2>4. QED
    BY <2>2, <2>3
<1>11. Spans(u, T \ {n}, P2, E2)
  BY <1>7, <1>9, <1>10 DEF Spans
<1>12. /\ q2 \in Seq(RbNodes) /\ Len(q2) = Len0 - 1
       /\ \A i \in 1 .. (Len0 - 1) : q2[i] = IF i < k THEN q[i] ELSE q[i + 1]
  <2>1. q \in Seq(RbNodes) /\ k \in 1 .. Len(q)
    BY <1>1, <1>5 DEF Lists, Len0
  <2>2. QED
    BY <1>7, <2>1, RemovedAt DEF Len0
<1>13. ASSUME NEW x \in T \ {n} PROVE P2[x] \in 1 .. (Len0 - 1) /\ q2[P2[x]] = x
  <2>1. x \in RbNodes /\ P[x] # k /\ P[x] \in 1 .. Len0 /\ q[P[x]] = x
    BY <1>3, <1>5, <1>6
  <2>2. P2[x] \in 1 .. (Len0 - 1)
    BY <1>4, <1>5, <1>7, <2>1, SMTT(60)
  <2>3. q2[P2[x]] = IF P2[x] < k THEN q[P2[x]] ELSE q[P2[x] + 1]
    BY <1>12, <2>2
  <2>4. CASE P[x] > k
    <3>1. P2[x] + 1 = P[x] /\ ~(P2[x] < k)
      BY <1>4, <1>7, <2>1, <2>4
    <3>2. QED
      BY <2>1, <2>2, <2>3, <3>1
  <2>5. CASE P[x] < k
    <3>1. P2[x] = P[x] /\ P2[x] < k
      BY <1>4, <1>7, <2>1, <2>5
    <3>2. QED
      BY <2>1, <2>2, <2>3, <3>1
  <2>6. QED
    BY <1>4, <2>1, <2>4, <2>5
<1>14. ASSUME NEW i \in 1 .. (Len0 - 1) PROVE q2[i] \in T \ {n} /\ P2[q2[i]] = i
  <2>1. CASE i < k
    <3>1. q2[i] = q[i] /\ i \in 1 .. Len0 /\ q[i] \in T /\ P[q[i]] = i /\ i # k
      BY <1>4, <1>5, <1>12, <2>1
    <3>2. q[i] # n
      BY <3>1 DEF k
    <3>3. P2[q[i]] = i
      BY <1>3, <1>4, <1>7, <2>1, <3>1
    <3>4. QED
      BY <3>1, <3>2, <3>3
  <2>2. CASE ~(i < k)
    <3>1. q2[i] = q[i + 1] /\ i + 1 \in 1 .. Len0 /\ q[i + 1] \in T /\ P[q[i + 1]] = i + 1 /\ i + 1 > k
      BY <1>4, <1>5, <1>12, <2>2
    <3>2. q[i + 1] # n
      BY <1>4, <3>1 DEF k
    <3>3. P2[q[i + 1]] = i
      <4>1. q[i + 1] \in RbNodes
        BY <1>3, <3>1
      <4>2. P2[q[i + 1]] = (i + 1) - 1
        BY <1>7, <3>1, <4>1
      <4>3. QED
        BY <4>2
    <3>4. QED
      BY <3>1, <3>2, <3>3
  <2>3. QED
    BY <2>1, <2>2
<1>15. T \ {n} # {} => E2["left"][u.root] = 1 /\ E2["right"][u.root] = Len0 - 1
  <2> SUFFICES ASSUME T \ {n} # {} PROVE E2["left"][u.root] = 1 /\ E2["right"][u.root] = Len0 - 1
    OBVIOUS
  <2>1. t.root \in T /\ t.root \in RbNodes /\ u.root \in T \ {n} /\ u.root = IF t.root = n THEN c ELSE t.root
    BY <1>1, <1>2 DEF Linked, Unlinked
  <2>2. CASE t.root # n
    <3>1. E2["left"][t.root] = 1 /\ E2["right"][t.root] = Len0 - 1
      BY <1>4, <1>5, <1>7, <2>1
    <3>2. QED
      BY <2>1, <2>2, <3>1
  <2>3. CASE t.root = n
    <3>1. u.root = c /\ c # NoNode /\ c \in RbNodes
      BY <1>3, <2>1, <2>3
    <3>2. SpanAt(t, P, E, n, d) /\ SpanAt(t, P, E, n, Other(d))
      BY <1>4, SidesAre
    <3>3. E[d][c] = E[d][n] /\ E[Other(d)][c] = Beyond(d, k) /\ E[Other(d)][n] = k
      BY <3>1, <3>2 DEF SpanAt, k
    <3>4. E["left"][n] = 1 /\ E["right"][n] = Len0
      BY <1>5, <2>3
    <3>5. E["left"][c] <= P[c] /\ P[c] <= E["right"][c] /\ P[c] \in Int
      BY <1>3, <1>4, <3>1
    <3>6. CASE d = "left"
      BY <1>4, <1>5, <1>7, <3>1, <3>3, <3>4, <3>5, <3>6 DEF Other, Beyond
    <3>7. CASE d = "right"
      BY <1>4, <1>5, <1>7, <3>1, <3>3, <3>4, <3>5, <3>7 DEF Other, Beyond
    <3>8. QED
      BY <3>6, <3>7, SidesAre
  <2>4. QED
    BY <2>2, <2>3
<1>16. Lists(u, T \ {n}, q2, P2, E2)
  BY <1>12, <1>13, <1>14, <1>15 DEF Lists
<1>17. QED
  BY <1>2, <1>11, <1>16 DEF Shape

\* u is t with a new node at the place of n.
Renamed(t, n, new, u) ==
  /\ u \in Trees
  /\ u.root = IF t.root = n THEN new ELSE t.root
  /\ \A x \in RbNodes : u.parent[x] = IF x = n THEN NoNode ELSE IF x = new THEN t.parent[n]
                                     ELSE IF t.parent[x] = n THEN new ELSE t.parent[x]
  /\ \A x \in RbNodes, s \in Sides :
       u.child[s][x] = IF x = n THEN NoNode ELSE IF x = new THEN t.child[s][n]
                       ELSE IF t.child[s][x] = n THEN new ELSE t.child[s][x]

\* Its place and its edges.
Taken(q, P, E, n, new, q2, P2, E2) ==
  /\ q2 = [q EXCEPT ![P[n]] = new]
  /\ P2 \in [RbNodes -> Int] /\ E2 \in [Sides -> [RbNodes -> Int]]
  /\ \A x \in RbNodes : /\ P2[x] = IF x = new THEN P[n] ELSE P[x]
                        /\ \A s \in Sides : E2[s][x] = IF x = new THEN E[s][n] ELSE E[s][x]

\* There is such a sequence, with its places and edges.
LEMMA TakenExist ==
  ASSUME NEW q, NEW P \in [RbNodes -> Int], NEW E \in [Sides -> [RbNodes -> Int]], NEW n \in RbNodes, NEW new
  PROVE  \E q2, P2, E2 : Taken(q, P, E, n, new, q2, P2, E2)
<1> DEFINE p == [x \in RbNodes |-> IF x = new THEN P[n] ELSE P[x]]
           F == [s \in Sides |-> [x \in RbNodes |-> IF x = new THEN E[s][n] ELSE E[s][x]]]
<1>1. p \in [RbNodes -> Int] /\ F \in [Sides -> [RbNodes -> Int]]
  OBVIOUS
<1>2. /\ \A x \in RbNodes : p[x] = IF x = new THEN P[n] ELSE P[x]
      /\ \A x \in RbNodes, s \in Sides : F[s][x] = IF x = new THEN E[s][n] ELSE E[s][x]
  OBVIOUS
<1> HIDE DEF p, F
<1>3. Taken(q, P, E, n, new, [q EXCEPT ![P[n]] = new], p, F)
  BY <1>1, <1>2 DEF Taken
<1>4. QED
  BY <1>3

\* A node that takes the place of another leaves the shape as it is.
LEMMA RenameKeepsShape ==
  ASSUME NEW t, NEW T, NEW q, NEW P, NEW E, Shape(t, T, q, P, E), NEW n \in T, NEW new \in RbNodes \ T,
         NEW u, Renamed(t, n, new, u), NEW q2, NEW P2, NEW E2, Taken(q, P, E, n, new, q2, P2, E2)
  PROVE  Shape(u, (T \ {n}) \cup {new}, q2, P2, E2)
<1> DEFINE S == (T \ {n}) \cup {new}
<1>1. Linked(t, T) /\ Spans(t, T, P, E) /\ Lists(t, T, q, P, E)
  BY DEF Shape
<1>2. t \in Trees /\ T \subseteq RbNodes /\ n \in RbNodes /\ new \in RbNodes /\ new \notin T /\ new # n /\ NoNode \notin RbNodes
  BY <1>1, TreeSays DEF Linked
<1>3. /\ \A x \in T : x # new /\ t.parent[x] # new /\ (x = t.root <=> t.parent[x] = NoNode)
      /\ \A x \in T \ {t.root} : t.parent[x] \in T /\ \E s \in Sides : t.child[s][t.parent[x]] = x
      /\ \A x \in T, s \in Sides : t.child[s][x] # NoNode => t.child[s][x] \in T /\ t.parent[t.child[s][x]] = x
      /\ \A x \in T, s \in Sides : t.child[s][x] # new
      /\ t.root \in T
  BY <1>1, <1>2 DEF Linked
<1>4. /\ u \in Trees
      /\ u.root = IF t.root = n THEN new ELSE t.root
      /\ \A x \in RbNodes : u.parent[x] = IF x = n THEN NoNode ELSE IF x = new THEN t.parent[n]
                                         ELSE IF t.parent[x] = n THEN new ELSE t.parent[x]
      /\ \A x \in RbNodes, s \in Sides :
           u.child[s][x] = IF x = n THEN NoNode ELSE IF x = new THEN t.child[s][n]
                           ELSE IF t.child[s][x] = n THEN new ELSE t.child[s][x]
  BY DEF Renamed
<1>5. \A s \in Sides : t.child[s][n] # n
  BY <1>1, <1>2, Apart
<1>6. t.parent[n] # n
  <2>1. t.root # n => \E s \in Sides : t.child[s][t.parent[n]] = n
    BY <1>3
  <2>2. QED
    BY <1>2, <1>3, <1>5, <2>1
<1>7. Linked(u, S)
  <2>1. S \subseteq RbNodes /\ S # {} /\ u.root \in S
    BY <1>2, <1>3, <1>4
  <2>2. ASSUME NEW x \in S PROVE x = u.root <=> u.parent[x] = NoNode
    <3>1. CASE x = new
      BY <1>2, <1>3, <1>4, <3>1
    <3>2. CASE x # new
      BY <1>2, <1>3, <1>4, <3>2
    <3>3. QED
      BY <3>1, <3>2
  <2>3. ASSUME NEW x \in S \ {u.root} PROVE u.parent[x] \in S /\ \E s \in Sides : u.child[s][u.parent[x]] = x
    <3>1. CASE x = new
      <4>1. n # t.root
        BY <1>4, <3>1
      <4>2. t.parent[n] \in T
        BY <1>3, <4>1
      <4>3. PICK s \in Sides : t.child[s][t.parent[n]] = n
        BY <1>3, <4>1
      <4>4. u.parent[new] = t.parent[n] /\ t.parent[n] # new /\ t.parent[n] # n
        BY <1>2, <1>3, <1>4, <1>6
      <4>5. u.child[s][t.parent[n]] = new
        BY <1>2, <1>4, <4>2, <4>3, <4>4
      <4>6. QED
        BY <3>1, <4>2, <4>4, <4>5
    <3>2. CASE x # new
      <4>1. x \in T /\ x # n /\ x # t.root /\ x \in RbNodes
        BY <1>2, <1>4, <3>2
      <4>2. t.parent[x] \in T /\ t.parent[x] # new
        BY <1>3, <4>1
      <4>3. PICK s \in Sides : t.child[s][t.parent[x]] = x
        BY <1>3, <4>1
      <4>4. CASE t.parent[x] = n
        <5>1. u.parent[x] = new /\ u.child[s][new] = x
          BY <1>2, <1>4, <3>2, <4>1, <4>3, <4>4
        <5>2. QED
          BY <5>1
      <4>5. CASE t.parent[x] # n
        <5>1. u.parent[x] = t.parent[x] /\ u.child[s][t.parent[x]] = x
          BY <1>2, <1>4, <3>2, <4>1, <4>2, <4>3, <4>5
        <5>2. QED
          BY <4>2, <4>5, <5>1
      <4>6. QED
        BY <4>4, <4>5
    <3>3. QED
      BY <3>1, <3>2
  <2>4. ASSUME NEW x \in S, NEW s \in Sides, u.child[s][x] # NoNode
        PROVE  u.child[s][x] \in S /\ u.parent[u.child[s][x]] = x
    <3>1. CASE x = new
      <4> DEFINE b == t.child[s][n]
      <4>1. u.child[s][x] = b /\ b # NoNode
        BY <1>2, <1>4, <2>4, <3>1
      <4>2. b \in T /\ t.parent[b] = n /\ b # n /\ b # new /\ b \in RbNodes
        BY <1>2, <1>3, <1>5, <4>1
      <4>3. u.parent[b] = new
        BY <1>4, <4>2
      <4>4. QED
        BY <3>1, <4>1, <4>2, <4>3
    <3>2. CASE x # new
      <4> DEFINE b == t.child[s][x]
      <4>1. x \in T /\ x # n /\ x \in RbNodes
        BY <1>2, <3>2
      <4>2. CASE b = n
        <5>1. u.child[s][x] = new /\ t.parent[n] = x
          BY <1>2, <1>3, <1>4, <3>2, <4>1, <4>2
        <5>2. QED
          BY <1>2, <1>4, <5>1
      <4>3. CASE b # n
        <5>1. u.child[s][x] = b
          BY <1>4, <3>2, <4>1, <4>3
        <5>2. b \in T /\ t.parent[b] = x /\ b # new /\ b \in RbNodes
          BY <1>2, <1>3, <2>4, <4>1, <5>1
        <5>3. u.parent[b] = x
          BY <1>4, <4>1, <4>3, <5>2
        <5>4. QED
          BY <4>3, <5>1, <5>2, <5>3
      <4>4. QED
        BY <4>2, <4>3
    <3>3. QED
      BY <3>1, <3>2
  <2>5. ASSUME NEW x \in RbNodes \ S PROVE u.parent[x] = NoNode /\ \A s \in Sides : u.child[s][x] = NoNode
    <3>1. CASE x = n
      BY <1>2, <1>4, <3>1
    <3>2. CASE x # n
      <4>1. x \notin T /\ x # new
        BY <3>2
      <4>2. t.parent[x] = NoNode /\ \A s \in Sides : t.child[s][x] = NoNode
        BY <1>1, <4>1 DEF Linked
      <4>3. QED
        BY <1>2, <1>4, <3>2, <4>1, <4>2
    <3>3. QED
      BY <3>1, <3>2
  <2> HIDE DEF S
  <2>6. QED
    BY <1>4, <2>1, <2>2, <2>3, <2>4, <2>5 DEF Linked
<1>8. /\ \A x \in RbNodes : P[x] \in Int /\ E["left"][x] \in Int /\ E["right"][x] \in Int
      /\ \A x \in T, s \in Sides : SpanAt(t, P, E, x, s)
      /\ \A x \in T : E["left"][x] <= P[x] /\ P[x] <= E["right"][x]
  BY <1>1, <1>2, SidesAre DEF Spans
<1>9. /\ q2 = [q EXCEPT ![P[n]] = new]
      /\ P2 \in [RbNodes -> Int] /\ E2 \in [Sides -> [RbNodes -> Int]]
      /\ \A x \in RbNodes : /\ P2[x] = IF x = new THEN P[n] ELSE P[x]
                            /\ \A s \in Sides : E2[s][x] = IF x = new THEN E[s][n] ELSE E[s][x]
  BY DEF Taken
<1>10. ASSUME NEW x \in S, NEW s \in Sides PROVE SpanAt(u, P2, E2, x, s)
  <2>1. Other(s) \in Sides
    BY SidesAre
  <2>2. CASE x = new
    <3> DEFINE b == t.child[s][n]
    <3>1. u.child[s][x] = b /\ P2[x] = P[n] /\ E2[s][x] = E[s][n] /\ SpanAt(t, P, E, n, s)
      BY <1>2, <1>4, <1>8, <1>9, <2>2
    <3>2. b # NoNode => E2[s][b] = E[s][b] /\ E2[Other(s)][b] = E[Other(s)][b]
      BY <1>2, <1>3, <1>9, <2>1
    <3>3. QED
      BY <3>1, <3>2 DEF SpanAt
  <2>3. CASE x # new
    <3> DEFINE b == t.child[s][x]
    <3>1. x \in T /\ x \in RbNodes /\ x # n /\ P2[x] = P[x] /\ E2[s][x] = E[s][x] /\ SpanAt(t, P, E, x, s)
      BY <1>2, <1>8, <1>9, <2>3
    <3>2. CASE b = n
      <4>1. u.child[s][x] = new /\ new # NoNode /\ n # NoNode
        BY <1>2, <1>4, <2>3, <3>1, <3>2
      <4>2. E2[s][new] = E[s][n] /\ E2[Other(s)][new] = E[Other(s)][n]
        BY <1>2, <1>9, <2>1
      <4>3. QED
        BY <3>1, <3>2, <4>1, <4>2 DEF SpanAt
    <3>3. CASE b # n
      <4>1. u.child[s][x] = b
        BY <1>4, <2>3, <3>1, <3>3
      <4>2. b # NoNode => E2[s][b] = E[s][b] /\ E2[Other(s)][b] = E[Other(s)][b]
        BY <1>2, <1>3, <1>9, <2>1, <3>1
      <4>3. QED
        BY <3>1, <4>1, <4>2 DEF SpanAt
    <3>4. QED
      BY <3>2, <3>3
  <2>4. QED
    BY <2>2, <2>3
<1>11. Spans(u, S, P2, E2)
  <2>1. ASSUME NEW x \in S PROVE E2["left"][x] <= P2[x] /\ P2[x] <= E2["right"][x]
    <3>1. CASE x = new
      BY <1>2, <1>8, <1>9, <3>1, SidesAre
    <3>2. CASE x # new
      <4>1. x \in T /\ x \in RbNodes
        BY <1>2, <3>2
      <4>2. QED
        BY <1>8, <1>9, <3>2, <4>1, SidesAre
    <3>3. QED
      BY <3>1, <3>2
  <2> HIDE DEF S
  <2>2. QED
    BY <1>9, <1>10, <2>1 DEF Spans
<1>12. Lists(u, S, q2, P2, E2)
  <2> DEFINE L == Len(q)
  <2>1. /\ q \in Seq(RbNodes) /\ L \in Nat /\ DOMAIN q = 1 .. L
        /\ \A x \in T : P[x] \in 1 .. L /\ q[P[x]] = x
        /\ \A i \in 1 .. L : q[i] \in T /\ P[q[i]] = i
        /\ E["left"][t.root] = 1 /\ E["right"][t.root] = L
    BY <1>1, <1>3, LenProperties DEF Lists
  <2>2. q2 \in Seq(RbNodes) /\ Len(q2) = L /\ \A i \in 1 .. L : q2[i] = IF i = P[n] THEN new ELSE q[i]
    BY <1>2, <1>9, <2>1, ExceptSeq
  <2> HIDE DEF L
  <2>3. ASSUME NEW x \in S PROVE P2[x] \in 1 .. L /\ q2[P2[x]] = x
    <3>1. CASE x = new
      BY <1>2, <1>9, <2>1, <2>2, <3>1
    <3>2. CASE x # new
      <4>1. x \in T /\ x \in RbNodes /\ x # n
        BY <1>2, <3>2
      <4>2. P2[x] = P[x] /\ P[x] # P[n] /\ P[x] \in 1 .. L /\ q[P[x]] = x
        BY <1>9, <2>1, <3>2, <4>1
      <4>3. QED
        BY <2>2, <4>2
    <3>3. QED
      BY <3>1, <3>2
  <2>4. ASSUME NEW i \in 1 .. L PROVE q2[i] \in S /\ P2[q2[i]] = i
    <3>1. CASE i = P[n]
      BY <1>2, <1>9, <2>2, <3>1
    <3>2. CASE i # P[n]
      <4>1. q2[i] = q[i] /\ q[i] \in T /\ P[q[i]] = i /\ q[i] # n
        BY <2>1, <2>2, <3>2
      <4>2. q[i] # new /\ P2[q[i]] = i
        BY <1>2, <1>9, <4>1
      <4>3. QED
        BY <4>1, <4>2
    <3>3. QED
      BY <3>1, <3>2
  <2>5. E2["left"][u.root] = 1 /\ E2["right"][u.root] = L
    <3>1. CASE t.root = n
      BY <1>2, <1>4, <1>9, <2>1, <3>1, SidesAre
    <3>2. CASE t.root # n
      <4>1. t.root # new /\ t.root \in RbNodes
        BY <1>2, <1>3
      <4>2. QED
        BY <1>4, <1>9, <2>1, <3>2, <4>1, SidesAre
    <3>3. QED
      BY <3>1, <3>2
  <2> HIDE DEF S
  <2>6. QED
    BY <2>2, <2>3, <2>4, <2>5 DEF Lists
<1> HIDE DEF S
<1>13. Shape(u, S, q2, P2, E2)
  BY <1>7, <1>11, <1>12 DEF Shape
<1>14. QED
  BY <1>13 DEF S

-----------------------------------------------------------------------------
(* Walks: the functions that recur along a link                            *)

\* w follows a link to where it ends.
Walks(D, nil, link, val, w) ==
  w = [x \in D |-> IF link[x] = nil THEN val[x] ELSE w[link[x]]]

Follows(D, nil, link, val, w) == \A x \in D : w[x] = IF link[x] = nil THEN val[x] ELSE w[link[x]]

\* The link leads down.
Descends(D, nil, link, rank) ==
  /\ nil \notin D
  /\ \A x \in D : /\ link[x] \in D \cup {nil}
                  /\ rank[x] \in Nat
                  /\ link[x] # nil => rank[link[x]] < rank[x]

ClosedUnder(D, nil, link, S) == S \subseteq D /\ \A x \in S : link[x] # nil => link[x] \in S

\* What is on the way from x.
Reach(D, nil, link, x) == {y \in D : \A S \in SUBSET D : x \in S /\ ClosedUnder(D, nil, link, S) => y \in S}

\* Every set that is closed under the link has, from each of its members, an end.
LEMMA ClosedHasEnd ==
  ASSUME NEW D, NEW nil, NEW link, NEW rank, Descends(D, nil, link, rank),
         NEW S, ClosedUnder(D, nil, link, S), S # {}
  PROVE  \E z \in S : link[z] = nil
<1> DEFINE R == {rank[x] : x \in S}
<1>1. R \subseteq Nat /\ R # {}
  BY DEF Descends, ClosedUnder
<1>2. PICK r \in R : \A k \in R : r <= k
  BY <1>1, LeastNumber
<1>3. PICK z \in S : rank[z] = r
  BY <1>2
<1>4. ASSUME link[z] # nil PROVE FALSE
  <2>1. link[z] \in S /\ rank[link[z]] < rank[z] /\ rank[link[z]] \in R
    BY <1>3, <1>4 DEF Descends, ClosedUnder
  <2>2. rank[link[z]] \in Nat /\ rank[z] \in Nat /\ rank[z] <= rank[link[z]]
    BY <1>1, <1>2, <1>3, <2>1
  <2>3. QED
    BY <2>1, <2>2
<1>5. QED
  BY <1>3, <1>4

\* A function that recurs along a link exists.
LEMMA WalkExists ==
  ASSUME NEW D, NEW nil, NEW link, NEW rank, Descends(D, nil, link, rank), NEW val
  PROVE  \E w : Walks(D, nil, link, val, w)
<1> DEFINE Ends(x) == {z \in Reach(D, nil, link, x) : link[z] = nil}
           w == [x \in D |-> val[CHOOSE z \in D : z \in Ends(x)]]
<1>1. ASSUME NEW x \in D, link[x] = nil PROVE Ends(x) = {x}
  <2>1. ClosedUnder(D, nil, link, {x}) /\ {x} \in SUBSET D
    BY <1>1 DEF ClosedUnder
  <2>2. Reach(D, nil, link, x) \subseteq {x}
    BY <2>1 DEF Reach
  <2>3. x \in Reach(D, nil, link, x)
    BY DEF Reach
  <2>4. QED
    BY <1>1, <2>2, <2>3
<1>2. ASSUME NEW x \in D, link[x] # nil PROVE Ends(x) = Ends(link[x])
  <2> DEFINE y == link[x]
             A == Reach(D, nil, link, x)
             B == Reach(D, nil, link, y)
  <2>1. y \in D
    BY <1>2 DEF Descends
  <2>2. \A z \in B : z \in A
    <3>1. SUFFICES ASSUME NEW z \in B, NEW S \in SUBSET D, x \in S, ClosedUnder(D, nil, link, S) PROVE z \in S
      BY DEF Reach
    <3>2. y \in S
      BY <1>2, <3>1 DEF ClosedUnder
    <3>3. QED
      BY <3>1, <3>2 DEF Reach
  <2>3. \A z \in A : z = x \/ z \in B
    <3>1. SUFFICES ASSUME NEW z \in A, z # x, NEW S \in SUBSET D, y \in S, ClosedUnder(D, nil, link, S) PROVE z \in S
      BY DEF Reach
    <3>2. ClosedUnder(D, nil, link, S \cup {x}) /\ S \cup {x} \in SUBSET D /\ x \in S \cup {x}
      BY <3>1 DEF ClosedUnder
    <3>3. z \in S \cup {x}
      BY <3>2 DEF Reach
    <3>4. QED
      BY <3>1, <3>3
  <2>4. QED
    BY <1>2, <2>2, <2>3
<1>3. \A x \in D : w[x] = val[CHOOSE z \in D : z \in Ends(x)]
  OBVIOUS
<1>4. ASSUME NEW x \in D PROVE w[x] = IF link[x] = nil THEN val[x] ELSE w[link[x]]
  <2>1. CASE link[x] = nil
    <3>1. Ends(x) = {x}
      BY <1>1, <2>1
    <3> HIDE DEF Ends, w
    <3>2. (CHOOSE z \in D : z \in Ends(x)) = x
      BY <3>1
    <3>3. QED
      BY <1>3, <2>1, <3>2
  <2>2. CASE link[x] # nil
    <3>1. Ends(x) = Ends(link[x]) /\ link[x] \in D
      BY <1>2, <2>2 DEF Descends
    <3> HIDE DEF Ends, w
    <3>2. (CHOOSE z \in D : z \in Ends(x)) = (CHOOSE z \in D : z \in Ends(link[x]))
      BY <3>1
    <3>3. QED
      BY <1>3, <2>2, <3>1, <3>2
  <2>3. QED
    BY <2>1, <2>2
<1>5. w = [x \in D |-> w[x]]
  OBVIOUS
<1> HIDE DEF w
<1>6. w = [x \in D |-> IF link[x] = nil THEN val[x] ELSE w[link[x]]]
  BY <1>4, <1>5
<1>7. Walks(D, nil, link, val, w)
  BY <1>6 DEF Walks
<1>8. QED
  BY <1>7

\* It has the value of an end of the link, and that end is in every set that
\* has the start and is closed under the link.
LEMMA WalkEnds ==
  ASSUME NEW D, NEW nil, NEW link, NEW rank, Descends(D, nil, link, rank), NEW val,
         NEW w, Follows(D, nil, link, val, w),
         NEW S, ClosedUnder(D, nil, link, S), NEW m \in S
  PROVE  \E z \in S : link[z] = nil /\ w[m] = val[z]
<1> DEFINE Bad == {x \in S : ~\E z \in S : link[z] = nil /\ w[x] = val[z]}
<1>1. SUFFICES ASSUME Bad # {} PROVE FALSE
  OBVIOUS
<1>2. ClosedUnder(D, nil, link, Bad)
  <2>1. SUFFICES ASSUME NEW x \in Bad, link[x] # nil PROVE link[x] \in Bad
    BY DEF ClosedUnder
  <2>2. link[x] \in S /\ x \in D /\ w[x] = w[link[x]]
    BY <2>1 DEF ClosedUnder, Follows
  <2>3. QED
    BY <2>1, <2>2
<1>3. PICK x \in Bad : link[x] = nil
  BY <1>1, <1>2, ClosedHasEnd
<1>4. x \in S /\ x \in D /\ w[x] = val[x]
  BY <1>3 DEF ClosedUnder, Follows
<1>5. QED
  BY <1>3, <1>4

-----------------------------------------------------------------------------
(* Walks in a tree                                                         *)

\* How many places are below a node, less one.
Width(T, E) == [x \in RbNodes |-> IF x \in T THEN E["right"][x] - E["left"][x] ELSE 0]

\* On the way down it shrinks.
LEMMA WidthShrinks ==
  ASSUME NEW t, NEW T, NEW P, NEW E, Linked(t, T), Spans(t, T, P, E)
  PROVE  /\ \A x \in RbNodes : Width(T, E)[x] \in Nat
         /\ \A x \in RbNodes, s \in Sides : t.child[s][x] # NoNode => Width(T, E)[t.child[s][x]] < Width(T, E)[x]
<1>1. ASSUME NEW x \in RbNodes PROVE Width(T, E)[x] \in Nat
  <2>1. CASE x \in T
    <3>1. E["left"][x] <= P[x] /\ P[x] <= E["right"][x] /\ P[x] \in Int /\ E["left"][x] \in Int /\ E["right"][x] \in Int
      BY <2>1, SidesAre DEF Spans
    <3>2. Width(T, E)[x] = E["right"][x] - E["left"][x]
      BY <2>1 DEF Width
    <3>3. QED
      BY <3>1, <3>2
  <2>2. CASE x \notin T
    BY <2>2 DEF Width
  <2>3. QED
    BY <2>1, <2>2
<1>2. ASSUME NEW x \in RbNodes, NEW s \in Sides, NEW c, c = t.child[s][x], c # NoNode
      PROVE  Width(T, E)[c] < Width(T, E)[x]
  <2>1. x \in T
    BY <1>2 DEF Linked
  <2>2. /\ c \in T /\ c \in RbNodes /\ P[x] \in Int /\ P[c] \in Int
        /\ E["left"][x] \in Int /\ E["right"][x] \in Int /\ E["left"][c] \in Int /\ E["right"][c] \in Int
        /\ E["left"][c] <= P[c] /\ P[c] <= E["right"][c] /\ E["left"][x] <= P[x] /\ P[x] <= E["right"][x]
        /\ s = "left" => E["left"][c] = E["left"][x] /\ E["right"][c] = P[x] - 1
        /\ s = "right" => E["left"][c] = P[x] + 1 /\ E["right"][c] = E["right"][x]
    BY <1>2, <2>1, BelowChild
  <2>3. Width(T, E)[c] = E["right"][c] - E["left"][c] /\ Width(T, E)[x] = E["right"][x] - E["left"][x]
    BY <2>1, <2>2 DEF Width
  <2>4. CASE s = "left"
    BY <2>2, <2>3, <2>4
  <2>5. CASE s = "right"
    BY <2>2, <2>3, <2>5
  <2>6. QED
    BY <2>4, <2>5, SidesAre
<1>3. QED
  BY <1>1, <1>2

\* ogs_rbtree_min and ogs_rbtree_max find the node at the edge.
LEMMA OutermostIs ==
  ASSUME NEW t, NEW T, NEW P, NEW E, Linked(t, T), Spans(t, T, P, E), NEW n \in T, NEW side \in Sides,
         NEW z, z = Outermost(t.child, side, n)
  PROVE  z \in T /\ P[z] = E[side][n] /\ t.child[side][z] = NoNode
<1> DEFINE c == t.child
           link == c[side]
           val == [m \in RbNodes |-> m]
           S == {x \in T : E[side][x] = E[side][n]}
           walk == CHOOSE walk : walk = [m \in RbNodes |-> IF c[side][m] = NoNode THEN m ELSE walk[c[side][m]]]
<1>1. Descends(RbNodes, NoNode, link, Width(T, E))
  <2>1. t \in Trees
    BY DEF Linked
  <2>2. NoNode \notin RbNodes /\ \A x \in RbNodes : link[x] \in RbNodes \cup {NoNode}
    BY <2>1, TreeSays DEF Pointers
  <2>3. QED
    BY <2>2, WidthShrinks DEF Descends
<1>2. PICK f : Walks(RbNodes, NoNode, link, val, f)
  BY <1>1, WalkExists
<1>3. f = [m \in RbNodes |-> IF c[side][m] = NoNode THEN m ELSE f[c[side][m]]]
  BY <1>2, Zenon DEF Walks
<1>4. walk = [m \in RbNodes |-> IF c[side][m] = NoNode THEN m ELSE walk[c[side][m]]]
  BY <1>3
<1>5. z = walk[n]
  BY DEF Outermost
<1> HIDE DEF walk
<1>6. Follows(RbNodes, NoNode, link, val, walk)
  BY <1>4 DEF Follows
<1>7. ClosedUnder(RbNodes, NoNode, link, S) /\ n \in S
  <2>1. T \subseteq RbNodes
    BY DEF Linked
  <2>2. ASSUME NEW x \in S, link[x] # NoNode PROVE link[x] \in S
    <3>1. link[x] \in T /\ SpanAt(t, P, E, x, side)
      BY <2>2 DEF Linked, Spans
    <3>2. QED
      BY <2>2, <3>1 DEF SpanAt
  <2>3. QED
    BY <2>1, <2>2 DEF ClosedUnder
<1> DEFINE rank == Width(T, E)
           D == RbNodes
<1> HIDE DEF S, link, val, rank, D
<1>8. PICK y \in S : link[y] = NoNode /\ walk[n] = val[y]
  <2>1. Descends(D, NoNode, link, rank)
    BY <1>1 DEF rank, D
  <2>2. Follows(D, NoNode, link, val, walk)
    BY <1>6 DEF D
  <2>3. ClosedUnder(D, NoNode, link, S) /\ n \in S
    BY <1>7 DEF D
  <2>4. \E y \in S : link[y] = NoNode /\ walk[n] = val[y]
    BY <2>1, <2>2, <2>3, WalkEnds
  <2>5. QED
    BY <2>4
<1>9. y \in T /\ E[side][y] = E[side][n] /\ z = y /\ t.child[side][y] = NoNode
  BY <1>5, <1>8 DEF S, link, val, Linked
<1>10. SpanAt(t, P, E, y, side)
  BY <1>9 DEF Spans
<1>11. QED
  BY <1>9, <1>10 DEF SpanAt

\* The edges are places of q.
LEMMA EdgesArePlaces ==
  ASSUME NEW t, NEW T, NEW q, NEW P, NEW E, Shape(t, T, q, P, E), NEW n \in T, NEW side \in Sides
  PROVE  E[side][n] \in 1 .. Len(q)
<1>1. Linked(t, T) /\ Spans(t, T, P, E) /\ Lists(t, T, q, P, E)
  BY DEF Shape
<1> DEFINE z == Outermost(t.child, side, n)
<1>2. z \in T /\ P[z] = E[side][n]
  BY <1>1, OutermostIs
<1>3. QED
  BY <1>1, <1>2 DEF Lists

\* ogs_rbtree_next and ogs_rbtree_prev find the node at the next place, if
\* there is one.
LEMMA NextNodeIs ==
  ASSUME NEW T, NEW q, NEW P, NEW E, Shape(Tree, T, q, P, E), NEW n \in T, NEW side \in Sides,
         NEW j, j = Beyond(side, P[n])
  PROVE  NextNode(n, side) = IF j \in 1 .. Len(q) THEN q[j] ELSE NoNode
<1> DEFINE t == Tree
           far == Other(side)
           L == Len(q)
           z == NextNode(n, side)
<1>1. Linked(t, T) /\ Spans(t, T, P, E) /\ Lists(t, T, q, P, E)
  BY DEF Shape
<1>2. t.root = root /\ t.parent = parent /\ t.child = child
  BY DEF Tree
<1>3. /\ T \subseteq RbNodes /\ NoNode \notin RbNodes /\ far \in Sides /\ far # side /\ Other(far) = side
      /\ \A s \in Sides : s = side \/ s = far
      /\ L \in Nat /\ \A x \in T : P[x] \in 1 .. L /\ q[P[x]] = x
      /\ \A x \in RbNodes : child[side][x] \in Pointers /\ parent[x] \in Pointers
      /\ E["left"][root] = 1 /\ E["right"][root] = L
  <2>1. t \in Trees /\ T # {}
    BY <1>1 DEF Linked
  <2>2. E["left"][t.root] = 1 /\ E["right"][t.root] = Len(q)
    BY <1>1, <2>1 DEF Lists
  <2>3. T \subseteq RbNodes /\ NoNode \notin RbNodes /\ L \in Nat /\ \A x \in T : P[x] \in 1 .. L /\ q[P[x]] = x
    BY <1>1, LenProperties, RbtreeAssumption DEF Linked, Lists
  <2>4. \A x \in RbNodes : child[side][x] \in Pointers /\ parent[x] \in Pointers
    BY <1>2, <2>1, TreeSays
  <2>5. QED
    BY <1>2, <2>2, <2>3, <2>4, SidesAre
<1> HIDE DEF t, far, L
<1>4. SpanAt(t, P, E, n, side)
  BY <1>1 DEF Spans
<1>5. CASE child[side][n] # NoNode
  <2> DEFINE c == child[side][n]
  <2>1. c \in T
    BY <1>1, <1>2, <1>5 DEF Linked
  <2>2. z = Outermost(t.child, far, c)
    BY <1>2, <1>5 DEF NextNode, far
  <2>3. z \in T /\ P[z] = E[far][c]
    BY <1>1, <1>3, <2>1, <2>2, OutermostIs
  <2>4. E[far][c] = j
    BY <1>2, <1>4, <1>5 DEF SpanAt, far
  <2>5. QED
    BY <1>3, <2>3, <2>4 DEF L
<1>6. CASE child[side][n] = NoNode
  <2> DEFINE Up(m) == parent[m] # NoNode /\ m = child[side][parent[m]]
             link == [m \in RbNodes |-> IF Up(m) THEN parent[m] ELSE NoNode]
             val == [m \in RbNodes |-> parent[m]]
             W == Width(T, E)
             rank == [m \in RbNodes |-> IF m \in T THEN L - W[m] ELSE 0]
             S == {x \in T : E[side][x] = E[side][n]}
             climb == CHOOSE climb : climb = [m \in RbNodes |-> IF parent[m] # NoNode /\ m = child[side][parent[m]]
                                                                THEN climb[parent[m]] ELSE parent[m]]
  <2>1. /\ \A x \in RbNodes : W[x] \in Nat
        /\ \A x \in RbNodes : child[side][x] # NoNode => W[child[side][x]] < W[x]
    BY <1>1, <1>2, WidthShrinks
  <2>2. \A x \in T : L - W[x] \in Nat
    <3>1. SUFFICES ASSUME NEW x \in T PROVE L - W[x] \in Nat
      OBVIOUS
    <3>2. E["left"][x] \in 1 .. L /\ E["right"][x] \in 1 .. L
      BY SidesAre, EdgesArePlaces DEF L, t
    <3>3. W[x] = E["right"][x] - E["left"][x]
      BY <1>3 DEF Width
    <3>4. QED
      BY <1>3, <3>2, <3>3
  <2> HIDE DEF W
  <2>3. ASSUME NEW x \in RbNodes, Up(x)
        PROVE  x \in T /\ parent[x] \in T /\ parent[x] \in RbNodes /\ SpanAt(t, P, E, parent[x], side)
    <3>1. parent[x] \in RbNodes
      BY <1>3, <2>3 DEF Pointers
    <3>2. t.child[side][parent[x]] = x /\ x # NoNode
      BY <1>2, <1>3, <2>3
    <3>3. parent[x] \in T
      BY <1>1, <3>1, <3>2 DEF Linked
    <3>4. x \in T
      BY <1>1, <3>2, <3>3 DEF Linked
    <3>5. SpanAt(t, P, E, parent[x], side)
      BY <1>1, <3>3 DEF Spans
    <3>6. QED
      BY <3>1, <3>3, <3>4, <3>5
  <2>4. Descends(RbNodes, NoNode, link, rank)
    <3>1. ASSUME NEW x \in RbNodes
          PROVE  link[x] \in RbNodes \cup {NoNode} /\ rank[x] \in Nat /\ (link[x] # NoNode => rank[link[x]] < rank[x])
      <4>1. rank[x] \in Nat
        BY <2>2
      <4>2. CASE Up(x)
        <5>1. link[x] = parent[x] /\ parent[x] \in T /\ x \in T /\ parent[x] \in RbNodes
          BY <2>3, <4>2
        <5>2. W[x] < W[parent[x]] /\ W[x] \in Nat /\ W[parent[x]] \in Nat
          BY <1>3, <2>1, <4>2, <5>1
        <5>3. rank[x] = L - W[x] /\ rank[parent[x]] = L - W[parent[x]]
          BY <5>1
        <5>4. QED
          BY <1>3, <4>1, <5>1, <5>2, <5>3
      <4>3. CASE ~Up(x)
        BY <4>1, <4>3
      <4>4. QED
        BY <4>2, <4>3
    <3> HIDE DEF link, rank
    <3>2. QED
      BY <1>3, <3>1 DEF Descends
  <2>5. PICK f : Walks(RbNodes, NoNode, link, val, f)
    <3> HIDE DEF link, rank, val
    <3>1. \E f : Walks(RbNodes, NoNode, link, val, f)
      BY <2>4, WalkExists
    <3>2. QED
      BY <3>1
  <2>6. ASSUME NEW g, NEW x \in RbNodes
        PROVE  (IF link[x] = NoNode THEN val[x] ELSE g[link[x]])
                 = (IF parent[x] # NoNode /\ x = child[side][parent[x]] THEN g[parent[x]] ELSE parent[x])
    OBVIOUS
  <2>7. f = [m \in RbNodes |-> IF parent[m] # NoNode /\ m = child[side][parent[m]] THEN f[parent[m]] ELSE parent[m]]
    <3>1. f = [x \in RbNodes |-> IF link[x] = NoNode THEN val[x] ELSE f[link[x]]]
      BY <2>5, Zenon DEF Walks
    <3> HIDE DEF link, val
    <3>2. QED
      BY <2>6, <3>1
  <2>8. climb = [m \in RbNodes |-> IF parent[m] # NoNode /\ m = child[side][parent[m]] THEN climb[parent[m]] ELSE parent[m]]
    BY <2>7
  <2>9. z = climb[n]
    BY <1>6 DEF NextNode
  <2> HIDE DEF climb
  <2>10. Follows(RbNodes, NoNode, link, val, climb)
    <3>1. \A x \in RbNodes : climb[x] = IF parent[x] # NoNode /\ x = child[side][parent[x]] THEN climb[parent[x]] ELSE parent[x]
      BY <2>8
    <3> HIDE DEF link, val
    <3>2. QED
      BY <2>6, <3>1 DEF Follows
  <2>11. ClosedUnder(RbNodes, NoNode, link, S) /\ n \in S
    <3>1. ASSUME NEW x \in S, link[x] # NoNode PROVE link[x] \in S
      <4>1. Up(x) /\ link[x] = parent[x] /\ x # NoNode
        BY <1>3, <3>1
      <4>2. parent[x] \in T /\ SpanAt(t, P, E, parent[x], side)
        BY <1>3, <2>3, <4>1
      <4>3. E[side][x] = E[side][parent[x]]
        BY <1>2, <4>1, <4>2 DEF SpanAt
      <4>4. QED
        BY <4>1, <4>2, <4>3
    <3>2. S \subseteq RbNodes /\ n \in S
      BY <1>3
    <3> HIDE DEF link, S
    <3>3. QED
      BY <3>1, <3>2 DEF ClosedUnder
  <2>12. PICK y \in S : link[y] = NoNode /\ climb[n] = val[y]
    <3> DEFINE D == RbNodes
    <3>1. Descends(D, NoNode, link, rank) /\ Follows(D, NoNode, link, val, climb) /\ ClosedUnder(D, NoNode, link, S) /\ n \in S
      BY <2>4, <2>10, <2>11
    <3> HIDE DEF link, rank, val, S, D
    <3>2. \E y \in S : link[y] = NoNode /\ climb[n] = val[y]
      BY <3>1, WalkEnds
    <3>3. QED
      BY <3>2
  <2>13. y \in T /\ y \in RbNodes /\ E[side][y] = P[n] /\ z = parent[y] /\ ~Up(y)
    <3>1. E[side][n] = P[n]
      BY <1>2, <1>4, <1>6 DEF SpanAt
    <3>2. y \in T /\ y \in RbNodes /\ E[side][y] = E[side][n] /\ z = parent[y]
      BY <1>3, <2>9, <2>12
    <3>3. ~Up(y)
      <4>1. parent[y] # NoNode => link[y] = NoNode
        BY <2>12
      <4>2. QED
        BY <3>2, <4>1
    <3>4. QED
      BY <3>1, <3>2, <3>3
  <2>14. P[n] \in 1 .. L /\ P[n] \in Int
    BY <1>3
  <2>15. CASE parent[y] = NoNode
    <3>1. y = root
      BY <1>1, <1>2, <2>13, <2>15 DEF Linked
    <3>2. CASE side = "left"
      <4>1. P[n] = 1
        BY <1>3, <2>13, <3>1, <3>2
      <4>2. j \notin 1 .. L
        BY <3>2, <4>1 DEF Beyond
      <4>3. QED
        BY <2>13, <2>15, <4>2 DEF L
    <3>3. CASE side = "right"
      <4>1. P[n] = L
        BY <1>3, <2>13, <3>1, <3>3
      <4>2. j = L + 1
        BY <3>3, <4>1 DEF Beyond
      <4>3. j \notin 1 .. L
        BY <1>3, <4>2
      <4>4. QED
        BY <2>13, <2>15, <4>3 DEF L
    <3>4. QED
      BY <3>2, <3>3, SidesAre
  <2>16. CASE parent[y] # NoNode
    <3> DEFINE p == parent[y]
    <3>1. y # t.root /\ p \in T
      BY <1>1, <1>2, <2>13, <2>16 DEF Linked
    <3>2. PICK s \in Sides : child[s][p] = y
      BY <1>1, <1>2, <2>13, <3>1 DEF Linked
    <3>3. s = far
      BY <1>3, <2>13, <2>16, <3>2
    <3>4. SpanAt(t, P, E, p, far) /\ t.child[far][p] = y /\ y # NoNode
      BY <1>1, <1>2, <1>3, <2>13, <3>1, <3>2, <3>3 DEF Spans
    <3>5. E[side][y] = Beyond(far, P[p])
      BY <1>3, <3>4 DEF SpanAt
    <3>6. P[p] \in 1 .. L /\ q[P[p]] = p
      BY <1>3, <3>1
    <3>7. j = P[p]
      BY <1>3, <2>13, <2>14, <3>5, <3>6, SidesAre DEF Beyond
    <3>8. QED
      BY <2>13, <3>6, <3>7 DEF L
  <2>17. QED
    BY <2>15, <2>16
<1>7. QED
  BY <1>5, <1>6

-----------------------------------------------------------------------------
(* The order of a tree                                                     *)

\* InOrder, of any tree.
OrderOf(c, r) ==
  LET seq[n \in RbNodes \cup {NoNode}] ==
        IF n = NoNode THEN << >> ELSE seq[c["left"][n]] \o <<n>> \o seq[c["right"][n]]
  IN  seq[r]

\* The part of q from a to b is that before p, what is at p, and that after p.
LEMMA PartsJoin ==
  ASSUME NEW q \in Seq(RbNodes), NEW a \in 1 .. Len(q), NEW p \in a .. Len(q), NEW b \in p .. Len(q)
  PROVE  SubSeq(q, a, p - 1) \o <<q[p]>> \o SubSeq(q, p + 1, b) = SubSeq(q, a, b)
<1>1. Len(q) \in Nat
  BY LenProperties
<1>2. SubSeq(q, a, p) = SubSeq(q, a, p - 1) \o <<q[p]>>
  BY <1>1, SubSeqRecursiveSecond
<1>3. SubSeq(q, a, p) \o SubSeq(q, p + 1, b) = SubSeq(q, a, b)
  <2>1. a \in 1 .. Len(q) + 1 /\ p \in a - 1 .. Len(q) /\ b \in p .. Len(q)
    BY <1>1
  <2>2. QED
    BY <2>1, ConcatAdjacentSubSeq
<1>4. QED
  BY <1>2, <1>3

\* A tree read from left to right is the sequence that its places make.
LEMMA OrderIs ==
  ASSUME NEW t, NEW T, NEW q, NEW P, NEW E, Shape(t, T, q, P, E), NEW c, c = t.child, NEW r, r = t.root
  PROVE  OrderOf(c, r) = q
<1> DEFINE L == Len(q)
           f == [n \in Pointers |-> IF n = NoNode THEN << >>
                                    ELSE IF n \in T THEN SubSeq(q, E["left"][n], E["right"][n]) ELSE <<n>>]
           Join(g, n) == IF n = NoNode THEN << >> ELSE g[c["left"][n]] \o <<n>> \o g[c["right"][n]]
           seq == CHOOSE seq : seq = [n \in RbNodes \cup {NoNode} |->
                                       IF n = NoNode THEN << >> ELSE seq[c["left"][n]] \o <<n>> \o seq[c["right"][n]]]
<1>1. Linked(t, T) /\ Spans(t, T, P, E) /\ Lists(t, T, q, P, E)
  BY DEF Shape
<1>2. /\ T \subseteq RbNodes /\ NoNode \notin RbNodes /\ q \in Seq(RbNodes) /\ L \in Nat
      /\ \A x \in RbNodes : c["left"][x] \in Pointers /\ c["right"][x] \in Pointers
      /\ \A x \in T : P[x] \in 1 .. L /\ q[P[x]] = x /\ E["left"][x] <= P[x] /\ P[x] <= E["right"][x]
  <2>1. t \in Trees
    BY <1>1 DEF Linked
  <2>2. \A x \in RbNodes : c["left"][x] \in Pointers /\ c["right"][x] \in Pointers
    BY <2>1, TreeSays, SidesAre
  <2>3. q \in Seq(RbNodes) /\ L \in Nat
    BY <1>1, LenProperties DEF Lists
  <2>4. \A x \in T : P[x] \in 1 .. L /\ q[P[x]] = x /\ E["left"][x] <= P[x] /\ P[x] <= E["right"][x]
    BY <1>1 DEF Lists, Spans
  <2>5. QED
    BY <1>1, <2>2, <2>3, <2>4, RbtreeAssumption DEF Linked
<1>3. \A n \in Pointers : f[n] = IF n = NoNode THEN << >>
                                 ELSE IF n \in T THEN SubSeq(q, E["left"][n], E["right"][n]) ELSE <<n>>
  OBVIOUS
<1> HIDE DEF f, L
<1>4. ASSUME NEW n \in T PROVE f[n] = Join(f, n)
  <2> DEFINE a == E["left"][n]
             b == E["right"][n]
             p == P[n]
             x == c["left"][n]
             y == c["right"][n]
  <2>1. a \in 1 .. L /\ b \in 1 .. L /\ p \in 1 .. L /\ a <= p /\ p <= b /\ q[p] = n
    <3>1. a \in 1 .. L /\ b \in 1 .. L
      BY SidesAre, EdgesArePlaces DEF L
    <3>2. QED
      BY <1>2, <3>1
  <2>2. SpanAt(t, P, E, n, "left") /\ SpanAt(t, P, E, n, "right")
    BY <1>1, SidesAre DEF Spans
  <2>3. f[x] = SubSeq(q, a, p - 1)
    <3>1. CASE x = NoNode
      <4>1. a = p
        BY <2>2, <3>1 DEF SpanAt
      <4>2. a \in Int /\ p - 1 \in Int /\ p - 1 < a
        BY <1>2, <2>1, <4>1
      <4> HIDE DEF a, p
      <4>3. SubSeq(q, a, p - 1) = << >>
        BY <4>2, SubSeqEmpty
      <4>4. f[x] = << >>
        BY <1>3, <3>1 DEF Pointers
      <4>5. QED
        BY <4>3, <4>4
    <3>2. CASE x # NoNode
      <4>1. x \in T /\ x \in Pointers
        BY <1>1, <1>2, <3>2, SidesAre DEF Linked
      <4>2. E["left"][x] = a /\ E["right"][x] = p - 1
        BY <1>1, <3>2, SidesAre, BelowChild
      <4>3. QED
        BY <1>3, <3>2, <4>1, <4>2
    <3>3. QED
      BY <3>1, <3>2
  <2>4. f[y] = SubSeq(q, p + 1, b)
    <3>1. CASE y = NoNode
      <4>1. b = p
        BY <2>2, <3>1 DEF SpanAt
      <4>2. b \in Int /\ p + 1 \in Int /\ b < p + 1
        BY <1>2, <2>1, <4>1
      <4> HIDE DEF b, p
      <4>3. SubSeq(q, p + 1, b) = << >>
        BY <4>2, SubSeqEmpty
      <4>4. f[y] = << >>
        BY <1>3, <3>1 DEF Pointers
      <4>5. QED
        BY <4>3, <4>4
    <3>2. CASE y # NoNode
      <4>1. y \in T /\ y \in Pointers
        BY <1>1, <1>2, <3>2, SidesAre DEF Linked
      <4>2. E["right"][y] = b /\ E["left"][y] = p + 1
        BY <1>1, <3>2, SidesAre, BelowChild
      <4>3. QED
        BY <1>3, <3>2, <4>1, <4>2
    <3>3. QED
      BY <3>1, <3>2
  <2>5. f[n] = SubSeq(q, a, b) /\ n # NoNode
    BY <1>2, <1>3 DEF Pointers
  <2>6. SubSeq(q, a, p - 1) \o <<q[p]>> \o SubSeq(q, p + 1, b) = SubSeq(q, a, b)
    <3>1. a \in 1 .. Len(q) /\ p \in a .. Len(q) /\ b \in p .. Len(q)
      BY <1>2, <2>1, SMTT(60) DEF L
    <3> HIDE DEF a, b, p
    <3>2. QED
      BY <1>2, <3>1, PartsJoin
  <2>7. f[n] = f[x] \o <<n>> \o f[y]
    BY <2>1, <2>3, <2>4, <2>5, <2>6
  <2>8. QED
    BY <2>5, <2>7, Zenon
<1>5. ASSUME NEW n \in Pointers PROVE f[n] = Join(f, n)
  <2>1. CASE n = NoNode
    BY <1>3, <2>1
  <2>2. CASE n \in T
    BY <1>4, <2>2
  <2>3. CASE n # NoNode /\ n \notin T
    <3>1. c["left"][n] = NoNode /\ c["right"][n] = NoNode /\ n \in RbNodes
      BY <1>1, <2>3, SidesAre DEF Linked, Pointers
    <3>2. f[NoNode] = << >> /\ f[n] = <<n>>
      BY <1>3, <2>3 DEF Pointers
    <3>3. << >> \o <<n>> \o << >> = <<n>>
      <4>1. <<n>> \in Seq(RbNodes)
        BY <3>1
      <4> DEFINE s == <<n>>
      <4> HIDE DEF s
      <4>2. << >> \o s = s /\ s \o << >> = s
        BY <4>1, ConcatEmptySeq DEF s
      <4>3. QED
        BY <4>2 DEF s
    <3>4. QED
      BY <2>3, <3>1, <3>2, <3>3
  <2>4. QED
    BY <2>1, <2>2, <2>3
<1>6. f = [n \in Pointers |-> Join(f, n)]
  <2>1. f = [n \in Pointers |-> f[n]]
    BY DEF f
  <2>2. QED
    BY <1>5, <2>1, Zenon
<1>7. seq = [n \in RbNodes \cup {NoNode} |->
              IF n = NoNode THEN << >> ELSE seq[c["left"][n]] \o <<n>> \o seq[c["right"][n]]]
  <2>1. f = [n \in RbNodes \cup {NoNode} |->
              IF n = NoNode THEN << >> ELSE f[c["left"][n]] \o <<n>> \o f[c["right"][n]]]
    BY <1>6, Zenon DEF Pointers
  <2>2. QED
    BY <2>1, Zenon
<1>8. OrderOf(c, r) = seq[r]
  BY DEF OrderOf
<1> HIDE DEF seq
<1>9. \A n \in Pointers : seq[n] = Join(seq, n)
  BY <1>7, Zenon DEF Pointers
<1> DEFINE W == Width(T, E)
           Bad == {n \in RbNodes : seq[n] # f[n]}
           R == {W[x] : x \in Bad}
<1>10. /\ \A x \in RbNodes : W[x] \in Nat
       /\ \A x \in RbNodes, s \in Sides : c[s][x] # NoNode => W[c[s][x]] < W[x]
  BY <1>1, WidthShrinks
<1> HIDE DEF W
<1>11. seq[NoNode] = f[NoNode]
  BY <1>5, <1>9 DEF Pointers
<1>12. Bad = {}
  <2>1. SUFFICES ASSUME Bad # {} PROVE FALSE
    OBVIOUS
  <2>2. R \subseteq Nat /\ R # {}
    BY <1>10, <2>1
  <2> HIDE DEF R
  <2>3. PICK w \in R : \A k \in R : w <= k
    BY <2>2, LeastNumber
  <2>4. PICK n \in Bad : W[n] = w
    BY <2>3 DEF R
  <2>5. ASSUME NEW s \in Sides PROVE seq[c[s][n]] = f[c[s][n]]
    <3>1. CASE c[s][n] = NoNode
      BY <1>11, <3>1
    <3>2. CASE c[s][n] # NoNode
      <4>1. c[s][n] \in RbNodes /\ n \in RbNodes
        BY <1>2, <3>2, SidesAre DEF Pointers
      <4>2. W[c[s][n]] < W[n] /\ W[n] \in Nat /\ W[c[s][n]] \in Nat
        BY <1>10, <3>2, <4>1
      <4>3. c[s][n] \notin Bad
        BY <2>3, <2>4, <4>2 DEF R
      <4>4. QED
        BY <4>1, <4>3
    <3>3. QED
      BY <3>1, <3>2
  <2>6. n \in Pointers /\ seq[n] # f[n]
    BY <2>4 DEF Pointers
  <2>7. seq[n] = Join(seq, n) /\ f[n] = Join(f, n)
    BY <1>5, <1>9, <2>6
  <2>8. Join(seq, n) = Join(f, n)
    BY <2>5, SidesAre
  <2>9. QED
    BY <2>6, <2>7, <2>8
<1>13. r \in Pointers /\ (T # {} => r \in T) /\ (T = {} => r = NoNode)
  BY <1>1, <1>2 DEF Linked, Pointers
<1>14. seq[r] = f[r]
  BY <1>11, <1>12, <1>13 DEF Pointers
<1>15. f[r] = q
  <2>1. CASE T = {}
    <3>1. f[r] = << >>
      BY <1>3, <1>13, <2>1
    <3>2. L = 0
      <4>1. \A i \in 1 .. L : q[i] \in T
        BY <1>1 DEF Lists, L
      <4>2. QED
        BY <1>2, <2>1, <4>1
    <3>3. QED
      BY <1>2, <3>1, <3>2, EmptySeq DEF L
  <2>2. CASE T # {}
    <3>1. E["left"][r] = 1 /\ E["right"][r] = L /\ r # NoNode
      BY <1>1, <1>2, <1>13, <2>2 DEF Lists, L
    <3>2. SubSeq(q, 1, Len(q)) = q
      BY <1>2, SubSeqFull
    <3>3. QED
      BY <1>3, <1>13, <2>2, <3>1, <3>2 DEF L
  <2>3. QED
    BY <2>1, <2>2
<1>16. QED
  BY <1>8, <1>14, <1>15

-----------------------------------------------------------------------------
(* Black nodes on the way down                                             *)

\* A black node is one, and the missing one is one.
Weight(R, n) == IF n \in R THEN 0 ELSE 1

Lack(n, s, lp, ls) == IF n = lp /\ s = ls THEN 1 ELSE 0

\* With R red, H[n] black nodes are on every way down from n; but on that to
\* the child of lp on the side ls one is missing.
Even(t, T, R, H, lp, ls) ==
  /\ H \in [Pointers -> Nat] /\ H[NoNode] = 0
  /\ \A n \in T, s \in Sides : H[t.child[s][n]] + Weight(R, n) + Lack(n, s, lp, ls) = H[n]

\* But for those of A, a red node is not the root and has a black parent.
RedRule(t, R, A) == \A n \in R \ A : n # t.root /\ t.parent[n] \notin R

\* A black node counts.
LEMMA WeightIs == \A R, n : Weight(R, n) \in Nat /\ (n \in R => Weight(R, n) = 0) /\ (n \notin R => Weight(R, n) = 1)
BY DEF Weight

\* One is missing on one way only.
LEMMA LackIs ==
  \A n, s, lp, ls : /\ Lack(n, s, lp, ls) \in Nat
                    /\ n = lp /\ s = ls => Lack(n, s, lp, ls) = 1
                    /\ ~(n = lp /\ s = ls) => Lack(n, s, lp, ls) = 0
BY DEF Lack

\* The black height is the same on every way down if nothing is missing.
LEMMA BlackHeightIs ==
  ASSUME NEW T, NEW q, NEW P, NEW E, Shape(Tree, T, q, P, E), red \subseteq T,
         NEW H, Even(Tree, T, red, H, NoNode, "left")
  PROVE  BlackHeight # -1
<1> DEFINE t == Tree
           Step(g, n) == IF n = NoNode THEN 0
                         ELSE LET l == g[child["left"][n]]
                                  r == g[child["right"][n]]
                              IN  IF l # r \/ l = -1 THEN -1 ELSE IF n \in red THEN l ELSE l + 1
           f == [n \in Pointers |-> IF n = NoNode THEN 0 ELSE IF n \in T THEN H[n] ELSE 1]
           height == CHOOSE height : height = [n \in RbNodes \cup {NoNode} |->
                        IF n = NoNode THEN 0
                        ELSE LET l == height[child["left"][n]]
                                 r == height[child["right"][n]]
                             IN  IF l # r \/ l = -1 THEN -1 ELSE IF n \in red THEN l ELSE l + 1]
<1>1. Linked(t, T) /\ Spans(t, T, P, E)
  BY DEF Shape
<1>2. t.root = root /\ t.parent = parent /\ t.child = child
  BY DEF Tree
<1>3. /\ T \subseteq RbNodes /\ NoNode \notin RbNodes
      /\ \A x \in RbNodes, s \in Sides : child[s][x] \in Pointers
      /\ root \in Pointers
  <2>1. t \in Trees
    BY <1>1 DEF Linked
  <2>2. QED
    BY <1>1, <1>2, <2>1, TreeSays DEF Linked
<1>4. \A n \in Pointers : f[n] = IF n = NoNode THEN 0 ELSE IF n \in T THEN H[n] ELSE 1
  OBVIOUS
<1>5. /\ \A n \in Pointers : H[n] \in Nat
      /\ H[NoNode] = 0
      /\ \A n \in T, s \in Sides : H[child[s][n]] + Weight(red, n) + Lack(n, s, NoNode, "left") = H[n]
  BY <1>2 DEF Even
<1> HIDE DEF f
<1>6. ASSUME NEW n \in Pointers PROVE f[n] = Step(f, n)
  <2>1. CASE n = NoNode
    BY <1>4, <2>1
  <2>2. CASE n \in T
    <3>1. n # NoNode /\ n \in RbNodes
      BY <1>3, <2>2
    <3>2. ASSUME NEW s \in Sides PROVE f[child[s][n]] = H[child[s][n]] /\ H[child[s][n]] \in Nat /\ H[n] = H[child[s][n]] + Weight(red, n)
      <4>1. Lack(n, s, NoNode, "left") = 0
        BY <3>1 DEF Lack
      <4>2. child[s][n] \in Pointers /\ H[child[s][n]] \in Nat
        BY <1>3, <1>5, <3>1
      <4>3. H[n] = H[child[s][n]] + Weight(red, n)
        BY <1>5, <2>2, <4>1, <4>2, WeightIs
      <4>4. child[s][n] # NoNode => child[s][n] \in T
        BY <1>1, <1>2, <2>2 DEF Linked
      <4>5. f[child[s][n]] = H[child[s][n]]
        BY <1>4, <1>5, <4>2, <4>4
      <4>6. QED
        BY <4>2, <4>3, <4>5
    <3> DEFINE l == H[child["left"][n]]
               r == H[child["right"][n]]
    <3>3. /\ f[child["left"][n]] = l /\ f[child["right"][n]] = r
          /\ l \in Nat /\ r \in Nat /\ H[n] = l + Weight(red, n) /\ H[n] = r + Weight(red, n)
      BY <3>2, SidesAre
    <3> HIDE DEF l, r
    <3>4. l = r /\ l # -1
      BY <3>3, WeightIs
    <3>5. f[n] = IF n \in red THEN l ELSE l + 1
      <4>1. f[n] = H[n]
        BY <1>4, <2>2, <3>1
      <4>2. QED
        BY <3>3, <4>1, WeightIs
    <3>6. QED
      BY <3>1, <3>3, <3>4, <3>5
  <2>3. CASE n # NoNode /\ n \notin T
    <3>1. child["left"][n] = NoNode /\ child["right"][n] = NoNode /\ n \notin red
      BY <1>1, <1>2, <2>3, SidesAre DEF Linked, Pointers
    <3>2. f[NoNode] = 0 /\ f[n] = 1
      BY <1>4, <2>3 DEF Pointers
    <3>3. QED
      BY <2>3, <3>1, <3>2
  <2>4. QED
    BY <2>1, <2>2, <2>3
<1>7. f = [n \in Pointers |-> Step(f, n)]
  <2>1. f = [n \in Pointers |-> f[n]]
    BY DEF f
  <2>2. QED
    BY <1>6, <2>1
<1>8. height = [n \in RbNodes \cup {NoNode} |->
                  IF n = NoNode THEN 0
                  ELSE LET l == height[child["left"][n]]
                           r == height[child["right"][n]]
                       IN  IF l # r \/ l = -1 THEN -1 ELSE IF n \in red THEN l ELSE l + 1]
  <2>1. f = [n \in RbNodes \cup {NoNode} |->
                  IF n = NoNode THEN 0
                  ELSE LET l == f[child["left"][n]]
                           r == f[child["right"][n]]
                       IN  IF l # r \/ l = -1 THEN -1 ELSE IF n \in red THEN l ELSE l + 1]
    BY <1>7, Zenon DEF Pointers
  <2>2. QED
    BY <2>1, Zenon
<1>9. BlackHeight = height[root]
  BY Zenon DEF BlackHeight
<1> HIDE DEF height
<1>10. \A n \in Pointers : height[n] = Step(height, n)
  BY <1>8 DEF Pointers
<1> DEFINE W == Width(T, E)
           Bad == {n \in RbNodes : height[n] # f[n]}
           K == {W[x] : x \in Bad}
<1>11. /\ \A x \in RbNodes : W[x] \in Nat
       /\ \A x \in RbNodes, s \in Sides : child[s][x] # NoNode => W[child[s][x]] < W[x]
  BY <1>1, <1>2, WidthShrinks
<1> HIDE DEF W
<1>12. height[NoNode] = f[NoNode]
  BY <1>6, <1>10 DEF Pointers
<1>13. Bad = {}
  <2>1. SUFFICES ASSUME Bad # {} PROVE FALSE
    OBVIOUS
  <2>2. K \subseteq Nat /\ K # {}
    BY <1>11, <2>1
  <2> HIDE DEF K
  <2>3. PICK w \in K : \A k \in K : w <= k
    BY <2>2, LeastNumber
  <2>4. PICK n \in Bad : W[n] = w
    BY <2>3 DEF K
  <2>5. ASSUME NEW s \in Sides PROVE height[child[s][n]] = f[child[s][n]]
    <3>1. CASE child[s][n] = NoNode
      BY <1>12, <3>1
    <3>2. CASE child[s][n] # NoNode
      <4>1. child[s][n] \in RbNodes /\ n \in RbNodes
        BY <1>3, <3>2, SidesAre DEF Pointers
      <4>2. W[child[s][n]] < W[n] /\ W[n] \in Nat /\ W[child[s][n]] \in Nat
        BY <1>11, <3>2, <4>1
      <4>3. child[s][n] \notin Bad
        BY <2>3, <2>4, <4>2 DEF K
      <4>4. QED
        BY <4>1, <4>3
    <3>3. QED
      BY <3>1, <3>2
  <2>6. n \in Pointers /\ height[n] # f[n]
    BY <2>4 DEF Pointers
  <2>7. height[n] = Step(height, n) /\ f[n] = Step(f, n)
    BY <1>6, <1>10, <2>6
  <2>8. Step(height, n) = Step(f, n)
    BY <2>5, SidesAre
  <2>9. QED
    BY <2>6, <2>7, <2>8
<1>14. height[root] = f[root] /\ f[root] \in Nat
  BY <1>3, <1>4, <1>5, <1>12, <1>13 DEF Pointers
<1>15. QED
  BY <1>9, <1>14

-----------------------------------------------------------------------------
(* A new leaf                                                              *)

\* Where a leaf goes that is linked below m.
Gap(P, m, side) == IF side = "left" THEN P[m] ELSE P[m] + 1

\* The leaf will be below x.
Across(P, E, m, x) == E["left"][x] <= P[m] /\ P[m] <= E["right"][x]

\* u is t with the leaf n below m.
Grown(t, n, m, side, u) ==
  /\ u \in Trees /\ u.root = t.root
  /\ \A x \in RbNodes : u.parent[x] = IF x = n THEN m ELSE t.parent[x]
  /\ \A x \in RbNodes, s \in Sides : u.child[s][x] = IF x = m /\ s = side THEN n ELSE t.child[s][x]

\* The leaf has its place: those behind it move on.
Added(q, P, E, n, m, side, q2, P2, E2) ==
  /\ q2 = InsertAt(q, Gap(P, m, side), n)
  /\ P2 \in [RbNodes -> Int] /\ E2 \in [Sides -> [RbNodes -> Int]]
  /\ P2[n] = Gap(P, m, side) /\ E2["left"][n] = Gap(P, m, side) /\ E2["right"][n] = Gap(P, m, side)
  /\ \A x \in RbNodes \ {n} :
       /\ P2[x] = IF P[x] >= Gap(P, m, side) THEN P[x] + 1 ELSE P[x]
       /\ E2["left"][x] = IF ~Across(P, E, m, x) /\ E["left"][x] >= Gap(P, m, side) THEN E["left"][x] + 1 ELSE E["left"][x]
       /\ E2["right"][x] = IF Across(P, E, m, x) \/ E["right"][x] >= Gap(P, m, side) THEN E["right"][x] + 1 ELSE E["right"][x]

\* There is such a sequence, with its places and edges.
LEMMA AddedExist ==
  ASSUME NEW q, NEW P \in [RbNodes -> Int], NEW E \in [Sides -> [RbNodes -> Int]], NEW n \in RbNodes,
         NEW m \in RbNodes, NEW side \in Sides
  PROVE  \E q2, P2, E2 : Added(q, P, E, n, m, side, q2, P2, E2)
<1> DEFINE k == Gap(P, m, side)
           In(x) == Across(P, E, m, x)
           p == [x \in RbNodes |-> IF x = n THEN k ELSE IF P[x] >= k THEN P[x] + 1 ELSE P[x]]
           f == [x \in RbNodes |-> IF x = n THEN k
                                   ELSE IF ~In(x) /\ E["left"][x] >= k THEN E["left"][x] + 1 ELSE E["left"][x]]
           g == [x \in RbNodes |-> IF x = n THEN k
                                   ELSE IF In(x) \/ E["right"][x] >= k THEN E["right"][x] + 1 ELSE E["right"][x]]
           F == [s \in Sides |-> IF s = "left" THEN f ELSE g]
<1>1. k \in Int /\ \A x \in RbNodes : P[x] \in Int /\ E["left"][x] \in Int /\ E["right"][x] \in Int
  BY SidesAre DEF Gap
<1> HIDE DEF k, In
<1>2. p \in [RbNodes -> Int] /\ f \in [RbNodes -> Int] /\ g \in [RbNodes -> Int]
  BY <1>1
<1>3. /\ p[n] = k /\ f[n] = k /\ g[n] = k
      /\ \A x \in RbNodes \ {n} :
           /\ p[x] = IF P[x] >= k THEN P[x] + 1 ELSE P[x]
           /\ f[x] = IF ~In(x) /\ E["left"][x] >= k THEN E["left"][x] + 1 ELSE E["left"][x]
           /\ g[x] = IF In(x) \/ E["right"][x] >= k THEN E["right"][x] + 1 ELSE E["right"][x]
  OBVIOUS
<1> HIDE DEF f, g, p
<1>4. F \in [Sides -> [RbNodes -> Int]] /\ F["left"] = f /\ F["right"] = g
  BY <1>2 DEF Sides
<1> HIDE DEF F
<1>5. Added(q, P, E, n, m, side, InsertAt(q, k, n), p, F)
  BY <1>2, <1>3, <1>4 DEF Added, k, In
<1>6. QED
  BY <1>5

\* A new leaf keeps the links.
LEMMA GrowKeepsLinks ==
  ASSUME NEW t, NEW T, NEW P, NEW E, Linked(t, T), Spans(t, T, P, E), NEW m \in T, NEW side \in Sides,
         t.child[side][m] = NoNode, NEW n \in RbNodes \ T, NEW u, Grown(t, n, m, side, u)
  PROVE  Linked(u, T \cup {n})
<1> DEFINE S == T \cup {n}
<1>1. /\ t \in Trees /\ T \subseteq RbNodes /\ m \in RbNodes /\ n \in RbNodes /\ n # m /\ NoNode \notin RbNodes
      /\ t.root \in T /\ t.root # n /\ t.root # NoNode
      /\ t.parent[n] = NoNode /\ \A s \in Sides : t.child[s][n] = NoNode
      /\ \A x \in T : x = t.root <=> t.parent[x] = NoNode
      /\ \A x \in T \ {t.root} : t.parent[x] \in T /\ \E s \in Sides : t.child[s][t.parent[x]] = x
      /\ \A x \in T, s \in Sides : t.child[s][x] # NoNode => t.child[s][x] \in T /\ t.parent[t.child[s][x]] = x
      /\ \A x \in RbNodes \ T : t.parent[x] = NoNode /\ \A s \in Sides : t.child[s][x] = NoNode
  BY RbtreeAssumption DEF Linked
<1>2. /\ u \in Trees /\ u.root = t.root
      /\ \A x \in RbNodes : u.parent[x] = IF x = n THEN m ELSE t.parent[x]
      /\ \A x \in RbNodes, s \in Sides : u.child[s][x] = IF x = m /\ s = side THEN n ELSE t.child[s][x]
  BY DEF Grown
<1>3. ASSUME NEW x \in S PROVE x = u.root <=> u.parent[x] = NoNode
  <2>1. CASE x = n
    BY <1>1, <1>2, <2>1
  <2>2. CASE x # n
    BY <1>1, <1>2, <2>2
  <2>3. QED
    BY <2>1, <2>2
<1>4. ASSUME NEW x \in S \ {u.root} PROVE u.parent[x] \in S /\ \E s \in Sides : u.child[s][u.parent[x]] = x
  <2>1. CASE x = n
    BY <1>1, <1>2, <2>1
  <2>2. CASE x # n
    <3>1. x \in T \ {t.root} /\ x # NoNode /\ x \in RbNodes
      BY <1>1, <1>2, <2>2
    <3>2. t.parent[x] \in T
      BY <1>1, <3>1
    <3>3. PICK s \in Sides : t.child[s][t.parent[x]] = x
      BY <1>1, <3>1
    <3>4. u.parent[x] = t.parent[x]
      BY <1>2, <2>2, <3>1
    <3>5. u.child[s][t.parent[x]] = x
      BY <1>1, <1>2, <3>1, <3>2, <3>3
    <3>6. QED
      BY <3>2, <3>4, <3>5
  <2>3. QED
    BY <2>1, <2>2
<1>5. ASSUME NEW x \in S, NEW s \in Sides, u.child[s][x] # NoNode
      PROVE  u.child[s][x] \in S /\ u.parent[u.child[s][x]] = x
  <2>1. CASE x = m /\ s = side
    BY <1>1, <1>2, <2>1
  <2>2. CASE ~(x = m /\ s = side)
    <3>1. u.child[s][x] = t.child[s][x] /\ x \in RbNodes
      BY <1>1, <1>2, <2>2
    <3>2. x \in T
      BY <1>1, <1>5, <3>1
    <3>3. t.child[s][x] \in T /\ t.parent[t.child[s][x]] = x
      BY <1>1, <1>5, <3>1, <3>2
    <3>4. QED
      BY <1>1, <1>2, <3>1, <3>3
  <2>3. QED
    BY <2>1, <2>2
<1>6. ASSUME NEW x \in RbNodes \ S PROVE u.parent[x] = NoNode /\ \A s \in Sides : u.child[s][x] = NoNode
  BY <1>1, <1>2
<1>7. S \subseteq RbNodes /\ S # {} /\ u.root \in S
  BY <1>1, <1>2
<1> HIDE DEF S
<1>8. Linked(u, S)
  BY <1>2, <1>3, <1>4, <1>5, <1>6, <1>7 DEF Linked
<1>9. QED
  BY <1>8 DEF S

\* ... and has its place between those of the others.
LEMMA GrowKeepsShape ==
  ASSUME NEW t, NEW T, NEW q, NEW P, NEW E, Shape(t, T, q, P, E), NEW m \in T, NEW side \in Sides,
         t.child[side][m] = NoNode, NEW n \in RbNodes \ T, NEW u, Grown(t, n, m, side, u),
         NEW q2, NEW P2, NEW E2, Added(q, P, E, n, m, side, q2, P2, E2)
  PROVE  Shape(u, T \cup {n}, q2, P2, E2)
<1> DEFINE S == T \cup {n}
           k == Gap(P, m, side)
           L == Len(q)
           In(x) == Across(P, E, m, x)
<1>1. Linked(t, T) /\ Spans(t, T, P, E) /\ Lists(t, T, q, P, E)
  BY DEF Shape
<1>2. Linked(u, S)
  BY <1>1, GrowKeepsLinks
<1>3. /\ T \subseteq RbNodes /\ m \in RbNodes /\ n \in RbNodes /\ n \notin T /\ n # m /\ NoNode \notin RbNodes
      /\ t.root \in T /\ u.root = t.root
      /\ \A x \in RbNodes, s \in Sides : u.child[s][x] = IF x = m /\ s = side THEN n ELSE t.child[s][x]
      /\ \A s \in Sides : t.child[s][n] = NoNode
      /\ \A x \in T, s \in Sides : t.child[s][x] # NoNode => t.child[s][x] \in T
  BY <1>1, RbtreeAssumption DEF Linked, Grown
<1>4. /\ P \in [RbNodes -> Int] /\ E \in [Sides -> [RbNodes -> Int]]
      /\ \A x \in T, s \in Sides : SpanAt(t, P, E, x, s)
      /\ \A x \in T : E["left"][x] <= P[x] /\ P[x] <= E["right"][x]
  BY <1>1 DEF Spans
<1>5. /\ q \in Seq(RbNodes) /\ L \in Nat
      /\ \A x \in T : P[x] \in 1 .. L /\ q[P[x]] = x
      /\ \A i \in 1 .. L : q[i] \in T /\ P[q[i]] = i
      /\ E["left"][t.root] = 1 /\ E["right"][t.root] = L
  BY <1>1, <1>3, LenProperties DEF Lists
<1>6. \A x \in RbNodes : P[x] \in Int /\ E["left"][x] \in Int /\ E["right"][x] \in Int
  BY <1>4, SidesAre
<1>7. \A x \in T : x # m => P[x] # P[m]
  BY <1>5
<1>8. /\ side = "left" => k = P[m]
      /\ side = "right" => k = P[m] + 1
      /\ k \in Int /\ P[m] \in Int /\ P[m] \in 1 .. L
      /\ \A x \in RbNodes : In(x) <=> E["left"][x] <= P[m] /\ P[m] <= E["right"][x]
  BY <1>3, <1>5, <1>6, SidesAre DEF Gap, Across
<1>9. /\ q2 = InsertAt(q, k, n)
      /\ P2 \in [RbNodes -> Int] /\ E2 \in [Sides -> [RbNodes -> Int]]
      /\ P2[n] = k /\ E2["left"][n] = k /\ E2["right"][n] = k
      /\ \A x \in RbNodes \ {n} :
           /\ P2[x] = IF P[x] >= k THEN P[x] + 1 ELSE P[x]
           /\ E2["left"][x] = IF ~In(x) /\ E["left"][x] >= k THEN E["left"][x] + 1 ELSE E["left"][x]
           /\ E2["right"][x] = IF In(x) \/ E["right"][x] >= k THEN E["right"][x] + 1 ELSE E["right"][x]
  BY DEF Added
<1> HIDE DEF k, L, In
<1>10. ASSUME NEW x \in T
       PROVE  /\ x \in RbNodes /\ x # n
              /\ P[x] \in Int /\ E["left"][x] \in Int /\ E["right"][x] \in Int
              /\ E["left"][x] <= P[x] /\ P[x] <= E["right"][x]
              /\ In(x) <=> E["left"][x] <= P[m] /\ P[m] <= E["right"][x]
              /\ P2[x] = IF P[x] >= k THEN P[x] + 1 ELSE P[x]
              /\ E2["left"][x] = IF ~In(x) /\ E["left"][x] >= k THEN E["left"][x] + 1 ELSE E["left"][x]
              /\ E2["right"][x] = IF In(x) \/ E["right"][x] >= k THEN E["right"][x] + 1 ELSE E["right"][x]
  <2>1. x \in RbNodes /\ x # n /\ x \in RbNodes \ {n}
    BY <1>3
  <2>2. P[x] \in Int /\ E["left"][x] \in Int /\ E["right"][x] \in Int
    BY <1>6, <2>1
  <2>3. E["left"][x] <= P[x] /\ P[x] <= E["right"][x]
    BY <1>4
  <2>4. In(x) <=> E["left"][x] <= P[m] /\ P[m] <= E["right"][x]
    BY <1>8, <2>1
  <2>5. /\ P2[x] = IF P[x] >= k THEN P[x] + 1 ELSE P[x]
        /\ E2["left"][x] = IF ~In(x) /\ E["left"][x] >= k THEN E["left"][x] + 1 ELSE E["left"][x]
        /\ E2["right"][x] = IF In(x) \/ E["right"][x] >= k THEN E["right"][x] + 1 ELSE E["right"][x]
    BY <1>9, <2>1
  <2>6. QED
    BY <2>1, <2>2, <2>3, <2>4, <2>5
<1>11. ASSUME NEW x \in S PROVE E2["left"][x] <= P2[x] /\ P2[x] <= E2["right"][x]
  <2>1. CASE x = n
    BY <1>8, <1>9, <2>1
  <2>2. CASE x \in T
    <3>1. CASE side = "left"
      BY <1>8, <1>10, <2>2, <3>1
    <3>2. CASE side = "right"
      BY <1>8, <1>10, <2>2, <3>2
    <3>3. QED
      BY <3>1, <3>2, SidesAre
  <2>3. QED
    BY <2>1, <2>2
\* A node that keeps its child, or keeps none.
<1>12. ASSUME NEW x \in T, NEW s \in Sides, ~(x = m /\ s = side) PROVE SpanAt(u, P2, E2, x, s)
  <2> DEFINE b == t.child[s][x]
  <2>1. u.child[s][x] = b /\ SpanAt(t, P, E, x, s) /\ (b # NoNode => b \in T) /\ (x # m => P[x] # P[m])
    BY <1>3, <1>4, <1>7, <1>12
  <2>2. CASE b = NoNode
    <3>1. E[s][x] = P[x]
      BY <2>1, <2>2 DEF SpanAt
    <3>2. E2[s][x] = P2[x]
      <4>1. CASE s = "left" /\ side = "left"
        <5>1. x # m
          BY <1>12, <4>1
        <5>2. QED
          BY <1>8, <1>10, <2>1, <3>1, <4>1, <5>1
      <4>2. CASE s = "left" /\ side = "right"
        BY <1>8, <1>10, <2>1, <3>1, <4>2
      <4>3. CASE s = "right" /\ side = "left"
        BY <1>8, <1>10, <2>1, <3>1, <4>3
      <4>4. CASE s = "right" /\ side = "right"
        <5>1. x # m
          BY <1>12, <4>4
        <5>2. QED
          BY <1>8, <1>10, <2>1, <3>1, <4>4, <5>1
      <4>5. QED
        BY <4>1, <4>2, <4>3, <4>4, SidesAre
    <3>3. QED
      BY <2>1, <2>2, <3>2 DEF SpanAt
  <2>3. CASE b # NoNode
    <3>1. b \in T /\ E[s][b] = E[s][x] /\ E[Other(s)][b] = Beyond(s, P[x])
      BY <2>1, <2>3 DEF SpanAt
    <3>2. x = m => t.child[side][x] = NoNode
      OBVIOUS
    <3>3. x = m => s # side
      BY <1>12
    <3> DEFINE lx == E["left"][x]
               rx == E["right"][x]
               px == P[x]
               lb == E["left"][b]
               rb == E["right"][b]
               pb == P[b]
               pm == P[m]
    <3>4. /\ px \in Int /\ lx \in Int /\ rx \in Int /\ lx <= px /\ px <= rx
          /\ In(x) <=> lx <= pm /\ pm <= rx
          /\ P2[x] = IF px >= k THEN px + 1 ELSE px
          /\ E2["left"][x] = IF ~In(x) /\ lx >= k THEN lx + 1 ELSE lx
          /\ E2["right"][x] = IF In(x) \/ rx >= k THEN rx + 1 ELSE rx
      BY <1>10
    <3>5. /\ pb \in Int /\ lb \in Int /\ rb \in Int /\ lb <= pb /\ pb <= rb
          /\ In(b) <=> lb <= pm /\ pm <= rb
          /\ E2["left"][b] = IF ~In(b) /\ lb >= k THEN lb + 1 ELSE lb
          /\ E2["right"][b] = IF In(b) \/ rb >= k THEN rb + 1 ELSE rb
      BY <1>10, <3>1
    <3>6. /\ side = "left" => k = pm
          /\ side = "right" => k = pm + 1
          /\ pm \in Int /\ k \in Int
          /\ px = pm => s # side
      BY <1>7, <1>8, <3>3
    <3>7. /\ s = "left" => lb = lx /\ rb = px - 1
          /\ s = "right" => rb = rx /\ lb = px + 1
      BY <3>1 DEF Other, Beyond
    <3> HIDE DEF lx, rx, px, lb, rb, pb, pm, b
    <3>8. /\ s = "left" => E2["left"][b] = E2["left"][x] /\ E2["right"][b] = P2[x] - 1
          /\ s = "right" => E2["right"][b] = E2["right"][x] /\ E2["left"][b] = P2[x] + 1
      <4>1. CASE s = "left" /\ side = "left"
        BY <3>4, <3>5, <3>6, <3>7, <4>1
      <4>2. CASE s = "left" /\ side = "right"
        BY <3>4, <3>5, <3>6, <3>7, <4>2
      <4>3. CASE s = "right" /\ side = "left"
        BY <3>4, <3>5, <3>6, <3>7, <4>3
      <4>4. CASE s = "right" /\ side = "right"
        BY <3>4, <3>5, <3>6, <3>7, <4>4
      <4>5. QED
        BY <4>1, <4>2, <4>3, <4>4, SidesAre
    <3>9. E2[s][b] = E2[s][x] /\ E2[Other(s)][b] = Beyond(s, P2[x])
      BY <3>8, SidesAre DEF Other, Beyond
    <3>10. QED
      BY <2>1, <2>3, <3>9 DEF SpanAt
  <2>4. QED
    BY <2>2, <2>3
<1>13. SpanAt(u, P2, E2, m, side)
  <2>1. u.child[side][m] = n /\ n # NoNode
    BY <1>3
  <2>2. E[side][m] = P[m]
    <3>1. SpanAt(t, P, E, m, side)
      BY <1>4
    <3>2. QED
      BY <3>1 DEF SpanAt
  <2>3. E2[side][n] = E2[side][m] /\ E2[Other(side)][n] = Beyond(side, P2[m])
    <3>1. CASE side = "left"
      BY <1>8, <1>9, <1>10, <2>2, <3>1 DEF Other, Beyond
    <3>2. CASE side = "right"
      BY <1>8, <1>9, <1>10, <2>2, <3>2 DEF Other, Beyond
    <3>3. QED
      BY <3>1, <3>2, SidesAre
  <2>4. QED
    BY <2>1, <2>3 DEF SpanAt
<1>14. ASSUME NEW s \in Sides PROVE SpanAt(u, P2, E2, n, s)
  <2>1. u.child[s][n] = NoNode
    BY <1>3
  <2>2. E2[s][n] = P2[n]
    BY <1>9, SidesAre
  <2>3. QED
    BY <2>1, <2>2 DEF SpanAt
<1>15. Spans(u, S, P2, E2)
  <2>1. ASSUME NEW x \in S, NEW s \in Sides PROVE SpanAt(u, P2, E2, x, s)
    BY <1>12, <1>13, <1>14
  <2> HIDE DEF S
  <2>2. QED
    BY <1>9, <1>11, <2>1 DEF Spans
<1>16. k \in 1 .. (L + 1)
  BY <1>5, <1>8, SidesAre
<1>17. /\ q2 \in Seq(RbNodes) /\ Len(q2) = L + 1 /\ q2[k] = n
       /\ \A i \in 1 .. L : q2[IF i < k THEN i ELSE i + 1] = q[i]
  <2>1. k \in 1 .. (Len(q) + 1) /\ n \in RbNodes /\ q \in Seq(RbNodes)
    BY <1>3, <1>5, <1>16 DEF L
  <2> DEFINE v == InsertAt(q, k, n)
  <2>2. /\ v \in Seq(RbNodes) /\ Len(v) = Len(q) + 1 /\ v[k] = n
        /\ \A i \in 1 .. Len(q) : v[IF i < k THEN i ELSE i + 1] = q[i]
    BY <2>1, InsertedAt
  <2>3. q2 = v
    BY <1>9
  <2> HIDE DEF v
  <2>4. QED
    BY <2>2, <2>3 DEF L
<1>18. ASSUME NEW x \in S PROVE P2[x] \in 1 .. (L + 1) /\ q2[P2[x]] = x
  <2>1. CASE x = n
    BY <1>9, <1>16, <1>17, <2>1
  <2>2. CASE x \in T
    <3>1. P[x] \in 1 .. L /\ q[P[x]] = x /\ P2[x] = IF P[x] < k THEN P[x] ELSE P[x] + 1
      BY <1>5, <1>8, <1>10, <2>2
    <3>2. QED
      BY <1>5, <1>17, <3>1, SMTT(60)
  <2>3. QED
    BY <2>1, <2>2
<1>19. ASSUME NEW i \in 1 .. (L + 1) PROVE q2[i] \in S /\ P2[q2[i]] = i
  <2>1. CASE i = k
    BY <1>9, <1>17, <2>1
  <2>2. CASE i # k
    <3> DEFINE j == IF i < k THEN i ELSE i - 1
    <3>1. j \in 1 .. L /\ i = IF j < k THEN j ELSE j + 1
      BY <1>5, <1>8, <1>16, <2>2
    <3> HIDE DEF j
    <3>2. q2[i] = q[j] /\ q[j] \in T /\ P[q[j]] = j
      BY <1>5, <1>17, <3>1
    <3>3. P2[q[j]] = IF j >= k THEN j + 1 ELSE j
      BY <1>10, <3>2
    <3>4. P2[q2[i]] = i
      BY <1>5, <1>8, <3>1, <3>2, <3>3
    <3>5. QED
      BY <3>2, <3>4
  <2>3. QED
    BY <2>1, <2>2
<1>20. E2["left"][u.root] = 1 /\ E2["right"][u.root] = L + 1
  <2>1. In(t.root)
    BY <1>3, <1>5, <1>8, <1>10
  <2>2. QED
    BY <1>3, <1>5, <1>10, <2>1
<1>21. Lists(u, S, q2, P2, E2)
  <2> HIDE DEF S
  <2>1. QED
    BY <1>17, <1>18, <1>19, <1>20 DEF Lists
<1> HIDE DEF S
<1>22. Shape(u, S, q2, P2, E2)
  BY <1>2, <1>15, <1>21 DEF Shape
<1>23. QED
  BY <1>22 DEF S

\* q is in the order of the keys.
KeysAlong(q) == \A i, j \in 1 .. Len(q) : i <= j => KeyOf[q[i]] <= KeyOf[q[j]]

\* n comes before place k: after the equal keys.
FitsAt(q, k, n) ==
  /\ k \in 1 .. (Len(q) + 1)
  /\ \A i \in 1 .. Len(q) : /\ i < k => KeyOf[q[i]] <= KeyOf[n]
                            /\ i >= k => KeyOf[n] < KeyOf[q[i]]

\* What the descent of the caller finds for n.
Below(T, q, P, n, place) ==
  \E m \in T, side \in Sides : /\ place = <<m, side>> /\ child[side][m] = NoNode
                               /\ FitsAt(q, Gap(P, m, side), n)

\* The caller's descent finds the place of a key behind the equal ones.
LEMMA PlaceForIs ==
  ASSUME NEW T, NEW q, NEW P, NEW E, Shape(Tree, T, q, P, E), T # {}, KeysAlong(q), NEW n \in RbNodes
  PROVE  Below(T, q, P, n, PlaceFor(n))
<1> DEFINE t == Tree
           L == Len(q)
           Turn(m) == IF KeyOf[n] < KeyOf[m] THEN "left" ELSE "right"
           link == [m \in RbNodes |-> child[Turn(m)][m]]
           val == [m \in RbNodes |-> <<m, Turn(m)>>]
           W == Width(T, E)
           S == {x \in T : \A y \in T : /\ P[y] < E["left"][x] => KeyOf[y] <= KeyOf[n]
                                        /\ P[y] > E["right"][x] => KeyOf[n] < KeyOf[y]}
           walk == CHOOSE walk : walk = [m \in RbNodes |->
                     LET side == IF KeyOf[n] < KeyOf[m] THEN "left" ELSE "right"
                     IN  IF child[side][m] = NoNode THEN <<m, side>> ELSE walk[child[side][m]]]
<1>1. Linked(t, T) /\ Spans(t, T, P, E) /\ Lists(t, T, q, P, E)
  BY DEF Shape
<1>2. t.root = root /\ t.child = child
  BY DEF Tree
<1>3. /\ T \subseteq RbNodes /\ NoNode \notin RbNodes /\ root \in T
      /\ \A x \in RbNodes, s \in Sides : child[s][x] \in Pointers
      /\ \A x \in T, s \in Sides : child[s][x] # NoNode => child[s][x] \in T
      /\ \A x \in T, s \in Sides : SpanAt(t, P, E, x, s)
      /\ \A m : Turn(m) \in Sides
      /\ \A x \in RbNodes : KeyOf[x] \in Int
  <2>1. t \in Trees
    BY <1>1 DEF Linked
  <2>2. \A x \in RbNodes, s \in Sides : child[s][x] \in Pointers
    BY <1>2, <2>1, TreeSays
  <2>3. \A m : Turn(m) \in Sides
    BY SidesAre
  <2>4. \A x \in T, s \in Sides : SpanAt(t, P, E, x, s)
    BY <1>1 DEF Spans
  <2>5. T \subseteq RbNodes /\ root \in T /\ \A x \in T, s \in Sides : child[s][x] # NoNode => child[s][x] \in T
    BY <1>1, <1>2 DEF Linked
  <2>6. QED
    BY <2>2, <2>3, <2>4, <2>5, RbtreeAssumption
<1>4. /\ q \in Seq(RbNodes) /\ L \in Nat
      /\ \A x \in T : P[x] \in 1 .. L /\ q[P[x]] = x
      /\ \A i \in 1 .. L : q[i] \in T /\ P[q[i]] = i
      /\ E["left"][root] = 1 /\ E["right"][root] = L
      /\ \A i, j \in 1 .. L : i <= j => KeyOf[q[i]] <= KeyOf[q[j]]
  BY <1>1, <1>2, LenProperties DEF Lists, KeysAlong
<1>5. \A x, y \in T : P[x] <= P[y] => KeyOf[x] <= KeyOf[y]
  BY <1>4
<1> HIDE DEF L
<1>6. Descends(RbNodes, NoNode, link, W)
  <2>1. \A x \in RbNodes : link[x] = child[Turn(x)][x] /\ Turn(x) \in Sides
    BY <1>3
  <2>2. /\ \A x \in RbNodes : W[x] \in Nat
        /\ \A x \in RbNodes, s \in Sides : child[s][x] # NoNode => W[child[s][x]] < W[x]
    BY <1>1, <1>2, WidthShrinks
  <2> HIDE DEF link, W, Turn
  <2>3. QED
    BY <1>3, <2>1, <2>2 DEF Descends, Pointers
<1> HIDE DEF W
<1>7. PICK f : Walks(RbNodes, NoNode, link, val, f)
  <2> HIDE DEF link, val
  <2>1. \E f : Walks(RbNodes, NoNode, link, val, f)
    BY <1>6, WalkExists
  <2>2. QED
    BY <2>1
<1>8. ASSUME NEW g, NEW m \in RbNodes
      PROVE  (IF link[m] = NoNode THEN val[m] ELSE g[link[m]])
               = (LET side == IF KeyOf[n] < KeyOf[m] THEN "left" ELSE "right"
                  IN  IF child[side][m] = NoNode THEN <<m, side>> ELSE g[child[side][m]])
  OBVIOUS
<1>9. f = [m \in RbNodes |->
             LET side == IF KeyOf[n] < KeyOf[m] THEN "left" ELSE "right"
             IN  IF child[side][m] = NoNode THEN <<m, side>> ELSE f[child[side][m]]]
  <2>1. f = [x \in RbNodes |-> IF link[x] = NoNode THEN val[x] ELSE f[link[x]]]
    BY <1>7, Zenon DEF Walks
  <2> HIDE DEF link, val
  <2>2. QED
    BY <1>8, <2>1
<1>10. walk = [m \in RbNodes |->
                LET side == IF KeyOf[n] < KeyOf[m] THEN "left" ELSE "right"
                IN  IF child[side][m] = NoNode THEN <<m, side>> ELSE walk[child[side][m]]]
  BY <1>9, Zenon
<1>11. PlaceFor(n) = walk[root]
  BY DEF PlaceFor
<1> HIDE DEF walk
<1>12. Follows(RbNodes, NoNode, link, val, walk)
  <2>1. \A m \in RbNodes : walk[m] = LET side == IF KeyOf[n] < KeyOf[m] THEN "left" ELSE "right"
                                     IN  IF child[side][m] = NoNode THEN <<m, side>> ELSE walk[child[side][m]]
    BY <1>10
  <2> HIDE DEF link, val
  <2>2. QED
    BY <1>8, <2>1 DEF Follows
<1>13. ClosedUnder(RbNodes, NoNode, link, S) /\ root \in S
  <2>1. S \subseteq RbNodes
    BY <1>3
  <2>2. root \in S
    <3>1. ASSUME NEW y \in T PROVE ~(P[y] < E["left"][root]) /\ ~(P[y] > E["right"][root])
      BY <1>4
    <3>2. QED
      BY <1>3, <3>1
  <2>3. ASSUME NEW x \in S, link[x] # NoNode PROVE link[x] \in S
    <3> DEFINE s == Turn(x)
               b == child[s][x]
    <3>1. x \in T /\ x \in RbNodes /\ s \in Sides /\ link[x] = b /\ b # NoNode /\ b \in T
      BY <1>3, <2>3
    <3>2. /\ P[x] \in Int /\ E["left"][b] \in Int /\ E["right"][b] \in Int
          /\ s = "left" => E["left"][b] = E["left"][x] /\ E["right"][b] = P[x] - 1
          /\ s = "right" => E["left"][b] = P[x] + 1 /\ E["right"][b] = E["right"][x]
      <4> DEFINE a == s
      <4>1. a \in Sides /\ b = t.child[a][x] /\ b # NoNode
        BY <1>2, <3>1
      <4> HIDE DEF a, b
      <4>2. /\ P[x] \in Int /\ E["left"][b] \in Int /\ E["right"][b] \in Int
            /\ a = "left" => E["left"][b] = E["left"][x] /\ E["right"][b] = P[x] - 1
            /\ a = "right" => E["left"][b] = P[x] + 1 /\ E["right"][b] = E["right"][x]
        BY <1>1, <3>1, <4>1, BelowChild
      <4>3. QED
        BY <4>2 DEF a
    <3>3. \A y \in T : P[y] \in Int /\ KeyOf[y] \in Int
      BY <1>3, <1>4
    <3>4. \A y \in T : /\ P[y] < E["left"][x] => KeyOf[y] <= KeyOf[n]
                       /\ P[y] > E["right"][x] => KeyOf[n] < KeyOf[y]
      BY <2>3
    <3>5. CASE s = "left"
      <4>1. KeyOf[n] < KeyOf[x]
        BY <3>5
      <4>2. \A y \in T : P[y] < E["left"][b] => KeyOf[y] <= KeyOf[n]
        BY <3>2, <3>4, <3>5
      <4> HIDE DEF b
      <4>3. \A y \in T : P[y] > E["right"][b] => KeyOf[n] < KeyOf[y]
        <5>1. SUFFICES ASSUME NEW y \in T, P[y] > E["right"][b] PROVE KeyOf[n] < KeyOf[y]
          OBVIOUS
        <5>2. P[x] <= P[y] /\ P[y] \in Int
          BY <3>2, <3>3, <3>5, <5>1
        <5>3. KeyOf[x] <= KeyOf[y]
          BY <1>5, <3>1, <5>2
        <5>4. QED
          BY <1>3, <3>1, <3>3, <4>1, <5>3
      <4>4. QED
        BY <3>1, <4>2, <4>3
    <3>6. CASE s = "right"
      <4>1. ~(KeyOf[n] < KeyOf[x])
        BY <3>6
      <4>2. \A y \in T : P[y] > E["right"][b] => KeyOf[n] < KeyOf[y]
        BY <3>2, <3>4, <3>6
      <4> HIDE DEF b
      <4>3. \A y \in T : P[y] < E["left"][b] => KeyOf[y] <= KeyOf[n]
        <5>1. SUFFICES ASSUME NEW y \in T, P[y] < E["left"][b] PROVE KeyOf[y] <= KeyOf[n]
          OBVIOUS
        <5>2. P[y] <= P[x] /\ P[y] \in Int
          BY <3>2, <3>3, <3>6, <5>1
        <5>3. KeyOf[y] <= KeyOf[x]
          BY <1>5, <3>1, <5>2
        <5>4. QED
          BY <1>3, <3>1, <3>3, <4>1, <5>3
      <4>4. QED
        BY <3>1, <4>2, <4>3
    <3>7. QED
      BY <3>5, <3>6
  <2> HIDE DEF S, link
  <2>4. QED
    BY <2>1, <2>2, <2>3 DEF ClosedUnder
<1>14. PICK z \in S : link[z] = NoNode /\ walk[root] = val[z]
  <2> DEFINE D == RbNodes
             o == root
  <2>1. Descends(D, NoNode, link, W) /\ Follows(D, NoNode, link, val, walk) /\ ClosedUnder(D, NoNode, link, S) /\ o \in S
    BY <1>6, <1>12, <1>13
  <2> HIDE DEF link, W, val, S, D, o
  <2>2. \E z \in S : link[z] = NoNode /\ walk[o] = val[z]
    BY <2>1, WalkEnds
  <2>3. QED
    BY <2>2 DEF o
<1> DEFINE s == Turn(z)
<1>15. z \in T /\ z \in RbNodes /\ s \in Sides /\ child[s][z] = NoNode /\ PlaceFor(n) = <<z, s>>
  BY <1>3, <1>11, <1>14
<1>16. E[s][z] = P[z] /\ P[z] \in 1 .. L
  <2>1. SpanAt(t, P, E, z, s)
    BY <1>3, <1>15
  <2>2. QED
    BY <1>2, <1>4, <1>15, <2>1 DEF SpanAt
<1>17. FitsAt(q, Gap(P, z, s), n)
  <2> DEFINE k == Gap(P, z, s)
  <2>1. \A y \in T : /\ P[y] < E["left"][z] => KeyOf[y] <= KeyOf[n]
                     /\ P[y] > E["right"][z] => KeyOf[n] < KeyOf[y]
    BY <1>14
  <2>2. KeyOf[n] \in Int /\ KeyOf[z] \in Int /\ \A y \in T : KeyOf[y] \in Int /\ P[y] \in 1 .. L
    BY <1>3, <1>4, <1>15
  <2>3. CASE s = "left"
    <3>1. k = P[z] /\ KeyOf[n] < KeyOf[z] /\ E["left"][z] = P[z]
      BY <1>16, <2>3 DEF Gap
    <3>2. ASSUME NEW i \in 1 .. L PROVE (i < k => KeyOf[q[i]] <= KeyOf[n]) /\ (i >= k => KeyOf[n] < KeyOf[q[i]])
      <4>1. q[i] \in T /\ P[q[i]] = i
        BY <1>4
      <4>2. i < k => KeyOf[q[i]] <= KeyOf[n]
        BY <2>1, <3>1, <4>1
      <4>3. i >= k => KeyOf[z] <= KeyOf[q[i]]
        BY <1>5, <1>15, <1>16, <3>1, <4>1
      <4>4. QED
        BY <2>2, <3>1, <4>1, <4>2, <4>3
    <3>3. k \in 1 .. (L + 1)
      BY <1>4, <1>16, <3>1
    <3> HIDE DEF k
    <3>4. QED
      BY <3>2, <3>3 DEF FitsAt, k, L
  <2>4. CASE s = "right"
    <3>1. k = P[z] + 1 /\ ~(KeyOf[n] < KeyOf[z]) /\ E["right"][z] = P[z]
      BY <1>16, <2>4 DEF Gap
    <3>2. ASSUME NEW i \in 1 .. L PROVE (i < k => KeyOf[q[i]] <= KeyOf[n]) /\ (i >= k => KeyOf[n] < KeyOf[q[i]])
      <4>1. q[i] \in T /\ P[q[i]] = i
        BY <1>4
      <4>2. i >= k => KeyOf[n] < KeyOf[q[i]]
        BY <1>16, <2>1, <3>1, <4>1
      <4>3. i < k => KeyOf[q[i]] <= KeyOf[z]
        BY <1>5, <1>15, <1>16, <3>1, <4>1
      <4>4. QED
        BY <2>2, <3>1, <4>1, <4>2, <4>3
    <3>3. k \in 1 .. (L + 1)
      BY <1>4, <1>16, <3>1
    <3> HIDE DEF k
    <3>4. QED
      BY <3>2, <3>3 DEF FitsAt, k, L
  <2>5. QED
    BY <2>3, <2>4
<1>18. QED
  BY <1>15, <1>17 DEF Below

-----------------------------------------------------------------------------
(* Rotations and colours                                                   *)

\* n and r have each other's colour.
Swapped(R, n, r, R2) ==
  R2 \subseteq RbNodes /\ \A x \in RbNodes : x \in R2 <=> IF x = n THEN r \in R ELSE IF x = r THEN n \in R ELSE x \in R

\* What a rotation turns about: n goes down on a side, r comes up.
Pivot(t, T, n, side, r, m) ==
  n \in T /\ side \in Sides /\ r = t.child[Other(side)][n] /\ r # NoNode /\ m = t.child[side][r]

\* Who is who in a rotation.
LEMMA PivotSays ==
  ASSUME NEW t, NEW T, NEW P, NEW E, Linked(t, T), Spans(t, T, P, E), NEW n, NEW side, NEW r, NEW m,
         Pivot(t, T, n, side, r, m), NEW far, far = Other(side),
         NEW b, b = t.child[side][n], NEW c, c = t.child[far][r]
  PROVE  /\ n \in RbNodes /\ r \in T /\ r \in RbNodes /\ r # n /\ side \in Sides /\ far \in Sides /\ far # side
         /\ \A s \in Sides : s = side \/ s = far
         /\ b \in Pointers /\ m \in Pointers /\ c \in Pointers
         /\ b # n /\ b # r /\ m # n /\ m # r /\ c # n /\ c # r
         /\ (m # NoNode => m # b /\ m # c) /\ (c # NoNode => c # b)
         /\ \A x \in RbNodes, s \in Sides : t.child[s][x] = r => x = n /\ s = far
         /\ t.parent[r] = n /\ t.parent[n] # r /\ t.parent[n] # n
         /\ (b # NoNode => b \in T /\ t.parent[b] = n) /\ (m # NoNode => m \in T /\ t.parent[m] = r)
         /\ (c # NoNode => c \in T /\ t.parent[c] = r)
<1>1. n \in T /\ side \in Sides /\ r = t.child[far][n] /\ r # NoNode /\ m = t.child[side][r]
  BY DEF Pivot
<1>2. /\ t \in Trees /\ T \subseteq RbNodes /\ n \in RbNodes /\ r \in T /\ r \in RbNodes /\ far \in Sides /\ far # side
      /\ \A s \in Sides : s = side \/ s = far
  BY <1>1, SidesAre DEF Linked
<1>3. NoNode \notin RbNodes /\ b \in Pointers /\ m \in Pointers /\ c \in Pointers
  BY <1>1, <1>2, TreeSays
<1>4. \A s \in Sides : t.child[s][n] # n
  BY <1>1, <1>2, <1>3, Apart
<1>5. r # n /\ \A s \in Sides : t.child[s][r] # n /\ t.child[s][r] # r
  BY <1>1, <1>2, Apart
<1>6. \A x \in RbNodes, s \in Sides : t.child[s][x] = r => x = n /\ s = far
  BY <1>1, <1>2, OneParent, SMTT(60)
<1>7. /\ (b # NoNode => b \in T /\ t.parent[b] = n) /\ (m # NoNode => m \in T /\ t.parent[m] = r)
      /\ (c # NoNode => c \in T /\ t.parent[c] = r) /\ t.parent[r] = n
  BY <1>1, <1>2 DEF Linked
<1>8. (m # NoNode => m # b /\ m # c) /\ (c # NoNode => c # b)
  <2>1. (m # NoNode => m # b) /\ (c # NoNode => c # b)
    BY <1>5, <1>7
  <2>2. m # NoNode => m # c
    <3>1. SUFFICES ASSUME m # NoNode, m = c PROVE FALSE
      OBVIOUS
    <3>2. t.child[side][r] = t.child[far][r] /\ t.child[side][r] # NoNode
      BY <1>1, <3>1
    <3>3. QED
      BY <1>1, <1>2, <3>2, OneParent
  <2>3. QED
    BY <2>1, <2>2
<1>9. t.parent[n] # r /\ t.parent[n] # n
  <2>1. t.parent[n] # NoNode => \E s \in Sides : t.child[s][t.parent[n]] = n
    BY <1>1, HangsOnParent DEF Hangs
  <2>2. QED
    BY <1>2, <1>3, <1>4, <1>5, <2>1
<1>10. b # r
  BY <1>1, <1>2, <1>6
<1>11. QED
  BY <1>1, <1>2, <1>3, <1>4, <1>5, <1>6, <1>7, <1>8, <1>9, <1>10, Zenon

\* With the colours swapped, a red node comes up and no way has more or
\* fewer black nodes.
LEMMA SwapRedEven ==
  ASSUME NEW t, NEW T, NEW P, NEW E, Linked(t, T), Spans(t, T, P, E), NEW n, NEW side, NEW r, NEW m,
         Pivot(t, T, n, side, r, m), NEW u, Turned(t, n, side, r, m, u),
         NEW R, NEW R2, Swapped(R, n, r, R2), r \in R,
         NEW H, NEW lp, NEW ls, Even(t, T, R, H, lp, ls), lp # r, ~(lp = n /\ ls = Other(side))
  PROVE  \E H2 : Even(u, T, R2, H2, lp, ls)
<1> DEFINE far == Other(side)
           b == t.child[side][n]
           c == t.child[far][r]
           H2 == [x \in Pointers |-> IF x = n THEN H[r] ELSE IF x = r THEN H[n] ELSE H[x]]
<1>1. /\ n \in RbNodes /\ r \in T /\ r \in RbNodes /\ r # n /\ side \in Sides /\ far \in Sides /\ far # side
      /\ \A s \in Sides : s = side \/ s = far
      /\ b \in Pointers /\ m \in Pointers /\ c \in Pointers
      /\ b # n /\ b # r /\ m # n /\ m # r /\ c # n /\ c # r
      /\ \A x \in RbNodes, s \in Sides : t.child[s][x] = r => x = n /\ s = far
  BY PivotSays
<1>2. n \in T /\ r = t.child[far][n] /\ m = t.child[side][r] /\ T \subseteq RbNodes /\ NoNode \notin RbNodes
  BY RbtreeAssumption DEF Pivot, Linked
<1>3. /\ \A x \in Pointers : H[x] \in Nat
      /\ H[NoNode] = 0
      /\ \A x \in T, s \in Sides : H[t.child[s][x]] + Weight(R, x) + Lack(x, s, lp, ls) = H[x]
  BY DEF Even
<1>4. \A x \in RbNodes, s \in Sides :
        u.child[s][x] = IF x = n THEN IF s = side THEN t.child[s][n] ELSE m
                        ELSE IF x = r THEN IF s = side THEN n ELSE t.child[s][r]
                        ELSE IF t.child[s][x] = n THEN r ELSE t.child[s][x]
  BY Zenon DEF Turned
<1> HIDE DEF far, b, c
<1>5. H2 \in [Pointers -> Nat] /\ \A x \in Pointers : H2[x] = IF x = n THEN H[r] ELSE IF x = r THEN H[n] ELSE H[x]
  <2>1. H[n] \in Nat /\ H[r] \in Nat
    BY <1>1, <1>3 DEF Pointers
  <2>2. \A x \in Pointers : (IF x = n THEN H[r] ELSE IF x = r THEN H[n] ELSE H[x]) \in Nat
    BY <1>3, <2>1
  <2>3. QED
    BY <2>2
<1> HIDE DEF H2
<1>6. H2[NoNode] = 0 /\ H2[n] = H[r] /\ H2[r] = H[n] /\ H2[b] = H[b] /\ H2[m] = H[m] /\ H2[c] = H[c]
  BY <1>1, <1>2, <1>3, <1>5 DEF Pointers
<1>7. /\ \A x : x # n /\ x # r => Weight(R2, x) = Weight(R, x) \/ x \notin RbNodes
      /\ Weight(R2, n) = 0 /\ Weight(R2, r) = Weight(R, n) /\ Weight(R, r) = 0
  BY <1>1 DEF Swapped, Weight
<1>8. /\ H[b] \in Nat /\ H[m] \in Nat /\ H[c] \in Nat /\ H[n] \in Nat /\ H[r] \in Nat
  BY <1>1, <1>3 DEF Pointers
<1>9. \A x, s : Lack(x, s, lp, ls) \in Nat
  BY LackIs
<1>10. /\ H[b] + Weight(R, n) + Lack(n, side, lp, ls) = H[n] /\ H[r] + Weight(R, n) = H[n]
       /\ H[m] = H[r] /\ H[c] = H[r]
  <2>1. /\ H[b] + Weight(R, n) + Lack(n, side, lp, ls) = H[n] /\ H[r] + Weight(R, n) + Lack(n, far, lp, ls) = H[n]
        /\ H[m] + Weight(R, r) + Lack(r, side, lp, ls) = H[r] /\ H[c] + Weight(R, r) + Lack(r, far, lp, ls) = H[r]
    BY <1>1, <1>2, <1>3 DEF b, c
  <2>2. Lack(n, far, lp, ls) = 0 /\ Lack(r, side, lp, ls) = 0 /\ Lack(r, far, lp, ls) = 0
    BY LackIs DEF far
  <2>3. Weight(R, n) \in Nat
    BY WeightIs
  <2>4. QED
    BY <1>7, <1>8, <2>1, <2>2, <2>3, SMTT(60)
<1>11. Weight(R, n) \in Nat /\ Weight(R2, n) = 0 /\ Weight(R2, r) = Weight(R, n)
       /\ Lack(n, far, lp, ls) = 0 /\ Lack(r, side, lp, ls) = 0 /\ Lack(r, far, lp, ls) = 0
       /\ Lack(n, side, lp, ls) \in Nat
  BY <1>7, LackIs, WeightIs DEF far
<1>12. ASSUME NEW x \in T, NEW s \in Sides
       PROVE  H2[u.child[s][x]] + Weight(R2, x) + Lack(x, s, lp, ls) = H2[x]
  <2>1. x \in RbNodes
    BY <1>2
  <2>2. CASE x = n
    <3>1. CASE s = side
      <4>1. u.child[s][x] = b
        BY <1>4, <2>1, <2>2, <3>1 DEF b
      <4>2. H[b] + 0 + Lack(n, side, lp, ls) = H[r]
        BY <1>8, <1>10, <1>11
      <4>3. QED
        BY <1>6, <1>11, <2>2, <3>1, <4>1, <4>2
    <3>2. CASE s = far
      <4>1. u.child[s][x] = m
        BY <1>1, <1>4, <2>1, <2>2, <3>2
      <4>2. QED
        BY <1>6, <1>8, <1>10, <1>11, <2>2, <3>2, <4>1
    <3>3. QED
      BY <1>1, <3>1, <3>2
  <2>3. CASE x = r
    <3>1. CASE s = side
      <4>1. u.child[s][x] = n
        BY <1>1, <1>4, <2>1, <2>3, <3>1
      <4>2. QED
        BY <1>6, <1>8, <1>10, <1>11, <2>3, <3>1, <4>1
    <3>2. CASE s = far
      <4>1. u.child[s][x] = c
        BY <1>1, <1>4, <2>1, <2>3, <3>2 DEF c
      <4>2. QED
        BY <1>6, <1>8, <1>10, <1>11, <2>3, <3>2, <4>1
    <3>3. QED
      BY <1>1, <3>1, <3>2
  <2>4. CASE x # n /\ x # r
    <3> DEFINE y == t.child[s][x]
    <3>1. H[y] + Weight(R, x) + Lack(x, s, lp, ls) = H[x] /\ Weight(R2, x) = Weight(R, x) /\ H2[x] = H[x]
      BY <1>3, <1>5, <1>7, <2>1, <2>4 DEF Pointers
    <3>2. u.child[s][x] = IF y = n THEN r ELSE y
      BY <1>4, <2>1, <2>4
    <3>3. y # r /\ y \in Pointers
      BY <1>1, <2>1, <2>4, TreeSays DEF Linked
    <3>4. H2[u.child[s][x]] = H[y]
      BY <1>5, <1>6, <3>2, <3>3
    <3>5. QED
      BY <3>1, <3>4
  <2>5. QED
    BY <2>2, <2>3, <2>4
<1>13. Even(u, T, R2, H2, lp, ls)
  BY <1>5, <1>6, <1>12 DEF Even
<1>14. QED
  BY <1>13

\* ... nor does a red node get a red parent, if the children that change hands
\* are black.
LEMMA SwapRedRule ==
  ASSUME NEW t, NEW T, NEW P, NEW E, Linked(t, T), Spans(t, T, P, E), NEW n, NEW side, NEW r, NEW m,
         Pivot(t, T, n, side, r, m), NEW u, Turned(t, n, side, r, m, u),
         NEW R, R \subseteq T, NEW R2, Swapped(R, n, r, R2), r \in R,
         NEW A, NEW A2, RedRule(t, R, A), n \notin A, A \subseteq A2 \cup {r}, n \in R => n \in A2,
         m \notin R, t.child[side][n] \notin R
  PROVE  RedRule(u, R2, A2)
<1> DEFINE far == Other(side)
           b == t.child[side][n]
<1>1. /\ n \in RbNodes /\ r \in T /\ r \in RbNodes /\ r # n /\ side \in Sides /\ far \in Sides /\ far # side
      /\ \A s \in Sides : s = side \/ s = far
      /\ m # n /\ m # r
      /\ t.parent[r] = n /\ t.parent[n] # r /\ t.parent[n] # n
  BY PivotSays
<1>2. n \in T /\ r = t.child[far][n] /\ m = t.child[side][r] /\ T \subseteq RbNodes
  BY DEF Pivot, Linked
<1>3. /\ u.root = IF t.root = n THEN r ELSE t.root
      /\ \A x \in RbNodes : u.parent[x] = IF x = n THEN r ELSE IF x = r THEN t.parent[n]
                                         ELSE IF x = m THEN n ELSE t.parent[x]
  BY DEF Turned
<1>4. \A x \in RbNodes : x \in R2 <=> IF x = n THEN r \in R ELSE IF x = r THEN n \in R ELSE x \in R
  BY DEF Swapped
<1>5. \A x \in R \ A : x # t.root /\ t.parent[x] \notin R
  BY DEF RedRule
<1>6. \A x \in T, y \in RbNodes : t.parent[x] = y => \E s \in Sides : t.child[s][y] = x
  <2>1. NoNode \notin RbNodes
    BY RbtreeAssumption
  <2>2. QED
    BY <2>1 DEF Linked
<1>7. SUFFICES ASSUME NEW x \in R2, x \notin A2 PROVE x # u.root /\ u.parent[x] \notin R2
  BY DEF RedRule
<1>8. x \in RbNodes /\ R2 \subseteq RbNodes
  BY DEF Swapped
<1>9. CASE x = n
  <2>1. n \notin R
    BY <1>7, <1>9
  <2>2. r \notin R2 /\ u.parent[n] = r
    BY <1>1, <1>3, <1>4, <2>1
  <2>3. u.root # n
    BY <1>1, <1>3
  <2>4. QED
    BY <1>9, <2>2, <2>3
<1>10. CASE x = r
  <2>1. n \in R
    BY <1>1, <1>4, <1>7, <1>10
  <2>2. n # t.root /\ t.parent[n] \notin R
    BY <1>5, <2>1
  <2>3. u.parent[r] = t.parent[n] /\ u.root = t.root
    BY <1>1, <1>3, <2>2
  <2>4. r # t.root
    <3>1. n # NoNode /\ (r = t.root => t.parent[r] = NoNode)
      BY <1>1, RbtreeAssumption DEF Linked
    <3>2. QED
      BY <1>1, <3>1
  <2>5. t.parent[n] \notin R2
    BY <1>1, <1>4, <1>8, <2>2
  <2>6. QED
    BY <1>10, <2>3, <2>4, <2>5
<1>11. CASE x # n /\ x # r
  <2>1. x \in R
    BY <1>4, <1>7, <1>8, <1>11
  <2>2. x \notin A /\ x \in T /\ x # m
    BY <1>7, <1>11, <2>1
  <2>3. x # t.root /\ t.parent[x] \notin R
    BY <1>5, <2>1, <2>2
  <2>4. u.parent[x] = t.parent[x] /\ x # u.root
    BY <1>3, <1>8, <1>11, <2>2, <2>3, Zenon
  <2>5. t.parent[x] # n
    <3>1. SUFFICES ASSUME t.parent[x] = n PROVE FALSE
      OBVIOUS
    <3>2. PICK s \in Sides : t.child[s][n] = x
      BY <1>1, <1>6, <2>2, <3>1
    <3>3. QED
      BY <1>1, <1>2, <1>11, <2>1, <3>2
  <2>6. t.parent[x] # r
    BY <2>3
  <2>7. t.parent[x] \notin R2
    BY <1>4, <1>8, <2>3, <2>5, <2>6
  <2>8. QED
    BY <2>4, <2>7
<1>12. QED
  BY <1>9, <1>10, <1>11

\* The last rotation of a deletion: n is black after it, r has its colour, and
\* the far child c of r, red before it, is black.
Levelled(R, n, r, c, R2) ==
  R2 \subseteq RbNodes /\ \A x \in RbNodes : x \in R2 <=> x # n /\ x # c /\ (IF x = r THEN n \in R ELSE x \in R)

\* It gives the way through the near child of n the black node it lacks.
LEMMA LevelledEven ==
  ASSUME NEW t, NEW T, NEW P, NEW E, Linked(t, T), Spans(t, T, P, E), NEW n, NEW side, NEW r, NEW m,
         Pivot(t, T, n, side, r, m), NEW u, Turned(t, n, side, r, m, u),
         NEW c, c = t.child[Other(side)][r],
         NEW R, NEW R2, Levelled(R, n, r, c, R2), r \notin R, c \in R, c # NoNode,
         NEW H, Even(t, T, R, H, n, side)
  PROVE  \E H2 : Even(u, T, R2, H2, NoNode, "left")
<1> DEFINE far == Other(side)
           b == t.child[side][n]
           H2 == [x \in Pointers |-> IF x = n THEN H[r] ELSE IF x = r THEN H[n] ELSE IF x = c THEN H[c] + 1 ELSE H[x]]
<1>1. /\ n \in RbNodes /\ r \in T /\ r \in RbNodes /\ r # n /\ side \in Sides /\ far \in Sides /\ far # side
      /\ \A s \in Sides : s = side \/ s = far
      /\ b \in Pointers /\ m \in Pointers /\ c \in Pointers
      /\ b # n /\ b # r /\ m # n /\ m # r /\ c # n /\ c # r
      /\ (m # NoNode => m # b /\ m # c) /\ c # b /\ c \in T
      /\ \A x \in RbNodes, s \in Sides : t.child[s][x] = r => x = n /\ s = far
  BY PivotSays, SMTT(60)
<1>2. n \in T /\ r = t.child[far][n] /\ m = t.child[side][r] /\ T \subseteq RbNodes /\ NoNode \notin RbNodes /\ m # c
  BY <1>1, RbtreeAssumption DEF Pivot, Linked
<1>3. /\ \A x \in Pointers : H[x] \in Nat
      /\ H[NoNode] = 0
      /\ \A x \in T, s \in Sides : H[t.child[s][x]] + Weight(R, x) + Lack(x, s, n, side) = H[x]
  BY DEF Even
<1>4. \A x \in RbNodes, s \in Sides :
        u.child[s][x] = IF x = n THEN IF s = side THEN t.child[s][n] ELSE m
                        ELSE IF x = r THEN IF s = side THEN n ELSE t.child[s][r]
                        ELSE IF t.child[s][x] = n THEN r ELSE t.child[s][x]
  BY DEF Turned
<1>5. \A x \in RbNodes, s \in Sides : t.child[s][x] = c => x = r
  <2>1. far \in Sides /\ t.child[far][r] = c
    BY <1>1
  <2>2. QED
    BY <1>1, <2>1, OneParent
<1> HIDE DEF far, b
<1>6. c = t.child[far][r]
  BY DEF far
<1>7. H2 \in [Pointers -> Nat]
      /\ \A x \in Pointers : H2[x] = IF x = n THEN H[r] ELSE IF x = r THEN H[n] ELSE IF x = c THEN H[c] + 1 ELSE H[x]
  <2>1. H[r] \in Nat /\ H[n] \in Nat /\ H[c] \in Nat
    BY <1>1, <1>3 DEF Pointers
  <2>2. H[c] + 1 \in Nat
    BY <2>1
  <2>3. QED
    BY <1>3, <2>1, <2>2
<1> HIDE DEF H2
<1>8. H2[NoNode] = 0 /\ H2[n] = H[r] /\ H2[r] = H[n] /\ H2[b] = H[b] /\ H2[m] = H[m] /\ H2[c] = H[c] + 1
  BY <1>1, <1>2, <1>3, <1>7, ZenonT(30) DEF Pointers
<1>9. /\ \A x \in RbNodes : x # n /\ x # r /\ x # c => Weight(R2, x) = Weight(R, x)
      /\ Weight(R2, n) = 1 /\ Weight(R2, r) = Weight(R, n) /\ Weight(R, r) = 1
      /\ Weight(R2, c) = 1 /\ Weight(R, c) = 0 /\ Weight(R, n) \in Nat
  BY <1>1, <1>2 DEF Levelled, Weight
<1>10. H[b] \in Nat /\ H[m] \in Nat /\ H[c] \in Nat /\ H[n] \in Nat /\ H[r] \in Nat
  BY <1>1, <1>3, Zenon DEF Pointers
<1>11. /\ Lack(n, side, n, side) = 1 /\ Lack(n, far, n, side) = 0
       /\ \A s \in Sides, x \in T : x # n => Lack(x, s, n, side) = 0
       /\ \A s \in Sides, x \in T : Lack(x, s, NoNode, "left") = 0
  BY <1>1, <1>2, LackIs
<1>12. H[b] + 1 + Weight(R, n) = H[n] /\ H[r] + Weight(R, n) = H[n] /\ H[m] + 1 = H[r] /\ H[c] + 1 = H[r]
  <2>1. /\ H[b] + Weight(R, n) + Lack(n, side, n, side) = H[n] /\ H[r] + Weight(R, n) + Lack(n, far, n, side) = H[n]
        /\ H[m] + Weight(R, r) + Lack(r, side, n, side) = H[r] /\ H[c] + Weight(R, r) + Lack(r, far, n, side) = H[r]
    BY <1>1, <1>2, <1>3, <1>6, Zenon DEF b
  <2>2. Lack(r, side, n, side) = 0 /\ Lack(r, far, n, side) = 0
    BY <1>1, <1>11
  <2>3. QED
    BY <1>9, <1>10, <1>11, <2>1, <2>2
<1>13. ASSUME NEW x \in T, NEW s \in Sides
       PROVE  H2[u.child[s][x]] + Weight(R2, x) + 0 = H2[x]
  <2>1. x \in RbNodes
    BY <1>2
  <2>2. CASE x = n
    <3>1. CASE s = side
      <4>1. u.child[s][x] = b
        BY <1>4, <2>1, <2>2, <3>1 DEF b
      <4>2. QED
        BY <1>8, <1>9, <1>10, <1>12, <2>2, <4>1
    <3>2. CASE s = far
      <4>1. u.child[s][x] = m
        BY <1>1, <1>4, <2>1, <2>2, <3>2
      <4>2. QED
        BY <1>8, <1>9, <1>10, <1>12, <2>2, <4>1
    <3>3. QED
      BY <1>1, <3>1, <3>2
  <2>3. CASE x = r
    <3>1. CASE s = side
      <4>1. u.child[s][x] = n
        BY <1>1, <1>4, <2>1, <2>3, <3>1
      <4>2. QED
        BY <1>8, <1>9, <1>10, <1>12, <2>3, <4>1
    <3>2. CASE s = far
      <4>1. u.child[s][x] = c
        BY <1>1, <1>4, <1>6, <2>1, <2>3, <3>2
      <4>2. QED
        BY <1>8, <1>9, <1>10, <1>12, <2>3, <4>1
    <3>3. QED
      BY <1>1, <3>1, <3>2
  <2>4. CASE x # n /\ x # r
    <3> DEFINE y == t.child[s][x]
    <3>1. u.child[s][x] = IF y = n THEN r ELSE y
      BY <1>4, <2>1, <2>4
    <3>2. y # r /\ y # c /\ y \in Pointers
      BY <1>1, <1>5, <2>1, <2>4, TreeSays DEF Linked
    <3>3. H2[u.child[s][x]] = H[y]
      BY <1>7, <1>8, <3>1, <3>2
    <3>4. H[y] + Weight(R, x) + 0 = H[x]
      BY <1>3, <1>11, <2>4
    <3>5. H[y] \in Nat /\ H[x] \in Nat
      BY <1>3, <2>1, <3>2 DEF Pointers
    <3> HIDE DEF y
    <3>6. CASE x = c
      BY <1>8, <1>9, <3>3, <3>4, <3>5, <3>6
    <3>7. CASE x # c
      <4>1. H2[x] = H[x] /\ Weight(R2, x) = Weight(R, x)
        BY <1>7, <1>9, <2>1, <2>4, <3>7 DEF Pointers
      <4>2. QED
        BY <3>3, <3>4, <4>1
    <3>8. QED
      BY <3>6, <3>7
  <2>5. QED
    BY <2>2, <2>3, <2>4
<1>14. Even(u, T, R2, H2, NoNode, "left")
  BY <1>7, <1>8, <1>11, <1>13 DEF Even
<1>15. QED
  BY <1>14

\* ... and no red node is the root, or below a red one.
LEMMA LevelledRedRule ==
  ASSUME NEW t, NEW T, NEW P, NEW E, Linked(t, T), Spans(t, T, P, E), NEW n, NEW side, NEW r, NEW m,
         Pivot(t, T, n, side, r, m), NEW u, Turned(t, n, side, r, m, u),
         NEW c, c = t.child[Other(side)][r],
         NEW R, R \subseteq T, NEW R2, Levelled(R, n, r, c, R2), r \notin R, RedRule(t, R, {})
  PROVE  RedRule(u, R2, {}) /\ u.root \notin R2
<1> DEFINE far == Other(side)
<1>1. /\ n \in RbNodes /\ r \in T /\ r \in RbNodes /\ r # n /\ side \in Sides /\ far \in Sides /\ far # side
      /\ \A s \in Sides : s = side \/ s = far
      /\ m # n /\ m # r
      /\ t.parent[r] = n /\ t.parent[n] # r /\ t.parent[n] # n
      /\ (m # NoNode => m \in T /\ t.parent[m] = r)
  BY PivotSays
<1>2. n \in T /\ r = t.child[far][n] /\ m = t.child[side][r] /\ T \subseteq RbNodes
  BY DEF Pivot, Linked
<1>3. /\ u.root = IF t.root = n THEN r ELSE t.root
      /\ \A x \in RbNodes : u.parent[x] = IF x = n THEN r ELSE IF x = r THEN t.parent[n]
                                         ELSE IF x = m THEN n ELSE t.parent[x]
  BY DEF Turned
<1>4. R2 \subseteq RbNodes /\ \A x \in RbNodes : x \in R2 <=> x # n /\ x # c /\ (IF x = r THEN n \in R ELSE x \in R)
  BY DEF Levelled
<1>5. \A x \in R : x # t.root /\ t.parent[x] \notin R
  BY DEF RedRule
<1>6. \A x \in T, y \in RbNodes : t.parent[x] = y => \E s \in Sides : t.child[s][y] = x
  <2>1. NoNode \notin RbNodes
    BY RbtreeAssumption
  <2>2. QED
    BY <2>1 DEF Linked
<1>7. r # t.root
  <2>1. n # NoNode /\ (r = t.root => t.parent[r] = NoNode)
    BY <1>1, RbtreeAssumption DEF Linked
  <2>2. QED
    BY <1>1, <2>1
<1>8. ASSUME NEW x \in R2 PROVE x # u.root /\ u.parent[x] \notin R2
  <2>1. x \in RbNodes /\ x # n /\ x # c
    BY <1>4
  <2>2. CASE x = r
    <3>1. n \in R
      BY <1>1, <1>4, <2>2
    <3>2. n # t.root /\ t.parent[n] \notin R
      BY <1>5, <3>1
    <3>3. u.parent[r] = t.parent[n] /\ u.root = t.root
      BY <1>1, <1>3, <3>2
    <3>4. t.parent[n] \notin R2
      BY <1>1, <1>4, <3>2
    <3>5. QED
      BY <1>7, <2>2, <3>3, <3>4
  <2>3. CASE x # r
    <3>1. x \in R
      BY <1>4, <2>1, <2>3
    <3>2. x # t.root /\ t.parent[x] \notin R /\ x # u.root /\ x \in T
      BY <1>3, <1>5, <2>3, <3>1
    <3>3. CASE x = m
      <4>1. u.parent[x] = n
        BY <1>3, <2>1, <2>3, <3>3
      <4>2. n \notin R2
        BY <1>1, <1>4
      <4>3. QED
        BY <3>2, <4>1, <4>2
    <3>4. CASE x # m
      <4>1. u.parent[x] = t.parent[x]
        BY <1>3, <2>1, <2>3, <3>4
      <4>2. t.parent[x] # r
        <5>1. SUFFICES ASSUME t.parent[x] = r PROVE FALSE
          OBVIOUS
        <5>2. PICK s \in Sides : t.child[s][r] = x
          BY <1>1, <1>6, <3>2, <5>1, Zenon
        <5>3. s = far
          BY <1>1, <1>2, <3>4, <5>2
        <5>4. QED
          BY <2>1, <5>2, <5>3
      <4>3. t.parent[x] \notin R2
        BY <1>4, <3>2, <4>2
      <4>4. QED
        BY <3>2, <4>1, <4>3
    <3>5. QED
      BY <3>3, <3>4
  <2>4. QED
    BY <2>2, <2>3
<1>9. u.root \notin R2
  BY <1>8
<1>10. QED
  BY <1>8, <1>9 DEF RedRule

-----------------------------------------------------------------------------
(* Insertion                                                               *)

\* The tree has the nodes of T in the order q, that of the keys.
Ordered(t, T, q) == KeysAlong(q) /\ \E P, E : Shape(t, T, q, P, E)

\* Between operations.
AtRest(t, T, R) == RedRule(t, R, {}) /\ \E H : Even(t, T, R, H, NoNode, "left")

\* Only the loop's node may be a red root, or have a red parent.
Inserting(t, T, R, a) == a \in R /\ RedRule(t, R, {a}) /\ \E H : Even(t, T, R, H, NoNode, "left")

\* A rotation keeps the order of the nodes.
LEMMA TurnKeepsOrder ==
  ASSUME NEW t, NEW T, NEW q, Ordered(t, T, q), NEW n, NEW side, NEW r, NEW m, Pivot(t, T, n, side, r, m),
         NEW u, Turned(t, n, side, r, m, u)
  PROVE  Ordered(u, T, q)
<1>1. PICK P, E : Shape(t, T, q, P, E)
  BY DEF Ordered
<1>2. n \in T /\ side \in Sides /\ r = t.child[Other(side)][n] /\ r # NoNode /\ m = t.child[side][r]
  BY DEF Pivot
<1>3. E \in [Sides -> [RbNodes -> Int]] /\ P \in [RbNodes -> Int] /\ n \in RbNodes /\ r \in RbNodes
  <2>1. Linked(t, T) /\ Spans(t, T, P, E)
    BY <1>1, Zenon DEF Shape
  <2>2. r \in T /\ T \subseteq RbNodes
    BY <1>2, <2>1, SidesAre DEF Linked
  <2>3. QED
    BY <1>2, <2>1, <2>2 DEF Spans
<1>4. PICK F : TurnedEdges(E, P, n, side, r, F)
  BY <1>2, <1>3, TurnedEdgesExist
<1>5. Shape(u, T, q, P, F)
  BY <1>1, <1>2, <1>4, TurnKeepsShape
<1>6. QED
  BY <1>5 DEF Ordered

\* What a rotation does.
LEMMA RotateIs ==
  ASSUME NEW t, NEW T, NEW q, Ordered(t, T, q), NEW n \in T, NEW side \in Sides,
         NEW r, r = t.child[Other(side)][n], r # NoNode, NEW m, m = t.child[side][r], NEW u, u = Rotate(t, n, side)
  PROVE  Pivot(t, T, n, side, r, m) /\ Turned(t, n, side, r, m, u) /\ Ordered(u, T, q)
<1>1. PICK P, E : Linked(t, T) /\ Spans(t, T, P, E)
  BY DEF Ordered, Shape
<1>2. Turned(t, n, side, r, m, u)
  BY <1>1, RotateFields
<1>3. Pivot(t, T, n, side, r, m)
  BY DEF Pivot
<1>4. QED
  BY <1>2, <1>3, TurnKeepsOrder

\* An ordered tree and its nodes.
LEMMA OrderedTree ==
  ASSUME NEW t, NEW T, NEW q, Ordered(t, T, q)
  PROVE  /\ t \in Trees /\ T \subseteq RbNodes /\ NoNode \notin RbNodes /\ NoNode \notin T /\ t.root \in Pointers
         /\ T # {} => t.root \in T
         /\ T = {} => t.root = NoNode
<1>1. PICK P, E : Linked(t, T)
  BY DEF Ordered, Shape
<1>2. QED
  BY <1>1, RbtreeAssumption DEF Linked, Trees

\* A child and its parent.
LEMMA ChildSays ==
  ASSUME NEW t, NEW T, NEW q, Ordered(t, T, q), NEW x \in RbNodes, NEW s \in Sides,
         NEW c, c = t.child[s][x], c # NoNode
  PROVE  x \in T /\ c \in T /\ c \in RbNodes /\ t.parent[c] = x /\ c # x
<1>1. PICK P, E : Linked(t, T) /\ Spans(t, T, P, E)
  BY DEF Ordered, Shape
<1>2. x \in T /\ c \in T /\ t.parent[c] = x /\ c \in RbNodes
  BY <1>1 DEF Linked
<1>3. c # x
  BY <1>1, <1>2, Apart
<1>4. QED
  BY <1>2, <1>3

\* The children of a node differ.
LEMMA ChildrenDiffer ==
  ASSUME NEW t, NEW T, NEW q, Ordered(t, T, q), NEW x \in RbNodes, NEW s \in Sides,
         NEW c, c = t.child[s][x], c # NoNode, NEW o, o = t.child[Other(s)][x]
  PROVE  c # o
<1>1. PICK P, E : Linked(t, T) /\ Spans(t, T, P, E)
  BY DEF Ordered, Shape
<1>2. Other(s) \in Sides /\ Other(s) # s
  BY SidesAre
<1>3. QED
  BY <1>1, <1>2, OneParent

\* A node and its parent.
LEMMA NodeSays ==
  ASSUME NEW t, NEW T, NEW q, Ordered(t, T, q), NEW x \in T, NEW p, p = t.parent[x]
  PROVE  /\ x \in RbNodes /\ p \in Pointers /\ p # x
         /\ x = t.root => p = NoNode
         /\ x # t.root => p # NoNode /\ p \in T /\ p \in RbNodes
<1>1. PICK P, E : Linked(t, T) /\ Spans(t, T, P, E)
  BY DEF Ordered, Shape
<1>2. t \in Trees /\ T \subseteq RbNodes /\ NoNode \notin RbNodes /\ x \in RbNodes
  BY <1>1, RbtreeAssumption DEF Linked
<1>3. p \in Pointers
  BY <1>2, TreeSays
<1>4. x = t.root <=> p = NoNode
  BY <1>1 DEF Linked
<1>5. x # t.root => p \in T /\ \E s \in Sides : t.child[s][p] = x
  BY <1>1 DEF Linked
<1>6. x # t.root => p # x
  <2>1. SUFFICES ASSUME x # t.root PROVE p # x
    OBVIOUS
  <2>2. PICK s \in Sides : t.child[s][p] = x
    BY <1>5, <2>1
  <2>3. p \in RbNodes /\ x # NoNode
    BY <1>2, <1>5, <2>1
  <2> DEFINE c == t.child[s][p]
  <2>4. c # p
    BY <2>2, <2>3, ChildSays
  <2>5. QED
    BY <2>2, <2>4
<1>7. QED
  BY <1>2, <1>3, <1>4, <1>5, <1>6

\* The side of its parent that a node is on.
LEMMA SideSays ==
  ASSUME NEW t, NEW T, NEW q, Ordered(t, T, q), NEW x \in T, NEW p, p = t.parent[x], p # NoNode,
         NEW s, s = SideOf(t, x, p)
  PROVE  s \in Sides /\ t.child[s][p] = x
<1>1. PICK P, E : Linked(t, T) /\ Spans(t, T, P, E)
  BY DEF Ordered, Shape
<1>2. x # t.root /\ p \in RbNodes
  BY NodeSays
<1>3. PICK a \in Sides : t.child[a][p] = x
  BY <1>1, <1>2 DEF Linked
<1>4. Hangs(t, x, p)
  BY <1>1, HangsOnParent
<1>5. a = s
  BY <1>2, <1>3, <1>4 DEF Hangs
<1>6. QED
  BY <1>3, <1>5

\* ... is the one where it is found.
LEMMA SideIs ==
  ASSUME NEW t, NEW T, NEW q, Ordered(t, T, q), NEW p \in RbNodes, NEW s \in Sides,
         NEW x, x = t.child[s][p], x # NoNode
  PROVE  SideOf(t, x, p) = s
<1>1. PICK P, E : Linked(t, T) /\ Spans(t, T, P, E)
  BY DEF Ordered, Shape
<1>2. x \in T /\ t.parent[x] = p
  BY ChildSays
<1>3. Hangs(t, x, p)
  BY <1>1, <1>2, HangsOnParent
<1>4. QED
  BY <1>3 DEF Hangs

\* A node, its parent, its grandparent and its uncle in the loop of rb_insert_color.
Kin(t, T, R, a, p, g, s, far, y) ==
  /\ a \in R /\ a \in T /\ p \in T /\ g \in T /\ g \notin R /\ a # p /\ p # g /\ g # a
  /\ a # t.root /\ p # t.root /\ NoNode \notin T /\ g \in RbNodes /\ a \in RbNodes /\ p \in RbNodes
  /\ s \in Sides /\ far \in Sides /\ far # s /\ s = Other(far) /\ t.child[s][g] = p /\ y # p /\ y # g
  /\ y # NoNode => y \in T /\ t.parent[y] = g

\* They are different nodes where they should be.
LEMMA KinSays ==
  ASSUME NEW t, NEW T, NEW q, Ordered(t, T, q), NEW R, R \subseteq T, NEW a, Inserting(t, T, R, a),
         NEW p, t.parent[a] = p, p \in R, NEW g, t.parent[p] = g, NEW s, SideOf(t, p, g) = s,
         NEW far, Other(s) = far, NEW y, t.child[far][g] = y
  PROVE  Kin(t, T, R, a, p, g, s, far, y)
<1>1. a \in R /\ a \in T /\ p \in T /\ \A x \in R : x # a => x # t.root /\ t.parent[x] \notin R
  BY DEF Inserting, RedRule
<1>2. NoNode \notin T /\ T \subseteq RbNodes
  BY OrderedTree
<1>3. p # NoNode
  BY <1>1, <1>2
<1>4. a # t.root /\ p # a
  BY <1>1, <1>3, NodeSays
<1>5. p # t.root /\ g \notin R
  BY <1>1, <1>4
<1>6. g \in T /\ g # NoNode /\ g # p
  BY <1>1, <1>5, NodeSays
<1>7. s \in Sides /\ t.child[s][g] = p
  BY <1>1, <1>6, SideSays
<1>8. far \in Sides /\ far # s /\ s = Other(far)
  BY <1>7, SidesAre
<1>9. g \in RbNodes /\ p # NoNode
  BY <1>2, <1>3, <1>6
<1>10. y # p
  BY <1>7, <1>9, ChildrenDiffer
<1>11. y # NoNode => y \in T /\ t.parent[y] = g /\ y # g
  <2>1. SUFFICES ASSUME y # NoNode PROVE y \in T /\ t.parent[y] = g /\ y # g
    OBVIOUS
  <2> DEFINE x == g
             b == far
  <2>2. x \in RbNodes /\ b \in Sides /\ y = t.child[b][x]
    BY <1>8, <1>9
  <2> HIDE DEF x, b
  <2>3. y \in T /\ t.parent[y] = x /\ y # x
    BY <2>1, <2>2, ChildSays
  <2>4. QED
    BY <2>3 DEF x
<1>12. y # g
  BY <1>6, <1>11
<1>13. a \in RbNodes /\ p \in RbNodes /\ g # a
  BY <1>1, <1>2, <1>5
<1>14. QED
  BY <1>1, <1>2, <1>4, <1>5, <1>6, <1>7, <1>8, <1>9, <1>10, <1>11, <1>12, <1>13 DEF Kin

\* The loop of rb_insert_color is at a, below p and g; s is the side of p, and
\* the uncle y is on the other.
Family(t, T, q, R, a, p, g, s, far, y) ==
  /\ Ordered(t, T, q) /\ R \subseteq T /\ Inserting(t, T, R, a) /\ p \in R
  /\ t.parent[a] = p /\ t.parent[p] = g /\ SideOf(t, p, g) = s /\ Other(s) = far /\ t.child[far][g] = y

\* They are different nodes where they should be.
LEMMA FamilySays ==
  ASSUME NEW t, NEW T, NEW q, NEW R, NEW a, NEW p, NEW g, NEW s, NEW far, NEW y, Family(t, T, q, R, a, p, g, s, far, y)
  PROVE  Kin(t, T, R, a, p, g, s, far, y) /\ Ordered(t, T, q) /\ R \subseteq T /\ T \subseteq RbNodes
         /\ a # NoNode /\ p # NoNode
<1>1. Kin(t, T, R, a, p, g, s, far, y) /\ Ordered(t, T, q) /\ R \subseteq T
  BY KinSays DEF Family
<1>2. a \in T /\ p \in T
  BY <1>1 DEF Kin
<1>3. QED
  BY <1>1, <1>2, OrderedTree

\* The colours flip below a grandparent with two red children.
LEMMA RecolourKeeps ==
  ASSUME NEW t, NEW T, NEW q, NEW R, NEW a, NEW p, NEW g, NEW s, NEW far, NEW y,
         Family(t, T, q, R, a, p, g, s, far, y), y \in R, NEW R2, R2 = (R \ {y, p}) \cup {g}
  PROVE  R2 \subseteq T /\ Inserting(t, T, R2, g)
<1>1. /\ a \in R /\ a \in T /\ p \in T /\ g \in T /\ g \notin R /\ a # p /\ p # g /\ g # a
      /\ a # t.root /\ p # t.root /\ NoNode \notin T /\ g \in RbNodes /\ a \in RbNodes /\ p \in RbNodes
      /\ s \in Sides /\ far \in Sides /\ far # s /\ s = Other(far) /\ t.child[s][g] = p /\ y # p /\ y # g
      /\ y # NoNode => y \in T /\ t.parent[y] = g
  BY FamilySays DEF Kin
<1>2. /\ Ordered(t, T, q) /\ R \subseteq T /\ p \in R /\ t.parent[a] = p /\ t.parent[p] = g /\ t.child[far][g] = y
      /\ RedRule(t, R, {a})       /\ T \subseteq RbNodes /\ p # NoNode
  BY FamilySays DEF Family, Inserting
<1>3. y \in T /\ y # NoNode /\ p # NoNode /\ t.parent[y] = g /\ y \in RbNodes /\ T \subseteq RbNodes
  BY <1>1, <1>2
<1>4. \A b \in Sides : b = s \/ b = far
  BY <1>1, SidesAre
<1>5. ASSUME NEW x \in T, NEW b \in Sides, NEW z, z = t.child[b][x], z = p \/ z = y PROVE x = g
  <2>1. z # NoNode /\ x \in RbNodes
    BY <1>3, <1>5
  <2>2. t.parent[z] = x
    BY <1>2, <1>5, <2>1, ChildSays
  <2>3. QED
    BY <1>1, <1>2, <1>3, <1>5, <2>2
<1>6. RedRule(t, R2, {g})
  <2>1. SUFFICES ASSUME NEW x \in R2, x # g PROVE x # t.root /\ t.parent[x] \notin R2
    BY DEF RedRule
  <2>2. x \in R /\ x # p /\ x # y
    BY <2>1
  <2>3. CASE x = a
    BY <1>1, <1>2, <2>2, <2>3
  <2>4. CASE x # a
    <3>1. x # t.root /\ t.parent[x] \notin R /\ x \in T
      BY <1>2, <2>2, <2>4 DEF RedRule
    <3>2. t.parent[x] # g
      <4>1. SUFFICES ASSUME t.parent[x] = g PROVE FALSE
        OBVIOUS
      <4>2. g # NoNode
        BY <1>1
      <4> DEFINE b == SideOf(t, x, g)
      <4>3. b \in Sides /\ t.child[b][g] = x
        BY <1>2, <3>1, <4>1, <4>2, SideSays
      <4> HIDE DEF b
      <4>4. QED
        BY <1>1, <1>2, <1>4, <2>2, <4>3
    <3>3. QED
      BY <3>1, <3>2
  <2>5. QED
    BY <2>3, <2>4
<1>7. PICK H : Even(t, T, R, H, NoNode, "left")
  BY DEF Family, Inserting
<1> DEFINE H2 == [x \in Pointers |-> IF x = p \/ x = y THEN H[x] + 1 ELSE H[x]]
<1>8. /\ \A x \in Pointers : H[x] \in Nat
      /\ H[NoNode] = 0
      /\ \A x \in T, b \in Sides : H[t.child[b][x]] + Weight(R, x) + Lack(x, b, NoNode, "left") = H[x]
  BY <1>7 DEF Even
<1>9. /\ H2 \in [Pointers -> Nat] /\ H2[NoNode] = 0
      /\ \A x \in Pointers : H2[x] = IF x = p \/ x = y THEN H[x] + 1 ELSE H[x]
  <2>1. \A x \in Pointers : H[x] + 1 \in Nat
    BY <1>8
  <2>2. NoNode # p /\ NoNode # y /\ NoNode \in Pointers
    BY <1>3 DEF Pointers
  <2>3. QED
    BY <1>8, <2>1, <2>2
<1> HIDE DEF H2
<1>10. \A x \in T, b \in Sides : Lack(x, b, NoNode, "left") = 0
  BY <1>1, LackIs
<1>11. ASSUME NEW x \in T, NEW b \in Sides
       PROVE  H2[t.child[b][x]] + Weight(R2, x) + Lack(x, b, NoNode, "left") = H2[x]
  <2> DEFINE z == t.child[b][x]
             hz == H[z]
             hx == H[x]
             w == Weight(R, x)
             hz2 == H2[z]
             hx2 == H2[x]
             w2 == Weight(R2, x)
  <2>1. z \in Pointers /\ x \in Pointers
    <3>1. t \in Trees /\ x \in RbNodes
      BY <1>2, OrderedTree
    <3>2. QED
      BY <3>1, TreeSays DEF Pointers
  <2>2. hz \in Nat /\ hx \in Nat /\ w \in Nat /\ hz + w + 0 = hx
    BY <1>8, <1>10, <2>1, WeightIs
  <2> SUFFICES H2[z] + Weight(R2, x) + 0 = H2[x]
    BY <1>10
  <2>3. CASE x = g
    <3>1. z = p \/ z = y
      BY <1>1, <1>2, <1>4, <2>3
    <3>2. hz2 = hz + 1 /\ hx2 = hx /\ w = 1 /\ w2 = 0
      BY <1>1, <1>2, <1>9, <2>1, <2>3, <3>1 DEF Weight
    <3> SUFFICES hz2 + w2 + 0 = hx2
      OBVIOUS
    <3> HIDE DEF hz, hx, w, z, hz2, hx2, w2
    <3>3. QED
      BY <2>2, <3>2
  <2>4. CASE x = p \/ x = y
    <3>1. z # p /\ z # y
      BY <1>1, <1>5, <2>4
    <3>2. hz2 = hz /\ hx2 = hx + 1 /\ w = 0 /\ w2 = 1
      BY <1>1, <1>2, <1>3, <1>9, <2>1, <2>4, <3>1 DEF Weight
    <3> SUFFICES hz2 + w2 + 0 = hx2
      OBVIOUS
    <3> HIDE DEF hz, hx, w, z, hz2, hx2, w2
    <3>3. QED
      BY <2>2, <3>2
  <2>5. CASE x # g /\ x # p /\ x # y
    <3>1. z # p /\ z # y
      BY <1>5, <2>5
    <3>2. H2[z] = hz /\ H2[x] = hx /\ Weight(R2, x) = w
      BY <1>9, <2>1, <2>5, <3>1 DEF Weight
    <3> HIDE DEF hz, hx, w, z
    <3>3. QED
      BY <2>2, <3>2
  <2>6. QED
    BY <2>3, <2>4, <2>5
<1>12. Even(t, T, R2, H2, NoNode, "left")
  BY <1>9, <1>11 DEF Even
<1>13. R2 \subseteq T /\ g \in R2
  BY <1>1, <1>2
<1>14. QED
  BY <1>6, <1>12, <1>13 DEF Inserting

\* The root may always be black.
LEMMA BlackRoot ==
  ASSUME NEW t, NEW T, NEW q, Ordered(t, T, q), NEW R, NEW H, Even(t, T, R, H, NoNode, "left"),
         NEW R2, R2 = R \ {t.root}
  PROVE  \E H2 : Even(t, T, R2, H2, NoNode, "left")
<1>1. CASE t.root \notin R
  <2>1. R2 = R
    BY <1>1
  <2>2. QED
    BY <2>1
<1>2. CASE t.root = NoNode
  <2>1. T = {}
    BY <1>2, OrderedTree
  <2>2. QED
    BY <2>1 DEF Even
<1>3. CASE t.root \in R /\ t.root # NoNode
  <2> DEFINE r == t.root
             H2 == [x \in Pointers |-> IF x = r THEN H[x] + 1 ELSE H[x]]
  <2>1. /\ \A x \in Pointers : H[x] \in Nat
        /\ H[NoNode] = 0
        /\ \A x \in T, b \in Sides : H[t.child[b][x]] + Weight(R, x) + Lack(x, b, NoNode, "left") = H[x]
    BY DEF Even
  <2>2. r \in T /\ T \subseteq RbNodes /\ t \in Trees /\ NoNode \notin T
    BY <1>3, OrderedTree
  <2>3. H2 \in [Pointers -> Nat] /\ H2[NoNode] = 0 /\ \A x \in Pointers : H2[x] = IF x = r THEN H[x] + 1 ELSE H[x]
    <3>1. \A x \in Pointers : H[x] + 1 \in Nat
      BY <2>1
    <3>2. QED
      BY <1>3, <2>1, <3>1 DEF Pointers
  <2> HIDE DEF H2
  <2>4. ASSUME NEW x \in T, NEW b \in Sides
        PROVE  H2[t.child[b][x]] + Weight(R2, x) + Lack(x, b, NoNode, "left") = H2[x]
    <3> DEFINE z == t.child[b][x]
               hz == H[z]
               hx == H[x]
               w == Weight(R, x)
               l == Lack(x, b, NoNode, "left")
    <3>1. z \in Pointers /\ x \in Pointers /\ x \in RbNodes
      BY <2>2, TreeSays DEF Pointers
    <3>2. hz \in Nat /\ hx \in Nat /\ l \in Nat /\ hz + w + l = hx
      BY <2>1, <3>1, LackIs
    <3>3. z # r
      <4>1. t.parent[r] = NoNode
        BY <2>2, NodeSays
      <4>2. z # NoNode => t.parent[z] = x
        BY <3>1, ChildSays
      <4>3. QED
        BY <1>3, <2>2, <4>1, <4>2
    <3>4. CASE x = r
      <4>1. H2[z] = hz /\ H2[x] = hx + 1 /\ w = 0 /\ Weight(R2, x) = 1
        BY <1>3, <2>3, <3>1, <3>3, <3>4 DEF Weight
      <4> SUFFICES H2[z] + Weight(R2, x) + l = H2[x]
        OBVIOUS
      <4> HIDE DEF hz, hx, w, z, l
      <4>2. QED
        BY <3>2, <4>1
    <3>5. CASE x # r
      <4>1. H2[z] = hz /\ H2[x] = hx /\ Weight(R2, x) = w
        BY <2>3, <3>1, <3>3, <3>5 DEF Weight
      <4>2. QED
        BY <3>2, <4>1
    <3>6. QED
      BY <3>4, <3>5
  <2>5. QED
    BY <2>3, <2>4 DEF Even
<1>4. QED
  BY <1>1, <1>2, <1>3

\* The loop ends: the root turns black.
LEMMA InsertDoneKeeps ==
  ASSUME NEW t, NEW T, NEW q, Ordered(t, T, q), NEW R, R \subseteq T, NEW a, Inserting(t, T, R, a),
         t.parent[a] = NoNode \/ t.parent[a] \notin R, NEW R2, R2 = R \ {t.root}
  PROVE  AtRest(t, T, R2)
<1>1. PICK H : Even(t, T, R, H, NoNode, "left")
  BY DEF Inserting
<1>2. \E H2 : Even(t, T, R2, H2, NoNode, "left")
  BY <1>1, BlackRoot
<1>3. NoNode \notin R
  BY OrderedTree
<1>4. RedRule(t, R2, {})
  BY <1>3 DEF Inserting, RedRule
<1>5. QED
  BY <1>2, <1>4 DEF AtRest

\* A red node has no red children, but for those of A.
LEMMA RedHasBlack ==
  ASSUME NEW t, NEW T, NEW q, Ordered(t, T, q), NEW R, R \subseteq T, NEW A, RedRule(t, R, A),
         NEW x \in R, NEW s \in Sides, NEW c, c = t.child[s][x], c \notin A
  PROVE  c \notin R
<1>1. SUFFICES ASSUME c \in R PROVE FALSE
  OBVIOUS
<1>2. c # NoNode /\ x \in RbNodes
  BY <1>1, OrderedTree
<1>3. t.parent[c] = x
  BY <1>2, ChildSays
<1>4. QED
  BY <1>1, <1>3 DEF RedRule

\* The child of p on one side, if its child on the other is a, is black.
LEMMA OtherIsBlack ==
  ASSUME NEW t, NEW T, NEW q, NEW R, NEW a, NEW p, NEW g, NEW s, NEW far, NEW y, Family(t, T, q, R, a, p, g, s, far, y),
         NEW d \in Sides, t.child[d][p] = a, NEW o, t.child[Other(d)][p] = o
  PROVE  o \notin R
<1> DEFINE A == {a}
           e == Other(d)
<1>1. Ordered(t, T, q) /\ R \subseteq T /\ p \in R /\ RedRule(t, R, A) /\ p \in RbNodes /\ a # NoNode
  BY FamilySays DEF Family, Inserting, Kin
<1>2. e \in Sides
  BY SidesAre
<1>3. o # a
  BY <1>1, ChildrenDiffer
<1>4. o \notin A /\ t.child[e][p] = o
  BY <1>3
<1> HIDE DEF A, e
<1>5. QED
  BY <1>1, <1>2, <1>4, RedHasBlack

\* The loop's node is on the same side of its parent as that of its own.
Outward(t, T, q, R, a, p, g, s, far, y) == Family(t, T, q, R, a, p, g, s, far, y) /\ t.child[s][p] = a

Inward(t, T, q, R, a, p, g, s, far, y) == Family(t, T, q, R, a, p, g, s, far, y) /\ t.child[far][p] = a

\* An inner node is rotated outwards: it changes places with its parent.
LEMMA InnerTurn ==
  ASSUME NEW t, NEW T, NEW q, NEW R, NEW a, NEW p, NEW g, NEW s, NEW far, NEW y,
         Inward(t, T, q, R, a, p, g, s, far, y), NEW u, u = Rotate(t, p, s)
  PROVE  Outward(u, T, q, R, p, a, g, s, far, y)
<1> DEFINE m == t.child[s][a]
           o == t.child[s][p]
<1>1. /\ a \in R /\ a \in T /\ p \in T /\ g \in T /\ g \notin R /\ a # p /\ p # g /\ g # a
      /\ a # t.root /\ p # t.root /\ NoNode \notin T /\ g \in RbNodes /\ a \in RbNodes /\ p \in RbNodes
      /\ s \in Sides /\ far \in Sides /\ far # s /\ t.child[s][g] = p /\ y # p /\ y # g
      /\ Other(s) = far /\ Other(far) = s
  <2>1. Family(t, T, q, R, a, p, g, s, far, y)
    BY DEF Inward
  <2>2. Kin(t, T, R, a, p, g, s, far, y)
    BY <2>1, FamilySays
  <2>3. Other(s) = far
    BY <2>1 DEF Family
  <2>4. QED
    BY <2>2, <2>3 DEF Kin
<1>2. /\ Ordered(t, T, q) /\ R \subseteq T /\ T \subseteq RbNodes /\ a # NoNode /\ p # NoNode
      /\ Inserting(t, T, R, a) /\ p \in R
      /\ t.parent[a] = p /\ t.parent[p] = g /\ t.child[far][g] = y /\ t.child[far][p] = a
  BY FamilySays DEF Inward, Family
<1>3. t.child[Other(s)][p] = a /\ t.child[s][a] = m
  BY <1>1, <1>2
<1>4. Pivot(t, T, p, s, a, m) /\ Turned(t, p, s, a, m, u) /\ Ordered(u, T, q)
  <2> HIDE DEF m
  <2>1. QED
    BY <1>1, <1>2, <1>3, RotateIs
<1>5. PICK P, E : Linked(t, T) /\ Spans(t, T, P, E)
  BY <1>2 DEF Ordered, Shape
<1>6. Swapped(R, p, a, R)
  BY <1>1, <1>2 DEF Swapped
<1>7. RedRule(t, R, {a})
  BY <1>2 DEF Inserting
<1>8. m # a
  <2> HIDE DEF m
  <2>1. m # NoNode => m # a
    BY <1>1, <1>2, <1>3, ChildSays
  <2>2. QED
    BY <1>2, <2>1
<1>9. m \notin R /\ o \notin R
  <2>1. m \notin R
    <3> DEFINE A == {a}
    <3>1. RedRule(t, R, A) /\ m \notin A
      BY <1>7, <1>8
    <3> HIDE DEF A, m
    <3>2. QED
      BY <1>1, <1>2, <1>3, <3>1, RedHasBlack
  <2>2. o \notin R
    <3>1. Family(t, T, q, R, a, p, g, s, far, y)
      BY DEF Inward
    <3>2. t.child[Other(far)][p] = o
      BY <1>1
    <3> HIDE DEF o
    <3>3. QED
      BY <1>1, <1>2, <3>1, <3>2, OtherIsBlack
  <2>3. QED
    BY <2>1, <2>2
<1>10. RedRule(u, R, {p})
  <2> DEFINE A == {a}
             A2 == {p}
  <2>1. RedRule(t, R, A) /\ p \notin A /\ A \subseteq A2 \cup {a} /\ p \in A2
    BY <1>1, <1>7
  <2>2. t.child[s][p] \notin R
    BY <1>9
  <2> HIDE DEF A, A2, m, o
  <2>3. RedRule(u, R, A2)
    BY <1>1, <1>2, <1>4, <1>5, <1>6, <1>9, <2>1, <2>2, SwapRedRule
  <2>4. QED
    BY <2>3 DEF A2
<1>11. PICK H : Even(t, T, R, H, NoNode, "left")
  BY <1>2 DEF Inserting
<1>12. \E H2 : Even(u, T, R, H2, NoNode, "left")
  <2> DEFINE lp == NoNode
             ls == "left"
  <2>1. lp # a /\ ~(lp = p /\ ls = Other(s)) /\ Even(t, T, R, H, lp, ls)
    BY <1>2, <1>11
  <2> HIDE DEF m, lp, ls
  <2>2. \E H2 : Even(u, T, R, H2, lp, ls)
    BY <1>1, <1>4, <1>5, <1>6, <2>1, SwapRedEven
  <2>3. QED
    BY <2>2 DEF lp, ls
<1>13. Inserting(u, T, R, p)
  BY <1>2, <1>10, <1>12 DEF Inserting
<1>14. u.parent[p] = a /\ u.parent[a] = g
  <2> HIDE DEF m
  <2>1. QED
    BY <1>1, <1>2, <1>4 DEF Turned
<1>15. u.child[s][g] = a /\ u.child[far][g] = y /\ u.child[s][a] = p
  <2> HIDE DEF m
  <2>1. QED
    BY <1>1, <1>2, <1>4 DEF Turned
<1>16. SideOf(u, a, g) = s
  BY <1>1, <1>2, <1>4, <1>15, SideIs
<1>17. QED
  BY <1>1, <1>2, <1>4, <1>13, <1>14, <1>15, <1>16 DEF Outward, Family

\* The grandparent is rotated down and takes the parent's colour: no red node
\* but its own has a red parent, or none.
LEMMA OuterTurn ==
  ASSUME NEW t, NEW T, NEW q, NEW R, NEW a, NEW p, NEW g, NEW s, NEW far, NEW y,
         Outward(t, T, q, R, a, p, g, s, far, y), y \notin R, NEW u, u = Rotate(t, g, far), NEW R2, R2 = (R \ {p}) \cup {g}
  PROVE  R2 \subseteq T /\ Ordered(u, T, q) /\ Inserting(u, T, R2, a)
<1> DEFINE m == t.child[far][p]
<1>1. /\ a \in R /\ a \in T /\ p \in T /\ g \in T /\ g \notin R /\ a # p /\ p # g /\ g # a
      /\ a # t.root /\ p # t.root /\ NoNode \notin T /\ g \in RbNodes /\ a \in RbNodes /\ p \in RbNodes
      /\ s \in Sides /\ far \in Sides /\ far # s /\ t.child[s][g] = p /\ y # p /\ y # g
      /\ Other(s) = far /\ Other(far) = s
  <2>1. Family(t, T, q, R, a, p, g, s, far, y)
    BY DEF Outward
  <2>2. Kin(t, T, R, a, p, g, s, far, y)
    BY <2>1, FamilySays
  <2>3. Other(s) = far
    BY <2>1 DEF Family
  <2>4. QED
    BY <2>2, <2>3 DEF Kin
<1>2. /\ Ordered(t, T, q) /\ R \subseteq T /\ T \subseteq RbNodes /\ a # NoNode /\ p # NoNode
      /\ Inserting(t, T, R, a) /\ p \in R
      /\ t.parent[a] = p /\ t.parent[p] = g /\ t.child[far][g] = y /\ t.child[s][p] = a
  BY FamilySays DEF Outward, Family
<1>3. t.child[Other(far)][g] = p /\ t.child[far][p] = m
  BY <1>1
<1>4. Pivot(t, T, g, far, p, m) /\ Turned(t, g, far, p, m, u) /\ Ordered(u, T, q)
  <2> HIDE DEF m
  <2>1. QED
    BY <1>1, <1>2, <1>3, RotateIs
<1>5. PICK P, E : Linked(t, T) /\ Spans(t, T, P, E)
  BY <1>2 DEF Ordered, Shape
<1>6. Swapped(R, g, p, R2) /\ R2 \subseteq T
  BY <1>1, <1>2 DEF Swapped
<1>7. RedRule(t, R, {a})
  BY <1>2 DEF Inserting
<1>8. m \notin R /\ t.child[far][g] \notin R
  <2>1. Family(t, T, q, R, a, p, g, s, far, y) /\ t.child[Other(s)][p] = m
    BY <1>1 DEF Outward
  <2> HIDE DEF m
  <2>2. m \notin R
    BY <1>1, <1>2, <2>1, OtherIsBlack
  <2>3. QED
    BY <1>2, <2>2
<1>9. RedRule(u, R2, {a})
  <2> DEFINE A == {a}
  <2>1. RedRule(t, R, A) /\ g \notin A /\ A \subseteq A \cup {p} /\ (g \in R => g \in A)
    BY <1>1, <1>7
  <2> HIDE DEF A, m
  <2>2. RedRule(u, R2, A)
    BY <1>1, <1>2, <1>4, <1>5, <1>6, <1>8, <2>1, SwapRedRule
  <2>3. QED
    BY <2>2 DEF A
<1>10. PICK H : Even(t, T, R, H, NoNode, "left")
  BY <1>2 DEF Inserting
<1>11. \E H2 : Even(u, T, R2, H2, NoNode, "left")
  <2> DEFINE lp == NoNode
             ls == "left"
  <2>1. lp # p /\ ~(lp = g /\ ls = Other(far)) /\ Even(t, T, R, H, lp, ls)
    BY <1>1, <1>2, <1>10
  <2> HIDE DEF m, lp, ls
  <2>2. \E H2 : Even(u, T, R2, H2, lp, ls)
    BY <1>1, <1>2, <1>4, <1>5, <1>6, <2>1, SwapRedEven
  <2>3. QED
    BY <2>2 DEF lp, ls
<1>12. a \in R2
  BY <1>1
<1>13. QED
  BY <1>4, <1>6, <1>9, <1>11, <1>12 DEF Inserting

\* The uncle is black: one rotation, or two.
LEMMA RotateUpKeeps ==
  ASSUME NEW t, NEW T, NEW q, NEW R, NEW a, NEW p, NEW g, NEW s, NEW far, NEW y,
         Family(t, T, q, R, a, p, g, s, far, y), y \notin R,
         NEW v, v = (IF a = t.child[far][p] THEN Rotate(t, p, s) ELSE t),
         NEW n, n = (IF a = t.child[far][p] THEN p ELSE a),
         NEW u, u = Rotate(v, g, far), NEW R2, R2 = (R \ {v.parent[n]}) \cup {g}
  PROVE  R2 \subseteq T /\ Ordered(u, T, q) /\ Inserting(u, T, R2, n)
<1>1. CASE a = t.child[far][p]
  <2>1. v = Rotate(t, p, s) /\ n = p /\ Inward(t, T, q, R, a, p, g, s, far, y)
    BY <1>1 DEF Inward
  <2>2. Outward(v, T, q, R, p, a, g, s, far, y)
    BY <2>1, InnerTurn
  <2>3. v.parent[p] = a
    BY <2>2 DEF Outward, Family
  <2>4. R2 = (R \ {a}) \cup {g}
    BY <2>1, <2>3
  <2>5. R2 \subseteq T /\ Ordered(u, T, q) /\ Inserting(u, T, R2, p)
    BY <2>2, <2>4, OuterTurn, SMTT(60)
  <2>6. QED
    BY <2>1, <2>5
<1>2. CASE a # t.child[far][p]
  <2>1. v = t /\ n = a
    BY <1>2
  <2>2. a \in T /\ p \in T /\ p # NoNode /\ s \in Sides /\ far \in Sides /\ far # s
    BY FamilySays DEF Kin
  <2>3. Ordered(t, T, q) /\ t.parent[a] = p
    BY DEF Family
  <2>4. PICK b \in Sides : t.child[b][p] = a
    BY <2>2, <2>3, SideSays
  <2>5. t.child[s][p] = a
    BY <1>2, <2>2, <2>4, SidesAre
  <2>6. Outward(t, T, q, R, a, p, g, s, far, y)
    BY <2>5 DEF Outward
  <2>7. R2 = (R \ {p}) \cup {g} /\ u = Rotate(t, g, far)
    BY <2>1, <2>3
  <2>8. R2 \subseteq T /\ Ordered(u, T, q) /\ Inserting(u, T, R2, a)
    BY <2>6, <2>7, OuterTurn
  <2>9. QED
    BY <2>1, <2>8
<1>3. QED
  BY <1>1, <1>2, Zenon

\* q2 is q with n before place k.
Inserts(q, k, n, q2) ==
  /\ q2 \in Seq(RbNodes) /\ Len(q2) = Len(q) + 1
  /\ \A i \in 1 .. Len(q2) : \/ i < k /\ i \in 1 .. Len(q) /\ q2[i] = q[i]
                             \/ i = k /\ q2[i] = n
                             \/ i > k /\ i - 1 \in 1 .. Len(q) /\ q2[i] = q[i - 1]

\* That is what InsertAt does.
LEMMA InsertedLooks ==
  ASSUME NEW q \in Seq(RbNodes), NEW k \in 1 .. (Len(q) + 1), NEW n \in RbNodes, NEW q2, q2 = InsertAt(q, k, n)
  PROVE  Inserts(q, k, n, q2)
<1>1. /\ q2 \in Seq(RbNodes) /\ Len(q2) = Len(q) + 1 /\ q2[k] = n
      /\ \A i \in 1 .. Len(q) : q2[IF i < k THEN i ELSE i + 1] = q[i]
  BY InsertedAt
<1>2. Len(q) \in Nat
  BY LenProperties
<1>3. ASSUME NEW i \in 1 .. Len(q2)
      PROVE  \/ i < k /\ i \in 1 .. Len(q) /\ q2[i] = q[i]
             \/ i = k /\ q2[i] = n
             \/ i > k /\ i - 1 \in 1 .. Len(q) /\ q2[i] = q[i - 1]
  <2>1. CASE i < k
    <3>1. i \in 1 .. Len(q)
      BY <1>1, <1>2, <2>1
    <3>2. QED
      BY <1>1, <2>1, <3>1
  <2>2. CASE i > k
    <3> DEFINE j == i - 1
    <3>1. j \in 1 .. Len(q) /\ ~(j < k) /\ j + 1 = i
      BY <1>1, <1>2, <2>2
    <3> HIDE DEF j
    <3>2. q2[i] = q[j]
      BY <1>1, <3>1
    <3>3. QED
      BY <2>2, <3>1, <3>2 DEF j
  <2>3. CASE i = k
    BY <1>1, <2>3
  <2>4. QED
    BY <2>1, <2>2, <2>3
<1>4. QED
  BY <1>1, <1>3 DEF Inserts

\* The keys stay in order.
LEMMA InsertKeepsKeys ==
  ASSUME NEW q \in Seq(RbNodes), KeysAlong(q), NEW n \in RbNodes, NEW k, FitsAt(q, k, n), NEW q2, q2 = InsertAt(q, k, n)
  PROVE  KeysAlong(q2)
<1>1. k \in 1 .. (Len(q) + 1)
  BY DEF FitsAt
<1>2. Len(q) \in Nat /\ Len(q2) = Len(q) + 1 /\ \A x \in RbNodes : KeyOf[x] \in Int
  <2>1. Inserts(q, k, n, q2)
    BY <1>1, InsertedLooks
  <2>2. QED
    BY <2>1, LenProperties, RbtreeAssumption DEF Inserts
<1>3. SUFFICES ASSUME NEW i \in 1 .. Len(q2), NEW j \in 1 .. Len(q2), i <= j PROVE KeyOf[q2[i]] <= KeyOf[q2[j]]
  BY DEF KeysAlong
<1> DEFINE Looks(x) == \/ x < k /\ x \in 1 .. Len(q) /\ q2[x] = q[x]
                       \/ x = k /\ q2[x] = n
                       \/ x > k /\ x - 1 \in 1 .. Len(q) /\ q2[x] = q[x - 1]
<1>4. Looks(i) /\ Looks(j)
  <2>1. Inserts(q, k, n, q2)
    BY <1>1, InsertedLooks
  <2>2. QED
    BY <2>1 DEF Inserts
<1>5. \A x \in 1 .. Len(q) : q[x] \in RbNodes
  BY ElementOfSeq
<1>6. /\ \A x, y \in 1 .. Len(q) : x <= y => KeyOf[q[x]] <= KeyOf[q[y]]
      /\ \A x \in 1 .. Len(q) : /\ x < k => KeyOf[q[x]] <= KeyOf[n]
                                /\ x >= k => KeyOf[n] < KeyOf[q[x]]
  BY DEF KeysAlong, FitsAt
<1> DEFINE old(x) == IF x < k THEN x ELSE x - 1
<1>7. CASE i = k
  <2>1. q2[i] = n
    BY <1>1, <1>4, <1>7
  <2>2. CASE j = k
    BY <1>2, <1>7, <2>1, <2>2
  <2>3. CASE j # k
    <3>1. j > k /\ j - 1 \in 1 .. Len(q) /\ q2[j] = q[j - 1]
      BY <1>1, <1>2, <1>3, <1>4, <1>7, <2>3
    <3> DEFINE y == j - 1
               ky == KeyOf[q[y]]
               kn == KeyOf[n]
    <3>2. y >= k /\ y \in 1 .. Len(q)
      BY <1>1, <1>2, <3>1
    <3> HIDE DEF y
    <3>3. kn < ky /\ ky \in Int /\ kn \in Int
      BY <1>2, <1>5, <1>6, <3>2
    <3>4. KeyOf[q2[i]] = kn /\ KeyOf[q2[j]] = ky
      BY <2>1, <3>1 DEF y
    <3> HIDE DEF ky, kn
    <3>5. QED
      BY <3>3, <3>4
  <2>4. QED
    BY <2>2, <2>3
<1>8. CASE j = k /\ i # k
  <2>1. q2[j] = n /\ i < k /\ i \in 1 .. Len(q) /\ q2[i] = q[i]
    BY <1>1, <1>2, <1>3, <1>4, <1>8
  <2>2. QED
    BY <1>6, <2>1
<1>9. CASE i # k /\ j # k
  <2> DEFINE x == old(i)
             y == old(j)
  <2>1. x \in 1 .. Len(q) /\ q2[i] = q[x]
    BY <1>1, <1>2, <1>4, <1>9
  <2>2. y \in 1 .. Len(q) /\ q2[j] = q[y]
    BY <1>1, <1>2, <1>4, <1>9
  <2>3. x <= y
    BY <1>1, <1>2, <1>3, <1>9
  <2> HIDE DEF x, y
  <2>4. QED
    BY <1>6, <2>1, <2>2, <2>3
<1>10. QED
  BY <1>7, <1>8, <1>9

\* A leaf is linked below m.
LEMMA LeafKeepsOrder ==
  ASSUME NEW t, NEW T, NEW q, NEW P, NEW E, Shape(t, T, q, P, E), KeysAlong(q), NEW m \in T, NEW side \in Sides,
         t.child[side][m] = NoNode, NEW n \in RbNodes \ T, NEW k, k = Gap(P, m, side), FitsAt(q, k, n),
         NEW u, Grown(t, n, m, side, u), NEW q2, q2 = InsertAt(q, k, n)
  PROVE  Ordered(u, T \cup {n}, q2)
<1>1. P \in [RbNodes -> Int] /\ E \in [Sides -> [RbNodes -> Int]] /\ n \in RbNodes /\ m \in RbNodes /\ q \in Seq(RbNodes)
  BY DEF Shape, Linked, Spans, Lists
<1>2. PICK q3, P2, E2 : Added(q, P, E, n, m, side, q3, P2, E2)
  BY <1>1, AddedExist
<1>3. q3 = q2
  BY <1>2 DEF Added
<1>4. Shape(u, T \cup {n}, q3, P2, E2)
  BY <1>2, GrowKeepsShape
<1>5. KeysAlong(q2)
  BY <1>1, InsertKeepsKeys
<1>6. QED
  BY <1>3, <1>4, <1>5 DEF Ordered

\* It is red, and no way has more or fewer black nodes.
LEMMA LeafKeepsColours ==
  ASSUME NEW t, NEW T, NEW q, Ordered(t, T, q), NEW R, R \subseteq T, AtRest(t, T, R), NEW m \in T, NEW side \in Sides,
         t.child[side][m] = NoNode, NEW n \in RbNodes \ T, NEW u, Grown(t, n, m, side, u), NEW R2, R2 = R \cup {n}
  PROVE  Inserting(u, T \cup {n}, R2, n)
<1>1. t \in Trees /\ T \subseteq RbNodes /\ NoNode \notin RbNodes /\ n \in RbNodes /\ n \notin T /\ n # m
  BY OrderedTree
<1>2. /\ u.root = t.root
      /\ \A x \in RbNodes : u.parent[x] = IF x = n THEN m ELSE t.parent[x]
      /\ \A x \in RbNodes, s \in Sides : u.child[s][x] = IF x = m /\ s = side THEN n ELSE t.child[s][x]
  BY DEF Grown
<1>3. RedRule(u, R2, {n})
  <2>1. SUFFICES ASSUME NEW x \in R2 \ {n} PROVE x # u.root /\ u.parent[x] \notin R2
    BY DEF RedRule
  <2>2. x \in R /\ x \in T /\ x \in RbNodes /\ x # n
    BY <1>1, <2>1
  <2>3. x # t.root /\ t.parent[x] \notin R
    BY <2>2 DEF AtRest, RedRule
  <2>4. t.parent[x] \in T
    BY <2>2, <2>3, NodeSays
  <2>5. QED
    BY <1>1, <1>2, <2>2, <2>3, <2>4
<1>4. PICK H : Even(t, T, R, H, NoNode, "left")
  BY DEF AtRest
<1> DEFINE H2 == [x \in Pointers |-> IF x = n THEN 0 ELSE H[x]]
<1>5. /\ \A x \in Pointers : H[x] \in Nat
      /\ H[NoNode] = 0
      /\ \A x \in T, b \in Sides : H[t.child[b][x]] + Weight(R, x) + Lack(x, b, NoNode, "left") = H[x]
  BY <1>4 DEF Even
<1>6. H2 \in [Pointers -> Nat] /\ H2[NoNode] = 0 /\ \A x \in Pointers : H2[x] = IF x = n THEN 0 ELSE H[x]
  BY <1>1, <1>5 DEF Pointers
<1> HIDE DEF H2
<1>7. ASSUME NEW x \in T \cup {n}, NEW b \in Sides
      PROVE  H2[u.child[b][x]] + Weight(R2, x) + Lack(x, b, NoNode, "left") = H2[x]
  <2> DEFINE z == t.child[b][x]
             v == u.child[b][x]
             l == Lack(x, b, NoNode, "left")
  <2>1. x \in RbNodes /\ x \in Pointers /\ z \in Pointers /\ NoNode \in Pointers /\ n \in Pointers
    <3>1. x \in RbNodes
      BY <1>1
    <3>2. QED
      BY <1>1, <3>1, TreeSays DEF Pointers
  <2>2. l = 0
    BY <1>1, <2>1, LackIs
  <2>3. z # NoNode => x \in T /\ z \in T
    BY <2>1, ChildSays
  <2>4. CASE x = n
    <3>1. z = NoNode /\ v = NoNode
      BY <1>1, <1>2, <2>1, <2>3, <2>4
    <3>2. H2[v] = 0 /\ H2[x] = 0 /\ Weight(R2, x) = 0
      BY <1>6, <2>1, <2>4, <3>1 DEF Weight
    <3> SUFFICES H2[v] + Weight(R2, x) + l = H2[x]
      OBVIOUS
    <3> HIDE DEF v, z, l
    <3>3. QED
      BY <2>2, <3>2
  <2>5. CASE x \in T
    <3> DEFINE hv == H2[v]
               hx == H[x]
               hz == H[z]
               w == Weight(R, x)
    <3>1. H2[x] = hx /\ Weight(R2, x) = w
      BY <1>1, <1>6, <2>1, <2>5 DEF Weight
    <3>2. hv = hz
      <4>1. CASE x = m /\ b = side
        BY <1>2, <1>5, <1>6, <2>1, <4>1
      <4>2. CASE ~(x = m /\ b = side)
        <5>1. v = z /\ z # n
          BY <1>1, <1>2, <2>1, <2>3, <4>2
        <5>2. QED
          BY <1>6, <2>1, <5>1
      <4>3. QED
        BY <4>1, <4>2
    <3>3. hz + w + l = hx
      BY <1>5, <2>5
    <3> SUFFICES hv + Weight(R2, x) + l = H2[x]
      OBVIOUS
    <3> HIDE DEF v, z, l, hv, hx, hz, w
    <3>4. QED
      BY <3>1, <3>2, <3>3
  <2>6. QED
    BY <2>4, <2>5
<1>8. Even(u, T \cup {n}, R2, H2, NoNode, "left")
  BY <1>6, <1>7 DEF Even
<1>9. QED
  BY <1>3, <1>8 DEF Inserting

\* The first node.
LEMMA FirstNode ==
  ASSUME NEW t, NEW q, Ordered(t, {}, q), NEW n \in RbNodes, NEW u, u \in Trees, u.root = n,
         u.parent = t.parent, u.child = t.child, NEW q2, q2 = InsertAt(q, 1, n)
  PROVE  FitsAt(q, 1, n) /\ Ordered(u, {n}, q2) /\ Inserting(u, {n}, {n}, n)
<1>1. PICK P, E : Linked(t, {}) /\ Lists(t, {}, q, P, E)
  BY DEF Ordered, Shape
<1>2. q \in Seq(RbNodes) /\ Len(q) = 0
  <2>1. q \in Seq(RbNodes) /\ Len(q) \in Nat /\ \A i \in 1 .. Len(q) : FALSE
    BY <1>1, LenProperties DEF Lists
  <2>2. QED
    BY <2>1
<1>3. FitsAt(q, 1, n)
  BY <1>2 DEF FitsAt
<1>4. q2 \in Seq(RbNodes) /\ Len(q2) = 1 /\ q2[1] = n
  <2> DEFINE k == 1
  <2>1. k \in 1 .. (Len(q) + 1) /\ q2 = InsertAt(q, k, n)
    BY <1>2
  <2> HIDE DEF k
  <2>2. Inserts(q, k, n, q2)
    BY <1>2, <2>1, InsertedLooks
  <2>3. QED
    BY <1>2, <2>2 DEF k, Inserts
<1>5. KeysAlong(q2)
  <2>1. KeyOf[n] \in Int
    BY RbtreeAssumption
  <2>2. QED
    BY <1>4, <2>1 DEF KeysAlong
<1>6. /\ n # NoNode /\ \A x \in RbNodes : u.parent[x] = NoNode /\ \A s \in Sides : u.child[s][x] = NoNode
  BY <1>1, RbtreeAssumption DEF Linked
<1>7. Linked(u, {n})
  BY <1>6 DEF Linked
<1> DEFINE P2 == [x \in RbNodes |-> 1]
           E2 == [s \in Sides |-> [x \in RbNodes |-> 1]]
<1>8. Spans(u, {n}, P2, E2)
  BY <1>6, SidesAre DEF Spans, SpanAt
<1>9. Lists(u, {n}, q2, P2, E2)
  BY <1>4, SidesAre DEF Lists
<1> HIDE DEF P2, E2
<1>10. Ordered(u, {n}, q2)
  BY <1>5, <1>7, <1>8, <1>9 DEF Ordered, Shape
<1>11. RedRule(u, {n}, {n}) /\ n \in {n}
  BY DEF RedRule
<1> DEFINE H == [x \in Pointers |-> 0]
           R == {n}
<1>12. Even(u, R, R, H, NoNode, "left")
  <2>1. H \in [Pointers -> Nat] /\ H[NoNode] = 0
    BY DEF Pointers
  <2>2. ASSUME NEW x \in R, NEW b \in Sides
        PROVE  H[u.child[b][x]] + Weight(R, x) + Lack(x, b, NoNode, "left") = H[x]
    <3>1. x = n /\ u.child[b][x] = NoNode
      BY <1>6, <2>2
    <3>2. Weight(R, x) = 0 /\ Lack(x, b, NoNode, "left") = 0
      BY <1>6, <2>2, <3>1, WeightIs, LackIs
    <3>3. H[u.child[b][x]] = 0 /\ H[x] = 0
      BY <3>1 DEF Pointers
    <3> HIDE DEF H, R
    <3>4. QED
      BY <3>2, <3>3
  <2> HIDE DEF H
  <2>3. QED
    BY <2>1, <2>2 DEF Even
<1> HIDE DEF H
<1>13. QED
  BY <1>3, <1>10, <1>11, <1>12 DEF Inserting

-----------------------------------------------------------------------------
(* Deletion                                                                *)

\* Unless a is the root, one black node is missing on the way through it; and
\* the rule for the red nodes holds when it has turned black.
Deleting(t, T, R, a, p) ==
  /\ RedRule(t, R \ {a}, {})
  /\ IF a = t.root THEN \E H : Even(t, T, R, H, NoNode, "left")
     ELSE p \in T /\ \E s \in Sides : t.child[s][p] = a /\ \E H : Even(t, T, R, H, p, s)

\* q2 is q without place k.
Removes(q, k, q2) ==
  /\ q2 \in Seq(RbNodes) /\ Len(q2) = Len(q) - 1
  /\ \A i \in 1 .. Len(q2) : q2[i] = IF i < k THEN q[i] ELSE q[i + 1]

\* That is what RemoveAt does.
LEMMA RemovedLooks ==
  ASSUME NEW q \in Seq(RbNodes), NEW k \in 1 .. Len(q), NEW q2, q2 = RemoveAt(q, k)
  PROVE  Removes(q, k, q2)
<1>1. /\ q2 \in Seq(RbNodes) /\ Len(q2) = Len(q) - 1
      /\ \A i \in 1 .. (Len(q) - 1) : q2[i] = IF i < k THEN q[i] ELSE q[i + 1]
  BY RemovedAt
<1>2. QED
  BY <1>1 DEF Removes

\* The keys stay in order.
LEMMA RemoveKeepsKeys ==
  ASSUME NEW q \in Seq(RbNodes), KeysAlong(q), NEW k \in 1 .. Len(q), NEW q2, q2 = RemoveAt(q, k)
  PROVE  KeysAlong(q2)
<1>1. Removes(q, k, q2)
  BY RemovedLooks
<1>2. Len(q) \in Nat /\ Len(q2) = Len(q) - 1 /\ \A i \in 1 .. Len(q2) : q2[i] = IF i < k THEN q[i] ELSE q[i + 1]
  BY <1>1, LenProperties DEF Removes
<1>3. SUFFICES ASSUME NEW i \in 1 .. Len(q2), NEW j \in 1 .. Len(q2), i <= j PROVE KeyOf[q2[i]] <= KeyOf[q2[j]]
  BY DEF KeysAlong
<1> DEFINE x == IF i < k THEN i ELSE i + 1
           y == IF j < k THEN j ELSE j + 1
<1>4. x \in 1 .. Len(q) /\ y \in 1 .. Len(q) /\ x <= y /\ q2[i] = q[x] /\ q2[j] = q[y]
  BY <1>2, <1>3
<1> HIDE DEF x, y
<1>5. QED
  BY <1>4 DEF KeysAlong

\* u is t without the pointers of n.
Forgotten(t, n, u) ==
  /\ u \in Trees /\ u.root = t.root
  /\ \A x \in RbNodes : u.parent[x] = IF x = n THEN NoNode ELSE t.parent[x]
  /\ \A x \in RbNodes, s \in Sides : u.child[s][x] = IF x = n THEN NoNode ELSE t.child[s][x]

\* The node that ogs_rbtree_delete takes out has left no pointer behind.
LEMMA ForgetFields ==
  ASSUME NEW t \in Trees, NEW n \in RbNodes, NEW u, u = Forget(t, n)
  PROVE  Forgotten(t, n, u)
<1> DEFINE v == [t EXCEPT !.parent[n] = NoNode]
           w == SetChild(v, "left", n, NoNode)
<1>1. NoNode \in Pointers /\ "left" \in Sides /\ "right" \in Sides
  BY SidesAre DEF Pointers
<1>2. ParentSet(t, n, NoNode, v)
  BY <1>1, SetParentFields
<1>3. u = SetChild(w, "right", n, NoNode)
  BY DEF Forget
<1> HIDE DEF v
<1>4. ChildSet(v, "left", n, NoNode, w)
  BY <1>1, <1>2, SetChildFields DEF ParentSet
<1> HIDE DEF w
<1>5. ChildSet(w, "right", n, NoNode, u)
  BY <1>1, <1>3, <1>4, SetChildFields DEF ChildSet
<1>6. u \in Trees /\ u.root = t.root /\ \A x \in RbNodes : u.parent[x] = IF x = n THEN NoNode ELSE t.parent[x]
  BY <1>2, <1>4, <1>5 DEF ParentSet, ChildSet
<1>7. ASSUME NEW x \in RbNodes, NEW s \in Sides PROVE u.child[s][x] = IF x = n THEN NoNode ELSE t.child[s][x]
  <2>1. CASE s = "left"
    BY <1>1, <1>2, <1>4, <1>5, <2>1 DEF ParentSet, ChildSet
  <2>2. CASE s = "right"
    BY <1>1, <1>2, <1>4, <1>5, <2>2 DEF ParentSet, ChildSet
  <2>3. QED
    BY <2>1, <2>2, SidesAre
<1>8. QED
  BY <1>6, <1>7 DEF Forgotten

\* A node with one child at most is unlinked.
LEMMA OuterIsUnlinked ==
  ASSUME NEW t, NEW T, NEW q, Ordered(t, T, q), NEW n \in T, NEW d \in Sides, NEW c, t.child[d][n] = c,
         NEW v, v = ReplaceNode(t, n, c, t.parent[n]), NEW u, u = Forget(v, n)
  PROVE  Unlinked(t, n, c, u)
<1>1. PICK P, E : Linked(t, T) /\ Spans(t, T, P, E)
  BY DEF Ordered, Shape
<1>2. t \in Trees /\ n \in RbNodes /\ c \in Pointers
  BY OrderedTree, TreeSays
<1>3. Hangs(t, n, t.parent[n])
  BY <1>1, HangsOnParent
<1> DEFINE p == t.parent[n]
<1>4. Replaced(t, n, c, p, v)
  <2>1. Hangs(t, n, p) /\ v = ReplaceNode(t, n, c, p)
    BY <1>3
  <2> HIDE DEF p
  <2>2. QED
    BY <1>2, <2>1, ReplaceFields
<1>5. /\ u \in Trees /\ u.root = v.root
      /\ \A x \in RbNodes : u.parent[x] = IF x = n THEN NoNode ELSE v.parent[x]
      /\ \A x \in RbNodes, s \in Sides : u.child[s][x] = IF x = n THEN NoNode ELSE v.child[s][x]
  <2>1. v \in Trees
    BY <1>4 DEF Replaced
  <2>2. Forgotten(v, n, u)
    BY <1>2, <2>1, ForgetFields
  <2>3. QED
    BY <2>2 DEF Forgotten
<1>6. QED
  BY <1>4, <1>5 DEF Replaced, Unlinked

\* u is a tree without n, in the order that was.
Without(T, q, n, u) == \E k \in 1 .. Len(q) : q[k] = n /\ Ordered(u, T \ {n}, RemoveAt(q, k))

\* The others keep their order.
LEMMA UnlinkKeepsOrder ==
  ASSUME NEW t, NEW T, NEW q, Ordered(t, T, q), NEW n \in T, NEW d \in Sides,
         t.child[Other(d)][n] = NoNode, NEW c, t.child[d][n] = c, NEW u, Unlinked(t, n, c, u)
  PROVE  Without(T, q, n, u)
<1>1. PICK P, E : Shape(t, T, q, P, E)
  BY DEF Ordered
<1> DEFINE q2 == RemoveAt(q, P[n])
<1>2. q2 = RemoveAt(q, P[n]) /\ KeysAlong(q)
  BY DEF Ordered
<1> HIDE DEF q2
<1>3. /\ P \in [RbNodes -> Int] /\ E \in [Sides -> [RbNodes -> Int]] /\ n \in RbNodes
      /\ P[n] \in 1 .. Len(q) /\ q[P[n]] = n /\ q \in Seq(RbNodes)
  BY <1>1 DEF Shape, Spans, Lists, Linked
<1>4. PICK q3, P3, E3 : Gone(q, P, E, n, q3, P3, E3)
  BY <1>3, GoneExist
<1>5. Shape(u, T \ {n}, q3, P3, E3) /\ q3 = q2
  <2>1. c = t.child[d][n]
    OBVIOUS
  <2>2. Shape(u, T \ {n}, q3, P3, E3)
    BY <1>1, <1>4, <2>1, UnlinkKeepsShape
  <2>3. q3 = q2
    BY <1>2, <1>4 DEF Gone
  <2>4. QED
    BY <2>2, <2>3
<1>6. KeysAlong(q2)
  <2> DEFINE k == P[n]
  <2>1. k \in 1 .. Len(q) /\ q2 = RemoveAt(q, k)
    BY <1>2, <1>3
  <2> HIDE DEF k
  <2>2. QED
    BY <1>2, <1>3, <2>1, RemoveKeepsKeys
<1>7. Ordered(u, T \ {n}, q2)
  BY <1>5, <1>6 DEF Ordered
<1>8. QED
  BY <1>2, <1>3, <1>7 DEF Without

\* What an unlinked node leaves behind: nothing is missing if it was red.
LEMMA RedIsNotMissed ==
  ASSUME NEW t, NEW T, NEW q, Ordered(t, T, q), NEW R, R \subseteq T, AtRest(t, T, R), NEW n \in R, NEW d \in Sides,
         NEW c, t.child[d][n] = c, NEW u, Unlinked(t, n, c, u), NEW R2, R2 = R \ {n}
  PROVE  AtRest(u, T \ {n}, R2)
<1>1. T \subseteq RbNodes /\ NoNode \notin T /\ n \in T /\ n # t.root /\ t.parent[n] \notin R
  BY OrderedTree DEF AtRest, RedRule
<1>2. /\ u.root = t.root
      /\ \A x \in RbNodes : x # n => u.parent[x] = IF x = c THEN t.parent[n] ELSE t.parent[x]
      /\ \A x \in RbNodes, s \in Sides : x # n => u.child[s][x] = IF t.child[s][x] = n THEN c ELSE t.child[s][x]
  BY <1>1 DEF Unlinked
<1>3. RedRule(u, R2, {})
  <2>1. SUFFICES ASSUME NEW x \in R2 PROVE x # u.root /\ u.parent[x] \notin R2
    BY DEF RedRule
  <2>2. x \in R /\ x # n /\ x \in RbNodes
    BY <1>1, <2>1
  <2>3. x # t.root /\ t.parent[x] \notin R
    BY <2>2 DEF AtRest, RedRule
  <2>4. QED
    BY <1>1, <1>2, <2>2, <2>3
<1>4. PICK H : Even(t, T, R, H, NoNode, "left")
  BY DEF AtRest
<1>5. /\ H \in [Pointers -> Nat] /\ H[NoNode] = 0
      /\ \A x \in T, b \in Sides : H[t.child[b][x]] + Weight(R, x) + Lack(x, b, NoNode, "left") = H[x]
  BY <1>4 DEF Even
<1>6. t \in Trees /\ n \in Pointers /\ c \in Pointers
  BY <1>1, OrderedTree, TreeSays DEF Pointers
<1>7. H[c] = H[n]
  <2> DEFINE hc == H[c]
             hn == H[n]
             w == Weight(R, n)
             l == Lack(n, d, NoNode, "left")
  <2>1. hc + w + l = hn
    BY <1>1, <1>5
  <2>2. hc \in Nat /\ hn \in Nat /\ w = 0 /\ l = 0
    BY <1>1, <1>5, <1>6, WeightIs, LackIs
  <2> SUFFICES hc = hn
    OBVIOUS
  <2> HIDE DEF hc, hn, w, l
  <2>3. QED
    BY <2>1, <2>2
<1>8. ASSUME NEW x \in T \ {n}, NEW b \in Sides
      PROVE  H[u.child[b][x]] + Weight(R2, x) + Lack(x, b, NoNode, "left") = H[x]
  <2>1. H[u.child[b][x]] = H[t.child[b][x]]
    BY <1>1, <1>2, <1>7
  <2>2. Weight(R2, x) = Weight(R, x)
    BY DEF Weight
  <2>3. QED
    BY <1>5, <2>1, <2>2
<1>9. Even(u, T \ {n}, R2, H, NoNode, "left")
  BY <1>5, <1>8 DEF Even
<1>10. QED
  BY <1>3, <1>9 DEF AtRest

\* ... and one on the way through its place if it was black.
LEMMA BlackIsMissed ==
  ASSUME NEW t, NEW T, NEW q, Ordered(t, T, q), NEW R, R \subseteq T, AtRest(t, T, R), NEW n \in T, n \notin R,
         NEW d \in Sides, NEW c, t.child[d][n] = c, NEW u, Unlinked(t, n, c, u), NEW p, t.parent[n] = p
  PROVE  Deleting(u, T \ {n}, R, c, p)
<1>1. T \subseteq RbNodes /\ NoNode \notin T /\ n \in RbNodes /\ NoNode \notin RbNodes /\ t \in Trees
  BY OrderedTree
<1>2. /\ u.root = IF t.root = n THEN c ELSE t.root
      /\ \A x \in RbNodes : x # n => u.parent[x] = IF x = c THEN t.parent[n] ELSE t.parent[x]
      /\ \A x \in RbNodes, s \in Sides : x # n => u.child[s][x] = IF t.child[s][x] = n THEN c ELSE t.child[s][x]
  BY DEF Unlinked
<1>3. RedRule(u, R \ {c}, {})
  <2>1. SUFFICES ASSUME NEW x \in R \ {c} PROVE x # u.root /\ u.parent[x] \notin R \ {c}
    BY DEF RedRule
  <2>2. x \in R /\ x # n /\ x \in RbNodes /\ x # c
    BY <1>1, <2>1
  <2>3. x # t.root /\ t.parent[x] \notin R
    BY <2>2 DEF AtRest, RedRule
  <2>4. QED
    BY <1>2, <2>2, <2>3
<1>4. PICK H : Even(t, T, R, H, NoNode, "left")
  BY DEF AtRest
<1>5. /\ H \in [Pointers -> Nat] /\ H[NoNode] = 0
      /\ \A x \in T, b \in Sides : H[t.child[b][x]] + Weight(R, x) + Lack(x, b, NoNode, "left") = H[x]
  BY <1>4 DEF Even
<1>6. n \in Pointers /\ c \in Pointers
  BY <1>1, TreeSays DEF Pointers
<1>7. \A x \in RbNodes, b \in Sides : Lack(x, b, NoNode, "left") = 0
  BY <1>1, LackIs
<1>8. ASSUME NEW x \in T, NEW b \in Sides, t.child[b][x] = n PROVE x = p /\ n # t.root /\ x # n
  <2>1. n # NoNode /\ x \in RbNodes
    BY <1>1
  <2>2. t.parent[n] = x /\ x # n
    BY <1>8, <2>1, ChildSays
  <2>3. x # NoNode
    BY <1>1
  <2>4. n # t.root
    BY <2>2, <2>3, NodeSays
  <2>5. QED
    BY <2>2, <2>4
<1>9. CASE n = t.root
  <2>1. u.root = c
    BY <1>2, <1>9
  <2>2. ASSUME NEW x \in T \ {n}, NEW b \in Sides
        PROVE  H[u.child[b][x]] + Weight(R, x) + Lack(x, b, NoNode, "left") = H[x]
    <3>1. t.child[b][x] # n
      BY <1>8, <1>9
    <3>2. u.child[b][x] = t.child[b][x]
      BY <1>1, <1>2, <3>1
    <3>3. QED
      BY <1>5, <3>2
  <2>3. Even(u, T \ {n}, R, H, NoNode, "left")
    BY <1>5, <2>2 DEF Even
  <2>4. QED
    BY <1>3, <2>1, <2>3 DEF Deleting
<1>10. CASE n # t.root
  <2>1. p \in T /\ p # n /\ p # NoNode /\ p \in RbNodes
    BY <1>10, NodeSays
  <2>2. PICK s \in Sides : t.child[s][p] = n
    BY <2>1, SideSays
  <2>3. u.child[s][p] = c
    BY <1>2, <2>1, <2>2
  <2>4. c # u.root
    <3>1. u.root = t.root /\ t.root \in T
      BY <1>2, <1>10, OrderedTree
    <3>2. c # NoNode => t.parent[c] = n
      BY <1>1, ChildSays
    <3>3. t.parent[t.root] = NoNode
      BY <3>1, NodeSays
    <3>4. QED
      BY <1>1, <3>1, <3>2, <3>3
  <2>5. H[c] + 1 = H[n]
    <3> DEFINE hc == H[c]
               hn == H[n]
               w == Weight(R, n)
               l == Lack(n, d, NoNode, "left")
    <3>1. hc + w + l = hn
      BY <1>5
    <3>2. hc \in Nat /\ hn \in Nat /\ w = 1 /\ l = 0
      BY <1>1, <1>5, <1>6, <1>7, WeightIs
    <3> SUFFICES hc + 1 = hn
      OBVIOUS
    <3> HIDE DEF hc, hn, w, l
    <3>3. QED
      BY <3>1, <3>2
  <2>6. ASSUME NEW x \in T \ {n}, NEW b \in Sides
        PROVE  H[u.child[b][x]] + Weight(R, x) + Lack(x, b, p, s) = H[x]
    <3> DEFINE v == H[u.child[b][x]]
               z == H[t.child[b][x]]
               w == Weight(R, x)
               l == Lack(x, b, p, s)
               h == H[x]
    <3>1. x \in RbNodes /\ t.child[b][x] \in Pointers
      BY <1>1, TreeSays
    <3>2. z + w + 0 = h /\ z \in Nat /\ w \in Nat
      BY <1>5, <1>7, <3>1, WeightIs
    <3>3. CASE x = p /\ b = s
      <4>1. l = 1 /\ v = H[c] /\ z = H[n]
        BY <1>2, <2>1, <2>2, <2>3, <3>3, LackIs
      <4>2. v + 1 = z /\ v \in Nat
        BY <1>5, <1>6, <2>5, <4>1
      <4> SUFFICES v + w + l = h
        OBVIOUS
      <4> HIDE DEF v, z, w, l, h
      <4>3. QED
        BY <3>2, <4>1, <4>2
    <3>4. CASE ~(x = p /\ b = s)
      <4>1. t.child[b][x] # n
        <5>1. SUFFICES ASSUME t.child[b][x] = n PROVE FALSE
          OBVIOUS
        <5>2. x = p
          BY <1>8, <5>1
        <5>3. b = Other(s)
          BY <3>4, <5>2, SidesAre
        <5>4. t.child[Other(s)][p] = n /\ n # NoNode
          BY <1>1, <5>1, <5>2, <5>3
        <5>5. QED
          BY <2>1, <2>2, <5>4, ChildrenDiffer
      <4>2. v = z /\ l = 0
        BY <1>2, <3>1, <3>4, <4>1, LackIs
      <4> SUFFICES v + w + l = h
        OBVIOUS
      <4> HIDE DEF v, z, w, l, h
      <4>3. QED
        BY <3>2, <4>2
    <3>5. QED
      BY <3>3, <3>4
  <2>7. Even(u, T \ {n}, R, H, p, s)
    BY <1>5, <2>6 DEF Even
  <2>8. QED
    BY <1>3, <2>1, <2>3, <2>4, <2>7 DEF Deleting
<1>11. QED
  BY <1>9, <1>10

\* R with new for n.
Recast(R, n, new, R2) == R2 \subseteq RbNodes /\ \A x \in RbNodes : x \in R2 <=> IF x = new THEN n \in R ELSE x # n /\ x \in R

\* A node that takes the place of another and its colour keeps the rule for
\* the red nodes.
LEMMA RenameKeepsRed ==
  ASSUME NEW t, NEW T, NEW q, Ordered(t, T, q), NEW R, R \subseteq T, RedRule(t, R, {}), NEW n \in T, NEW new \in RbNodes \ T,
         NEW u, Renamed(t, n, new, u), NEW R2, Recast(R, n, new, R2)
  PROVE  RedRule(u, R2, {})
<1>1. /\ T \subseteq RbNodes /\ NoNode \notin RbNodes /\ n \in RbNodes /\ new \in RbNodes /\ n # new
      /\ R2 \subseteq RbNodes /\ \A x \in RbNodes : x \in R2 <=> IF x = new THEN n \in R ELSE x # n /\ x \in R
  BY OrderedTree DEF Recast
<1>2. /\ u.root = IF t.root = n THEN new ELSE t.root
      /\ \A x \in RbNodes : u.parent[x] = IF x = n THEN NoNode ELSE IF x = new THEN t.parent[n]
                                         ELSE IF t.parent[x] = n THEN new ELSE t.parent[x]
  BY DEF Renamed
<1>3. SUFFICES ASSUME NEW x \in R2 PROVE x # u.root /\ u.parent[x] \notin R2
  BY DEF RedRule
<1> DEFINE y == IF x = new THEN n ELSE x
           p == t.parent[y]
<1>4. y \in R /\ y \in T /\ x \in RbNodes /\ x # n
  BY <1>1, <1>3
<1>5. y # t.root /\ p \notin R
  BY <1>4 DEF RedRule
<1>6. p \in T /\ p # y
  <2> HIDE DEF y
  <2>1. QED
    BY <1>4, <1>5, NodeSays
<1>7. u.parent[x] = IF p = n THEN new ELSE p
  <2>1. CASE x = new
    BY <1>1, <1>2, <1>4, <1>6, <2>1
  <2>2. CASE x # new
    BY <1>1, <1>2, <1>4, <2>2
  <2>3. QED
    BY <2>1, <2>2
<1>8. u.parent[x] \notin R2
  BY <1>1, <1>5, <1>6, <1>7
<1>9. x # u.root
  <2>1. t.root \in T
    BY <1>4, OrderedTree
  <2>2. QED
    BY <1>1, <1>2, <1>4, <1>5, <2>1
<1>10. QED
  BY <1>8, <1>9

\* The node that is named so in the tree with new for n.
Recalled(x, n, new) == IF x = n THEN new ELSE x

\* ... and the number of black nodes on every way down.
LEMMA RenameKeepsEven ==
  ASSUME NEW t, NEW T, NEW q, Ordered(t, T, q), NEW R, R \subseteq T, NEW n \in T, NEW new \in RbNodes \ T,
         NEW u, Renamed(t, n, new, u), NEW R2, Recast(R, n, new, R2),
         NEW H, NEW lp, NEW ls, Even(t, T, R, H, lp, ls), lp # new, NEW lp2, lp2 = Recalled(lp, n, new)
  PROVE  \E H2 : Even(u, (T \ {n}) \cup {new}, R2, H2, lp2, ls)
<1>1. /\ T \subseteq RbNodes /\ NoNode \notin RbNodes /\ n \in RbNodes /\ new \in RbNodes /\ n # new /\ new \notin T /\ t \in Trees
      /\ R2 \subseteq RbNodes /\ \A x \in RbNodes : x \in R2 <=> IF x = new THEN n \in R ELSE x # n /\ x \in R
  BY OrderedTree DEF Recast
<1>2. \A x \in RbNodes, s \in Sides :
        u.child[s][x] = IF x = n THEN NoNode ELSE IF x = new THEN t.child[s][n]
                        ELSE IF t.child[s][x] = n THEN new ELSE t.child[s][x]
  BY DEF Renamed
<1>3. /\ H \in [Pointers -> Nat] /\ H[NoNode] = 0
      /\ \A x \in T, b \in Sides : H[t.child[b][x]] + Weight(R, x) + Lack(x, b, lp, ls) = H[x]
  BY DEF Even
<1> DEFINE H2 == [x \in Pointers |-> IF x = new THEN H[n] ELSE H[x]]
<1>4. /\ H2 \in [Pointers -> Nat] /\ H2[NoNode] = 0
      /\ \A x \in Pointers : H2[x] = IF x = new THEN H[n] ELSE H[x]
  BY <1>1, <1>3 DEF Pointers
<1> HIDE DEF H2
<1>5. ASSUME NEW x \in (T \ {n}) \cup {new}, NEW b \in Sides
      PROVE  H2[u.child[b][x]] + Weight(R2, x) + Lack(x, b, lp2, ls) = H2[x]
  <2> DEFINE y == IF x = new THEN n ELSE x
             z == t.child[b][y]
  <2>1. y \in T /\ x \in RbNodes /\ x # n /\ y # new /\ y \in RbNodes
    BY <1>1, <1>5
  <2>2. z # new /\ z # y /\ z \in Pointers
    <3>1. z \in Pointers
      BY <1>1, <2>1, TreeSays
    <3> HIDE DEF y
    <3>2. z # NoNode => z \in T /\ z # y
      BY <2>1, ChildSays
    <3>3. QED
      BY <1>1, <2>1, <3>1, <3>2
  <2>3. u.child[b][x] = IF z = n THEN new ELSE z
    <3>1. CASE x = new
      BY <1>1, <1>2, <2>1, <2>2, <3>1
    <3>2. CASE x # new
      BY <1>1, <1>2, <2>1, <3>2
    <3>3. QED
      BY <3>1, <3>2
  <2>4. H2[u.child[b][x]] = H[z] /\ H2[x] = H[y]
    BY <1>1, <1>4, <2>1, <2>2, <2>3 DEF Pointers
  <2>5. Weight(R2, x) = Weight(R, y)
    BY <1>1, <2>1 DEF Weight
  <2>6. x = lp2 <=> y = lp
    BY <1>1, <2>1 DEF Recalled
  <2>7. Lack(x, b, lp2, ls) = Lack(y, b, lp, ls)
    <3> HIDE DEF y
    <3>1. QED
      BY <2>6 DEF Lack
  <2>8. H[z] + Weight(R, y) + Lack(y, b, lp, ls) = H[y]
    BY <1>3, <2>1
  <2>9. QED
    BY <2>4, <2>5, <2>7, <2>8
<1>6. Even(u, (T \ {n}) \cup {new}, R2, H2, lp2, ls)
  BY <1>4, <1>5 DEF Even
<1>7. QED
  BY <1>6

\* A node that takes the place and the colour of another leaves all else.
LEMMA RenameKeepsRest ==
  ASSUME NEW t, NEW T, NEW q, Ordered(t, T, q), NEW R, R \subseteq T, AtRest(t, T, R), NEW n \in T, NEW new \in RbNodes \ T,
         NEW u, Renamed(t, n, new, u), NEW R2, Recast(R, n, new, R2)
  PROVE  AtRest(u, (T \ {n}) \cup {new}, R2)
<1>1. RedRule(u, R2, {})
  BY RenameKeepsRed DEF AtRest
<1> DEFINE lp == NoNode
           ls == "left"
<1>2. PICK H : Even(t, T, R, H, lp, ls)
  BY DEF AtRest
<1>3. lp # new /\ lp = Recalled(lp, n, new)
  BY RbtreeAssumption, OrderedTree DEF Recalled
<1> HIDE DEF lp, ls
<1>4. \E H2 : Even(u, (T \ {n}) \cup {new}, R2, H2, lp, ls)
  BY <1>2, <1>3, RenameKeepsEven
<1>5. QED
  BY <1>1, <1>4 DEF AtRest, lp, ls

\* ... also what is missing.
LEMMA RenameKeepsMissing ==
  ASSUME NEW t, NEW T, NEW q, Ordered(t, T, q), NEW R, R \subseteq T, NEW a, NEW p, Deleting(t, T, R, a, p),
         NEW n \in T, NEW new \in RbNodes \ T, a # n, a # new, NEW u, Renamed(t, n, new, u),
         NEW R2, Recast(R, n, new, R2), NEW p2, p2 = Recalled(p, n, new)
  PROVE  Deleting(u, (T \ {n}) \cup {new}, R2, a, p2)
<1>1. T \subseteq RbNodes /\ NoNode \notin RbNodes /\ n \in RbNodes /\ new \in RbNodes /\ new \notin T /\ n # new /\ t.root \in T
  BY OrderedTree
<1>2. RedRule(u, R2 \ {a}, {})
  <2> DEFINE S == R \ {a}
             S2 == R2 \ {a}
  <2>1. S \subseteq T /\ RedRule(t, S, {}) /\ Recast(S, n, new, S2)
    BY <1>1 DEF Deleting, Recast
  <2> HIDE DEF S, S2
  <2>2. RedRule(u, S2, {})
    BY <2>1, RenameKeepsRed
  <2>3. QED
    BY <2>2 DEF S2
<1>3. u.root = IF t.root = n THEN new ELSE t.root
  BY DEF Renamed
<1>4. CASE a = t.root
  <2> DEFINE lp == NoNode
             ls == "left"
  <2>1. PICK H : Even(t, T, R, H, lp, ls)
    BY <1>4 DEF Deleting
  <2>2. lp # new /\ lp = Recalled(lp, n, new)
    BY <1>1 DEF Recalled
  <2> HIDE DEF lp, ls
  <2>3. \E H2 : Even(u, (T \ {n}) \cup {new}, R2, H2, lp, ls)
    BY <2>1, <2>2, RenameKeepsEven
  <2>4. a = u.root
    BY <1>3, <1>4
  <2>5. QED
    BY <1>2, <2>3, <2>4 DEF Deleting, lp, ls
<1>5. CASE a # t.root
  <2>1. PICK s \in Sides : p \in T /\ t.child[s][p] = a /\ \E H : Even(t, T, R, H, p, s)
    BY <1>5 DEF Deleting
  <2>2. PICK H : Even(t, T, R, H, p, s)
    BY <2>1
  <2>3. p # new /\ p \in RbNodes
    BY <1>1, <2>1
  <2>4. \E H2 : Even(u, (T \ {n}) \cup {new}, R2, H2, p2, s)
    BY <2>2, <2>3, RenameKeepsEven
  <2>5. a # u.root
    BY <1>3, <1>5
  <2>6. p2 \in (T \ {n}) \cup {new} /\ p2 \in RbNodes /\ p2 # n
    BY <1>1, <2>1 DEF Recalled
  <2>7. u.child[s][p2] = a
    <3>1. \A x \in RbNodes : u.child[s][x] = IF x = n THEN NoNode ELSE IF x = new THEN t.child[s][n]
                             ELSE IF t.child[s][x] = n THEN new ELSE t.child[s][x]
      BY DEF Renamed
    <3>2. CASE p = n
      <4>1. p2 = new
        BY <3>2 DEF Recalled
      <4>2. QED
        BY <1>1, <2>1, <3>1, <3>2, <4>1
    <3>3. CASE p # n
      <4>1. p2 = p
        BY <3>3 DEF Recalled
      <4>2. QED
        BY <1>1, <2>1, <2>3, <3>1, <3>3, <4>1
    <3>4. QED
      BY <3>2, <3>3
  <2>8. QED
    BY <1>2, <2>4, <2>5, <2>6, <2>7 DEF Deleting
<1>6. QED
  BY <1>4, <1>5

\* SetParent leaves a tree alone if it gets no node.
LEMMA SetParentIs ==
  ASSUME NEW t \in Trees, NEW n \in Pointers, NEW m \in Pointers, NEW u, u = SetParent(t, n, m)
  PROVE  ParentSet(t, n, m, u)
<1>1. CASE n = NoNode
  <2>1. u = t /\ \A x \in RbNodes : x # n
    BY <1>1, RbtreeAssumption DEF SetParent
  <2>2. QED
    BY <2>1 DEF ParentSet
<1>2. CASE n # NoNode
  <2>1. n \in RbNodes /\ u = [t EXCEPT !.parent[n] = m]
    BY <1>2 DEF SetParent, Pointers
  <2>2. QED
    BY <2>1, SetParentFields
<1>3. QED
  BY <1>1, <1>2

\* new is the node next to n on its right, below it.
Successor(t, T, P, n, new) ==
  /\ new \in T /\ new # n /\ P[new] = P[n] + 1 /\ new # t.root
  /\ t.child["left"][new] = NoNode /\ t.child["left"][n] # new /\ t.child["right"][new] # n
  /\ t.parent[new] = n => t.child["right"][n] = new
  /\ t.parent[new] # n => t.child["left"][t.parent[new]] = new /\ t.child["right"][n] # new

\* ogs_rbtree_min finds it.
LEMMA SuccessorIs ==
  ASSUME NEW t, NEW T, NEW q, NEW P, NEW E, Shape(t, T, q, P, E), NEW n \in T, NEW r, t.child["right"][n] = r, r # NoNode,
         NEW new, new = Outermost(t.child, "left", r)
  PROVE  Successor(t, T, P, n, new)
<1> DEFINE p == t.parent[new]
<1>1. /\ Linked(t, T) /\ Spans(t, T, P, E) /\ Lists(t, T, q, P, E)
      /\ T \subseteq RbNodes /\ n \in RbNodes /\ "left" \in Sides /\ "right" \in Sides
  BY SidesAre DEF Shape, Linked
<1>2. r \in T /\ E["left"][r] = P[n] + 1
  <2> DEFINE s == "right"
  <2>1. s \in Sides /\ t.child[s][n] = r
    BY <1>1
  <2> HIDE DEF s
  <2>2. r \in T /\ (s = "right" => E["left"][r] = P[n] + 1)
    BY <1>1, <2>1, BelowChild
  <2>3. QED
    BY <2>2 DEF s
<1>3. new \in T /\ P[new] = E["left"][r] /\ t.child["left"][new] = NoNode
  <2> DEFINE s == "left"
  <2>1. s \in Sides /\ new = Outermost(t.child, s, r)
    BY <1>1
  <2> HIDE DEF s
  <2>2. new \in T /\ P[new] = E[s][r] /\ t.child[s][new] = NoNode
    BY <1>1, <1>2, <2>1, OutermostIs
  <2>3. QED
    BY <2>2 DEF s
<1>4. P[n] \in Int /\ P[new] \in Int /\ P[new] = P[n] + 1 /\ new # n /\ new \in RbNodes
  BY <1>1, <1>2, <1>3 DEF Spans
<1>5. E["left"][new] = P[new]
  BY <1>1, <1>3 DEF Spans, SpanAt
<1>6. new # t.root
  <2>1. SUFFICES ASSUME new = t.root PROVE FALSE
    OBVIOUS
  <2>2. E["left"][new] = 1 /\ P[n] \in 1 .. Len(q) /\ Len(q) \in Nat
    BY <1>1, <1>3, <2>1, LenProperties DEF Lists
  <2>3. QED
    BY <1>4, <1>5, <2>2
<1>7. t.child["right"][new] # n
  <2> DEFINE s == "right"
             c == t.child[s][new]
  <2>1. s \in Sides /\ n # NoNode
    BY <1>1, RbtreeAssumption
  <2> HIDE DEF s
  <2>2. c # NoNode => P[c] \in Int /\ E["left"][c] \in Int /\ E["left"][c] <= P[c] /\ (s = "right" => E["left"][c] = P[new] + 1)
    BY <1>1, <1>3, <2>1, BelowChild
  <2> HIDE DEF c
  <2>3. c # n
    <3>1. SUFFICES ASSUME c = n PROVE FALSE
      OBVIOUS
    <3> DEFINE a == P[n]
               b == P[new]
               e == E["left"][n]
    <3>2. a \in Int /\ b = a + 1 /\ e \in Int /\ e <= a /\ e = b + 1
      BY <1>4, <2>1, <2>2, <3>1 DEF s
    <3> HIDE DEF a, b, e
    <3>3. QED
      BY <3>2
  <2>4. QED
    BY <2>3 DEF c, s
<1>8. PICK s \in Sides : p \in T /\ t.child[s][p] = new
  BY <1>1, <1>3, <1>6 DEF Linked
<1>9. p \in RbNodes /\ new # NoNode /\ P[p] \in Int
  BY <1>1, <1>3, <1>8, RbtreeAssumption DEF Spans
<1>10. CASE s = "right"
  <2>1. E["left"][new] = P[p] + 1
    <3>1. s = "right" => E["left"][new] = P[p] + 1
      <4> HIDE DEF p
      <4>1. QED
        BY <1>1, <1>8, <1>9, BelowChild
    <3>2. QED
      BY <1>10, <3>1
  <2>2. P[p] = P[n]
    <3> DEFINE a == P[p]
               b == P[n]
               d == P[new]
    <3>1. d = b + 1 /\ d = a + 1 /\ a \in Int /\ b \in Int
      BY <1>4, <1>5, <1>9, <2>1
    <3> SUFFICES a = b
      OBVIOUS
    <3> HIDE DEF a, b, d
    <3>2. QED
      BY <3>1
  <2>3. p = n
    BY <1>1, <1>8, <2>2 DEF Lists
  <2>4. t.child["left"][n] # new
    <3>1. t.child["right"][n] = new
      BY <1>8, <1>10, <2>3
    <3> DEFINE a == "left"
               b == "right"
    <3>2. a \in Sides /\ b \in Sides /\ a # b /\ t.child[b][n] = new
      BY <1>1, <3>1
    <3> HIDE DEF a, b
    <3>3. t.child[a][n] # new
      BY <1>1, <1>9, <3>2, OneParent
    <3>4. QED
      BY <3>3 DEF a
  <2>5. QED
    BY <1>3, <1>4, <1>6, <1>7, <1>8, <1>10, <2>3, <2>4 DEF Successor
<1>11. CASE s = "left"
  <2>1. p # n
    <3>1. SUFFICES ASSUME p = n PROVE FALSE
      OBVIOUS
    <3>2. s = "left" => E["right"][new] = P[n] - 1
      BY <1>1, <1>8, <1>9, <3>1, BelowChild
    <3>3. P[new] <= E["right"][new] /\ E["right"][new] = P[n] - 1
      BY <1>1, <1>3, <1>11, <3>2 DEF Spans
    <3>4. QED
      BY <1>4, <3>3
  <2>2. t.child["left"][n] # new /\ t.child["right"][n] # new
    <3>1. \A b \in Sides : t.child[b][n] # NoNode => t.parent[t.child[b][n]] = n
      BY <1>1 DEF Linked
    <3>2. QED
      BY <1>1, <1>9, <2>1, <3>1
  <2>3. QED
    BY <1>3, <1>4, <1>6, <1>7, <1>8, <1>11, <2>1, <2>2 DEF Successor
<1>12. QED
  BY <1>8, <1>10, <1>11, SidesAre

\* w is t when new has the children of n, and its own right child, c, has gone
\* to its parent p.
Moved(t, n, new, c, p, a, r, w) ==
  /\ w \in Trees /\ w.root = t.root
  /\ \A x \in RbNodes : w.parent[x] = IF x = a \/ (p # n /\ x = r) THEN new ELSE IF p # n /\ x = c THEN p ELSE t.parent[x]
  /\ \A x \in RbNodes, s \in Sides :
       w.child[s][x] = IF x = new THEN IF s = "left" THEN a ELSE IF p # n THEN r ELSE t.child[s][x]
                       ELSE IF p # n /\ x = p /\ s = "left" THEN c ELSE t.child[s][x]

\* What the second half of ogs_rbtree_delete does before it replaces the node.
LEMMA MovedFields ==
  ASSUME NEW t \in Trees, NEW n, NEW new \in RbNodes, NEW c \in Pointers, NEW p \in RbNodes, NEW a \in RbNodes, NEW r \in RbNodes,
         p # new, c # a,
         NEW t1, t1 = SetParent(SetChild(t, "left", new, a), a, new),
         NEW w, w = (IF p = n THEN t1 ELSE SetParent(SetChild(SetChild(SetParent(t1, c, p), "left", p, c), "right", new, r), r, new))
  PROVE  Moved(t, n, new, c, p, a, r, w)
<1>1. /\ "left" \in Sides /\ "right" \in Sides /\ \A s \in Sides : s = "left" \/ s = "right"
      /\ new \in Pointers /\ p \in Pointers /\ a \in Pointers /\ r \in Pointers
  BY SidesAre DEF Pointers
<1> DEFINE w1 == SetChild(t, "left", new, a)
<1>2. ChildSet(t, "left", new, a, w1)
  BY <1>1, SetChildFields
<1>3. t1 = SetParent(w1, a, new)
  OBVIOUS
<1> HIDE DEF w1
<1>4. ParentSet(w1, a, new, t1)
  BY <1>1, <1>2, <1>3, SetParentIs DEF ChildSet
<1>5. /\ t1 \in Trees /\ t1.root = t.root
      /\ \A x \in RbNodes : t1.parent[x] = IF x = a THEN new ELSE t.parent[x]
      /\ \A x \in RbNodes, s \in Sides : t1.child[s][x] = IF s = "left" /\ x = new THEN a ELSE t.child[s][x]
  BY <1>2, <1>4 DEF ParentSet, ChildSet
<1>6. CASE p = n
  <2>1. w = t1
    BY <1>6
  <2>2. ASSUME NEW x \in RbNodes, NEW s \in Sides
        PROVE  w.child[s][x] = IF x = new THEN IF s = "left" THEN a ELSE IF p # n THEN r ELSE t.child[s][x]
                               ELSE IF p # n /\ x = p /\ s = "left" THEN c ELSE t.child[s][x]
    BY <1>5, <1>6, <2>1
  <2>3. QED
    BY <1>5, <1>6, <2>1, <2>2 DEF Moved
<1>7. CASE p # n
  <2> DEFINE w3 == SetParent(t1, c, p)
             w4 == SetChild(w3, "left", p, c)
             w5 == SetChild(w4, "right", new, r)
  <2>1. w = SetParent(w5, r, new)
    BY <1>7
  <2>2. ParentSet(t1, c, p, w3)
    BY <1>1, <1>5, SetParentIs
  <2> HIDE DEF w3
  <2>3. ChildSet(w3, "left", p, c, w4)
    BY <1>1, <2>2, SetChildFields DEF ParentSet
  <2> HIDE DEF w4
  <2>4. ChildSet(w4, "right", new, r, w5)
    BY <1>1, <2>3, SetChildFields DEF ChildSet
  <2> HIDE DEF w5
  <2>5. ParentSet(w5, r, new, w)
    BY <1>1, <2>1, <2>4, SetParentIs DEF ChildSet
  <2>6. w \in Trees /\ w.root = t.root
    BY <1>5, <2>2, <2>3, <2>4, <2>5 DEF ParentSet, ChildSet
  <2>7. \A x \in RbNodes : w.parent[x] = IF x = r THEN new ELSE IF x = c THEN p ELSE IF x = a THEN new ELSE t.parent[x]
    BY <1>5, <2>2, <2>3, <2>4, <2>5 DEF ParentSet, ChildSet
  <2>8. \A x \in RbNodes, s \in Sides : w.child[s][x] = IF s = "right" /\ x = new THEN r ELSE IF s = "left" /\ x = p THEN c
                                                       ELSE IF s = "left" /\ x = new THEN a ELSE t.child[s][x]
    BY <1>5, <2>2, <2>3, <2>4, <2>5 DEF ParentSet, ChildSet
  <2>9. \A x \in RbNodes : w.parent[x] = IF x = a \/ (p # n /\ x = r) THEN new ELSE IF p # n /\ x = c THEN p ELSE t.parent[x]
    BY <1>7, <2>7
  <2>10. ASSUME NEW x \in RbNodes, NEW s \in Sides
         PROVE  w.child[s][x] = IF x = new THEN IF s = "left" THEN a ELSE IF p # n THEN r ELSE t.child[s][x]
                                ELSE IF p # n /\ x = p /\ s = "left" THEN c ELSE t.child[s][x]
    <3>1. CASE s = "left"
      BY <1>7, <2>8, <3>1
    <3>2. CASE s = "right"
      BY <1>7, <2>8, <3>2
    <3>3. QED
      BY <1>1, <3>1, <3>2
  <2>11. QED
    BY <2>6, <2>9, <2>10 DEF Moved
<1>8. QED
  BY <1>6, <1>7

\* The place of n among the links does not depend on where its neighbours hang.
LEMMA MovedHangs ==
  ASSUME NEW t, NEW n \in RbNodes, NEW new \in RbNodes, NEW c, NEW p, NEW a, NEW r, NEW w, Moved(t, n, new, c, p, a, r, w),
         NEW g, Hangs(t, n, g), c # n, a # n, r # n, new # n, p # n => t.child["left"][p] = new, t.child["left"][new] = NoNode,
         t.child["right"][new] # n
  PROVE  Hangs(w, n, g)
<1>1. /\ w.root = t.root
      /\ \A x \in RbNodes, s \in Sides :
           w.child[s][x] = IF x = new THEN IF s = "left" THEN a ELSE IF p # n THEN r ELSE t.child[s][x]
                           ELSE IF p # n /\ x = p /\ s = "left" THEN c ELSE t.child[s][x]
  BY DEF Moved
<1>2. n # NoNode /\ "left" \in Sides /\ \A s \in Sides : s = "left" \/ s = "right"
  BY SidesAre, RbtreeAssumption
<1>3. ASSUME NEW x \in RbNodes, NEW s \in Sides PROVE w.child[s][x] = n <=> t.child[s][x] = n
  <2>1. CASE x = new
    <3>1. t.child[s][x] # n
      BY <1>2, <2>1
    <3>2. w.child[s][x] # n
      BY <1>1, <2>1, <3>1
    <3>3. QED
      BY <3>1, <3>2
  <2>2. CASE x # new /\ p # n /\ x = p /\ s = "left"
    BY <1>1, <2>2
  <2>3. CASE x # new /\ ~(p # n /\ x = p /\ s = "left")
    BY <1>1, <2>3
  <2>4. QED
    BY <2>1, <2>2, <2>3
<1>4. g \in Pointers /\ (g = NoNode <=> t.root = n) /\ (g # NoNode => g \in RbNodes /\ \E s \in Sides : t.child[s][g] = n)
  BY DEF Hangs, Pointers
<1>5. g # NoNode => SideOf(w, n, g) = SideOf(t, n, g)
  BY <1>2, <1>3, <1>4 DEF SideOf
<1>6. ASSUME NEW x \in RbNodes, NEW s \in Sides, w.child[s][x] = n PROVE x = g /\ s = SideOf(w, n, g)
  <2>1. x = g /\ s = SideOf(t, n, g)
    BY <1>3, <1>6 DEF Hangs
  <2>2. g # NoNode
    BY <2>1, RbtreeAssumption
  <2>3. QED
    BY <1>5, <2>1, <2>2
<1>7. g # NoNode => \E s \in Sides : w.child[s][g] = n
  BY <1>3, <1>4
<1>8. QED
  BY <1>1, <1>4, <1>6, <1>7 DEF Hangs

\* What ogs_rbtree_delete does with a node with two children.
Relinked(t, n, new, c, p, a, r, g, u) ==
  \E w : Moved(t, n, new, c, p, a, r, w) /\ u = Forget(ReplaceNode(w, n, new, g), n)

\* That is to unlink its successor, and to give that its place.
LEMMA InnerIsRenamed ==
  ASSUME NEW t, NEW T, NEW q, Ordered(t, T, q), NEW P, NEW n \in T, NEW new, Successor(t, T, P, n, new),
         NEW a, t.child["left"][n] = a, a # NoNode, NEW r, t.child["right"][n] = r, r # NoNode,
         NEW c, t.child["right"][new] = c, NEW p, t.parent[new] = p, NEW g, t.parent[n] = g,
         NEW u, Relinked(t, n, new, c, p, a, r, g, u), NEW v, Unlinked(t, new, c, v)
  PROVE  Renamed(v, n, new, u)
<1>1. PICK w : Moved(t, n, new, c, p, a, r, w) /\ u = Forget(ReplaceNode(w, n, new, g), n)
  BY DEF Relinked
<1> DEFINE w2 == ReplaceNode(w, n, new, g)
<1>2. w2 = ReplaceNode(w, n, new, g) /\ u = Forget(w2, n)
  BY <1>1
<1> HIDE DEF w2
<1>3. /\ new \in T /\ new # n /\ new # t.root
      /\ t.child["left"][new] = NoNode /\ t.child["left"][n] # new
      /\ (p = n => r = new) /\ (p # n => t.child["left"][p] = new /\ r # new) /\ c # n
  BY DEF Successor
<1>4. /\ t \in Trees /\ T \subseteq RbNodes /\ NoNode \notin RbNodes /\ n \in RbNodes /\ new \in RbNodes
      /\ "left" \in Sides /\ "right" \in Sides /\ Other("left") = "right" /\ \A s \in Sides : s = "left" \/ s = "right"
  BY <1>3, OrderedTree, SidesAre DEF Other
<1>5. a \in T /\ a \in RbNodes /\ t.parent[a] = n /\ a # n /\ r \in T /\ r \in RbNodes /\ t.parent[r] = n /\ r # n
  BY <1>4, ChildSays
<1>6. a # r
  <2> DEFINE s == "left"
  <2>1. s \in Sides /\ t.child[s][n] = a /\ t.child[Other(s)][n] = r
    BY <1>4
  <2> HIDE DEF s
  <2>2. QED
    BY <1>4, <2>1, ChildrenDiffer
<1>7. p \in T /\ p \in RbNodes /\ p # new /\ p # NoNode
  BY <1>3, NodeSays
<1>8. /\ c \in Pointers /\ c # a /\ c # r /\ c # n /\ c # new
      /\ c # NoNode => t.parent[c] = new
  <2>1. c \in Pointers
    BY <1>4, TreeSays
  <2>2. c # NoNode => t.parent[c] = new /\ c # new
    BY <1>4, ChildSays
  <2>3. QED
    BY <1>3, <1>4, <1>5, <2>1, <2>2
<1>9. Replaced(w, n, new, g, w2)
  <2>1. PICK P2, E2 : Linked(t, T) /\ Spans(t, T, P2, E2)
    BY DEF Ordered, Shape
  <2>2. Hangs(t, n, g)
    BY <2>1, HangsOnParent
  <2>3. Hangs(w, n, g)
    BY <1>1, <1>3, <1>4, <1>5, <2>2, MovedHangs
  <2>4. w \in Trees /\ new \in Pointers
    BY <1>1, <1>4 DEF Moved, Pointers
  <2>5. QED
    BY <1>2, <1>4, <2>3, <2>4, ReplaceFields
<1>10. /\ u \in Trees /\ u.root = w2.root
       /\ \A x \in RbNodes : u.parent[x] = IF x = n THEN NoNode ELSE w2.parent[x]
       /\ \A x \in RbNodes, s \in Sides : u.child[s][x] = IF x = n THEN NoNode ELSE w2.child[s][x]
  <2>1. w2 \in Trees
    BY <1>9 DEF Replaced
  <2>2. Forgotten(w2, n, u)
    BY <1>2, <1>4, <2>1, ForgetFields
  <2>3. QED
    BY <2>2 DEF Forgotten
<1>11. u.root = IF v.root = n THEN new ELSE v.root
  <2>1. u.root = IF t.root = n THEN new ELSE t.root
    BY <1>1, <1>9, <1>10 DEF Replaced, Moved
  <2>2. v.root = t.root
    BY <1>3 DEF Unlinked
  <2>3. QED
    BY <2>1, <2>2
<1>12. ASSUME NEW x \in RbNodes
       PROVE  u.parent[x] = IF x = n THEN NoNode ELSE IF x = new THEN v.parent[n]
                            ELSE IF v.parent[x] = n THEN new ELSE v.parent[x]
  <2>1. u.parent[x] = IF x = n THEN NoNode ELSE IF x = new THEN g ELSE w.parent[x]
    BY <1>9, <1>10 DEF Replaced
  <2>2. w.parent[x] = IF x = a \/ (p # n /\ x = r) THEN new ELSE IF p # n /\ x = c THEN p ELSE t.parent[x]
    BY <1>1 DEF Moved
  <2>3. v.parent[n] = g /\ (x # new => v.parent[x] = IF x = c THEN p ELSE t.parent[x])
    BY <1>3, <1>4 DEF Unlinked
  <2>4. CASE x = n \/ x = new
    BY <1>3, <2>1, <2>3, <2>4
  <2>5. CASE x # n /\ x # new /\ t.parent[x] = n
    <3>1. x = a \/ x = r
      <4>1. x # NoNode /\ x \in T
        <5>1. PICK P2, E2 : Linked(t, T)
          BY DEF Ordered, Shape
        <5>2. QED
          BY <1>4, <2>5, <5>1 DEF Linked
      <4>2. PICK s \in Sides : t.child[s][n] = x
        BY <1>4, <2>5, <4>1, SideSays
      <4>3. QED
        BY <1>4, <4>2
    <3>2. x # c
      BY <1>8, <3>1
    <3>3. QED
      BY <1>3, <2>1, <2>2, <2>3, <2>5, <3>1, <3>2
  <2>6. CASE x # n /\ x # new /\ t.parent[x] # n
    <3>1. x # a /\ x # r
      BY <1>5, <2>6
    <3>2. x = c => t.parent[x] = new
      BY <1>4, <1>8
    <3>3. QED
      BY <1>3, <1>7, <2>1, <2>2, <2>3, <2>6, <3>1, <3>2
  <2>7. QED
    BY <2>4, <2>5, <2>6
<1>13. ASSUME NEW x \in RbNodes, NEW s \in Sides
       PROVE  u.child[s][x] = IF x = n THEN NoNode ELSE IF x = new THEN v.child[s][n]
                              ELSE IF v.child[s][x] = n THEN new ELSE v.child[s][x]
  <2>1. u.child[s][x] = IF x = n THEN NoNode ELSE IF w.child[s][x] = n THEN new ELSE w.child[s][x]
    BY <1>9, <1>10 DEF Replaced
  <2>2. w.child[s][x] = IF x = new THEN IF s = "left" THEN a ELSE IF p # n THEN r ELSE t.child[s][x]
                        ELSE IF p # n /\ x = p /\ s = "left" THEN c ELSE t.child[s][x]
    BY <1>1 DEF Moved
  <2>3. /\ v.child[s][n] = IF t.child[s][n] = new THEN c ELSE t.child[s][n]
        /\ x # new => v.child[s][x] = IF t.child[s][x] = new THEN c ELSE t.child[s][x]
    BY <1>3, <1>4 DEF Unlinked
  <2>4. CASE x = n
    BY <2>1, <2>4
  <2>5. CASE x = new
    <3>1. CASE s = "left"
      BY <1>3, <1>5, <2>1, <2>2, <2>3, <2>5, <3>1
    <3>2. CASE s = "right"
      BY <1>3, <1>4, <1>5, <1>8, <2>1, <2>2, <2>3, <2>5, <3>2
    <3>3. QED
      BY <1>4, <3>1, <3>2
  <2>6. CASE x # n /\ x # new /\ t.child[s][x] = new
    <3>1. x = p /\ p # n
      BY <1>4, <2>6, ChildSays
    <3>2. s = "left"
      <4>1. SUFFICES ASSUME s = "right" PROVE FALSE
        BY <1>4
      <4> DEFINE b == "left"
      <4>2. b \in Sides /\ Other(b) = s /\ t.child[b][p] = new /\ t.child[Other(b)][p] = new /\ new # NoNode
        BY <1>3, <1>4, <2>6, <3>1, <4>1
      <4> HIDE DEF b
      <4>3. QED
        BY <1>7, <4>2, ChildrenDiffer
    <3>3. QED
      BY <1>8, <2>1, <2>2, <2>3, <2>6, <3>1, <3>2
  <2>7. CASE x # n /\ x # new /\ t.child[s][x] # new
    <3>1. ~(p # n /\ x = p /\ s = "left")
      BY <1>3, <2>7
    <3>2. QED
      BY <2>1, <2>2, <2>3, <2>7, <3>1
  <2>8. QED
    BY <2>4, <2>5, <2>6, <2>7
<1>14. QED
  BY <1>10, <1>11, <1>12, <1>13 DEF Renamed

\* ... and that leaves the order without it: its successor is at its place.
LEMMA InnerKeepsOrder ==
  ASSUME NEW t, NEW T, NEW q, NEW P, NEW E, Shape(t, T, q, P, E), KeysAlong(q), NEW n \in T, NEW new, Successor(t, T, P, n, new),
         NEW c, t.child["right"][new] = c, NEW v, Unlinked(t, new, c, v), NEW u, Renamed(v, n, new, u)
  PROVE  Without(T, q, n, u)
<1> DEFINE q2 == RemoveAt(q, P[n])
<1>1. q2 = RemoveAt(q, P[n])
  OBVIOUS
<1> HIDE DEF q2
<1>2. /\ P \in [RbNodes -> Int] /\ E \in [Sides -> [RbNodes -> Int]] /\ n \in RbNodes /\ T \subseteq RbNodes
      /\ P[n] \in 1 .. Len(q) /\ q[P[n]] = n /\ q \in Seq(RbNodes) /\ Len(q) \in Nat
  BY LenProperties DEF Shape, Spans, Lists, Linked
<1>3. new \in T /\ new # n /\ P[new] = P[n] + 1 /\ t.child["left"][new] = NoNode
  BY DEF Successor
<1>4. new \in RbNodes /\ P[new] \in 1 .. Len(q) /\ q[P[new]] = new
  BY <1>2, <1>3 DEF Shape, Lists
<1> DEFINE d == "right"
<1>5. d \in Sides /\ t.child[Other(d)][new] = NoNode /\ c = t.child[d][new]
  BY <1>3, SidesAre DEF Other
<1> HIDE DEF d
<1>6. PICK q1, P1, E1 : Gone(q, P, E, new, q1, P1, E1)
  BY <1>2, <1>4, GoneExist
<1>7. Shape(v, T \ {new}, q1, P1, E1)
  BY <1>3, <1>5, <1>6, UnlinkKeepsShape
<1>8. P1 \in [RbNodes -> Int] /\ E1 \in [Sides -> [RbNodes -> Int]] /\ q1 = RemoveAt(q, P[new]) /\ P1[n] = P[n]
  <2>1. P1[n] = IF P[n] > P[new] THEN P[n] - 1 ELSE P[n]
    BY <1>2, <1>6 DEF Gone
  <2>2. P1[n] = P[n]
    <3> DEFINE a == P[n]
               b == P[new]
    <3>1. P1[n] = (IF a > b THEN a - 1 ELSE a) /\ b = a + 1 /\ a \in Int
      BY <1>2, <1>3, <2>1
    <3> SUFFICES P1[n] = a
      OBVIOUS
    <3> HIDE DEF a, b
    <3>2. QED
      BY <3>1
  <2>3. QED
    BY <1>6, <2>2 DEF Gone
<1>9. PICK q3, P3, E3 : Taken(q1, P1, E1, n, new, q3, P3, E3)
  BY <1>2, <1>8, TakenExist
<1>10. Shape(u, ((T \ {new}) \ {n}) \cup {new}, q3, P3, E3)
  <2>1. n \in T \ {new} /\ new \in RbNodes \ (T \ {new})
    BY <1>3, <1>4
  <2>2. QED
    BY <1>7, <1>9, <2>1, RenameKeepsShape
<1>11. ((T \ {new}) \ {n}) \cup {new} = T \ {n}
  BY <1>3
<1>12. q3 = q2
  <2> DEFINE k == P[n]
             j == P[new]
  <2>1. k \in 1 .. Len(q) /\ q2 = RemoveAt(q, k) /\ j \in 1 .. Len(q) /\ q1 = RemoveAt(q, j) /\ j = k + 1 /\ q[j] = new
        /\ q3 = [q1 EXCEPT ![k] = new]
    BY <1>1, <1>2, <1>3, <1>4, <1>8, <1>9 DEF Taken
  <2> HIDE DEF k, j
  <2>2. Removes(q, k, q2) /\ Removes(q, j, q1)
    BY <1>2, <2>1, RemovedLooks
  <2>3. /\ q2 \in Seq(RbNodes) /\ Len(q2) = Len(q) - 1 /\ q1 \in Seq(RbNodes) /\ Len(q1) = Len(q) - 1
        /\ \A i \in 1 .. Len(q2) : q2[i] = IF i < k THEN q[i] ELSE q[i + 1]
        /\ \A i \in 1 .. Len(q1) : q1[i] = IF i < j THEN q[i] ELSE q[i + 1]
    BY <2>2 DEF Removes
  <2>4. k \in 1 .. Len(q1)
    BY <1>2, <2>1, <2>3
  <2>5. q3 \in Seq(RbNodes) /\ Len(q3) = Len(q1) /\ \A i \in 1 .. Len(q1) : q3[i] = IF i = k THEN new ELSE q1[i]
    <3>1. q1 \in Seq(RbNodes) /\ k \in 1 .. Len(q1) /\ new \in RbNodes
      BY <1>4, <2>3, <2>4
    <3>2. /\ [q1 EXCEPT ![k] = new] \in Seq(RbNodes) /\ Len([q1 EXCEPT ![k] = new]) = Len(q1)
          /\ \A i \in 1 .. Len(q1) : [q1 EXCEPT ![k] = new][i] = IF i = k THEN new ELSE q1[i]
      BY <3>1, ExceptSeq
    <3>3. QED
      BY <2>1, <3>2
  <2>6. ASSUME NEW i \in 1 .. Len(q3) PROVE q3[i] = q2[i]
    <3>1. i \in 1 .. Len(q1) /\ i \in 1 .. Len(q2)
      BY <2>3, <2>5
    <3>2. CASE i < k
      <4>1. i # k /\ i < j
        BY <2>1, <3>2
      <4>2. QED
        BY <2>3, <2>5, <3>1, <3>2, <4>1
    <3>3. CASE i = k
      <4>1. ~(i < k) /\ i + 1 = j
        BY <2>1, <3>3
      <4>2. q3[i] = new /\ q2[i] = q[i + 1]
        BY <2>3, <2>5, <3>1, <3>3, <4>1
      <4>3. QED
        BY <2>1, <4>1, <4>2
    <3>4. CASE i > k
      <4>1. i # k /\ ~(i < j) /\ ~(i < k)
        BY <2>1, <3>4
      <4>2. QED
        BY <2>3, <2>5, <3>1, <4>1
    <3>5. QED
      BY <2>1, <3>2, <3>3, <3>4
  <2>7. QED
    BY <2>3, <2>5, <2>6, SeqEqual
<1>13. KeysAlong(q2)
  <2> DEFINE k == P[n]
  <2>1. k \in 1 .. Len(q) /\ q2 = RemoveAt(q, k)
    BY <1>1, <1>2
  <2> HIDE DEF k
  <2>2. QED
    BY <1>2, <2>1, RemoveKeepsKeys
<1>14. Ordered(u, T \ {n}, q2)
  BY <1>10, <1>11, <1>12, <1>13 DEF Ordered
<1>15. QED
  BY <1>1, <1>2, <1>14 DEF Without

\* A node with one child at most.
LEMMA OuterKeeps ==
  ASSUME NEW t, NEW T, NEW q, Ordered(t, T, q), NEW R, R \subseteq T, AtRest(t, T, R), NEW n \in T, NEW d \in Sides,
         t.child[Other(d)][n] = NoNode, NEW c, t.child[d][n] = c, NEW p, t.parent[n] = p,
         NEW v, v = ReplaceNode(t, n, c, t.parent[n]), NEW u, u = Forget(v, n), NEW R2, R2 = R \ {n}
  PROVE  /\ Without(T, q, n, u)
         /\ n \in R => AtRest(u, T \ {n}, R2)
         /\ n \notin R => Deleting(u, T \ {n}, R2, c, p)
<1>1. Unlinked(t, n, c, u)
  BY OuterIsUnlinked
<1>2. Without(T, q, n, u)
  BY <1>1, UnlinkKeepsOrder
<1>3. n \in R => AtRest(u, T \ {n}, R2)
  BY <1>1, RedIsNotMissed
<1>4. n \notin R => Deleting(u, T \ {n}, R2, c, p)
  <2>1. SUFFICES ASSUME n \notin R PROVE Deleting(u, T \ {n}, R2, c, p)
    OBVIOUS
  <2>2. R2 = R
    BY <2>1
  <2>3. Deleting(u, T \ {n}, R, c, p)
    BY <1>1, <2>1, BlackIsMissed
  <2>4. QED
    BY <2>2, <2>3
<1>5. QED
  BY <1>2, <1>3, <1>4

\* The parts of ogs_rbtree_delete for a node with two children: a and r are
\* the children, new the successor, c its right child and p its parent, g that
\* of n.  The loop would start at c, below p2.
InnerParts(t, n, a, r, new, c, p, g, u, R, R2, p2) ==
  /\ t.child["left"][n] = a /\ a # NoNode /\ t.child["right"][n] = r /\ r # NoNode
  /\ new = Outermost(t.child, "left", r) /\ t.child["right"][new] = c /\ t.parent[new] = p /\ t.parent[n] = g
  /\ LET t1 == SetParent(SetChild(t, "left", new, a), a, new)
         w == IF p = n THEN t1
              ELSE SetParent(SetChild(SetChild(SetParent(t1, c, p), "left", p, c), "right", new, r), r, new)
     IN  u = Forget(ReplaceNode(w, n, new, g), n)
  /\ R2 = (IF n \in R THEN (R \ {n}) \cup {new} ELSE R \ {n, new})
  /\ p2 = (IF p = n THEN new ELSE p)

\* A node with two: the colour that leaves its place is that of its successor.
LEMMA InnerKeeps ==
  ASSUME NEW t, NEW T, NEW q, Ordered(t, T, q), NEW R, R \subseteq T, AtRest(t, T, R), NEW n \in T,
         NEW a, NEW r, NEW new, NEW c, NEW p, NEW g, NEW u, NEW R2, NEW p2,
         InnerParts(t, n, a, r, new, c, p, g, u, R, R2, p2)
  PROVE  /\ Without(T, q, n, u)
         /\ new \in R => AtRest(u, T \ {n}, R2)
         /\ new \notin R => Deleting(u, T \ {n}, R2, c, p2)
<1> DEFINE t1 == SetParent(SetChild(t, "left", new, a), a, new)
           w == IF p = n THEN t1
                ELSE SetParent(SetChild(SetChild(SetParent(t1, c, p), "left", p, c), "right", new, r), r, new)
<1>1. /\ t.child["left"][n] = a /\ a # NoNode /\ t.child["right"][n] = r /\ r # NoNode
      /\ new = Outermost(t.child, "left", r) /\ t.child["right"][new] = c /\ t.parent[new] = p /\ t.parent[n] = g
      /\ t1 = SetParent(SetChild(t, "left", new, a), a, new)
      /\ w = (IF p = n THEN t1
              ELSE SetParent(SetChild(SetChild(SetParent(t1, c, p), "left", p, c), "right", new, r), r, new))
      /\ u = Forget(ReplaceNode(w, n, new, g), n)
      /\ R2 = (IF n \in R THEN (R \ {n}) \cup {new} ELSE R \ {n, new})
      /\ p2 = (IF p = n THEN new ELSE p)
  BY DEF InnerParts
<1> HIDE DEF t1, w
<1>2. PICK P, E : Shape(t, T, q, P, E)
  BY DEF Ordered
<1>3. Successor(t, T, P, n, new)
  BY <1>1, <1>2, SuccessorIs
<1>4. /\ T \subseteq RbNodes /\ NoNode \notin RbNodes /\ NoNode \notin T /\ t \in Trees /\ KeysAlong(q)
      /\ "left" \in Sides /\ "right" \in Sides
  BY <1>1, OrderedTree, SidesAre DEF Ordered
<1>5. new \in T /\ new # n /\ new # t.root /\ t.child["left"][new] = NoNode /\ c # n /\ new \in RbNodes /\ n \in RbNodes
  BY <1>1, <1>3, <1>4 DEF Successor
<1>6. a \in RbNodes /\ r \in RbNodes /\ t.parent[a] = n /\ c \in Pointers /\ (c # NoNode => t.parent[c] = new /\ c # new)
  <2>1. a \in RbNodes /\ t.parent[a] = n
    BY <1>1, <1>4, <1>5, ChildSays
  <2>2. r \in RbNodes
    BY <1>1, <1>4, <1>5, ChildSays
  <2>3. c # NoNode => t.parent[c] = new /\ c # new
    BY <1>1, <1>4, <1>5, ChildSays
  <2>4. QED
    BY <1>1, <1>4, <1>5, <2>1, <2>2, <2>3, TreeSays
<1>7. p \in RbNodes /\ p # new
  BY <1>1, <1>4, <1>5, NodeSays
<1>8. c # a /\ c # new
  BY <1>1, <1>4, <1>5, <1>6
<1>9. Relinked(t, n, new, c, p, a, r, g, u)
  <2>1. Moved(t, n, new, c, p, a, r, w)
    BY <1>1, <1>4, <1>5, <1>6, <1>7, <1>8, MovedFields
  <2>2. QED
    BY <1>1, <2>1 DEF Relinked
<1> DEFINE v1 == ReplaceNode(t, new, c, t.parent[new])
           v == Forget(v1, new)
           d == "right"
<1>10. d \in Sides /\ t.child[d][new] = c /\ t.child[Other(d)][new] = NoNode
  BY <1>1, <1>4, <1>5 DEF Other
<1> HIDE DEF d
<1>11. Unlinked(t, new, c, v)
  <2> HIDE DEF v1
  <2>1. v1 = ReplaceNode(t, new, c, t.parent[new]) /\ v = Forget(v1, new)
    BY DEF v1
  <2> HIDE DEF v
  <2>2. QED
    BY <1>1, <1>5, <1>10, <2>1, OuterIsUnlinked
<1> HIDE DEF v, v1
<1>12. Renamed(v, n, new, u)
  BY <1>1, <1>3, <1>9, <1>11, InnerIsRenamed
<1>13. Without(T, q, n, u)
  BY <1>1, <1>2, <1>3, <1>4, <1>11, <1>12, InnerKeepsOrder
<1>14. PICK q1 : Ordered(v, T \ {new}, q1)
  <2>1. Without(T, q, new, v)
    BY <1>1, <1>5, <1>10, <1>11, UnlinkKeepsOrder
  <2>2. QED
    BY <1>1, <2>1 DEF Without
<1> DEFINE R1 == R \ {new}
           T1 == T \ {new}
<1>15. R1 \subseteq T1 /\ Recast(R1, n, new, R2) /\ n \in T1 /\ new \in RbNodes \ T1 /\ (T1 \ {n}) \cup {new} = T \ {n}
  BY <1>1, <1>4, <1>5 DEF Recast
<1>16. p2 = Recalled(p, n, new)
  BY <1>1 DEF Recalled
<1>17. ASSUME new \in R PROVE AtRest(u, T \ {n}, R2)
  <2>1. AtRest(v, T1, R1)
    BY <1>1, <1>10, <1>11, <1>17, RedIsNotMissed
  <2>2. Ordered(v, T1, q1)
    BY <1>1, <1>14
  <2> HIDE DEF R1, T1
  <2>3. AtRest(u, (T1 \ {n}) \cup {new}, R2)
    BY <1>1, <1>12, <1>15, <2>1, <2>2, RenameKeepsRest
  <2>4. QED
    BY <1>1, <1>15, <2>3
<1>18. ASSUME new \notin R PROVE Deleting(u, T \ {n}, R2, c, p2)
  <2>1. Deleting(v, T1, R, c, p) /\ R1 = R
    BY <1>1, <1>5, <1>10, <1>11, <1>18, BlackIsMissed
  <2>2. Ordered(v, T1, q1)
    BY <1>1, <1>14
  <2> HIDE DEF R1, T1
  <2>3. Deleting(u, (T1 \ {n}) \cup {new}, R2, c, p2)
    BY <1>1, <1>5, <1>8, <1>12, <1>15, <1>16, <2>1, <2>2, RenameKeepsMissing
  <2>4. QED
    BY <1>1, <1>15, <2>3
<1>19. QED
  BY <1>1, <1>13, <1>17, <1>18

\* The loop of rb_delete_color is at a, a black node or none, below p on the
\* side s.
Lacking(t, T, q, R, a, p, s) ==
  /\ Ordered(t, T, q) /\ R \subseteq T
  /\ p \in T /\ s \in Sides /\ t.child[s][p] = a /\ a \notin R
  /\ RedRule(t, R, {}) /\ \E H : Even(t, T, R, H, p, s)

\* a and its sibling.
Siblings(t, T, R, a, p, s, far, y) ==
  /\ p \in RbNodes /\ p \in T /\ p # NoNode /\ s \in Sides /\ far \in Sides /\ far # s /\ Other(s) = far /\ Other(far) = s
  /\ t.child[s][p] = a /\ t.child[far][p] = y
  /\ y \in T /\ y \in RbNodes /\ y # NoNode /\ t.parent[y] = p /\ y # a /\ y # p /\ a # p /\ a \in Pointers
  /\ \A b \in Sides : t.child[b][y] # p
  /\ SideOf(t, a, p) = s

\* There is a sibling, as no way through it lacks a black node.
LEMMA SiblingIs ==
  ASSUME NEW t, NEW T, NEW q, NEW R, NEW a, NEW p, NEW s, Lacking(t, T, q, R, a, p, s),
         NEW far, Other(s) = far, NEW y, t.child[far][p] = y
  PROVE  Siblings(t, T, R, a, p, s, far, y)
<1>1. /\ Ordered(t, T, q) /\ R \subseteq T /\ p \in T /\ s \in Sides /\ t.child[s][p] = a /\ a \notin R
  BY DEF Lacking
<1>2. /\ t \in Trees /\ T \subseteq RbNodes /\ NoNode \notin RbNodes /\ p \in RbNodes /\ p # NoNode
      /\ far \in Sides /\ far # s /\ Other(far) = s
  BY <1>1, OrderedTree, SidesAre
<1>3. a \in Pointers /\ y \in Pointers
  BY <1>1, <1>2, TreeSays
<1>4. PICK H : Even(t, T, R, H, p, s)
  BY DEF Lacking
<1>5. y # NoNode
  <2> DEFINE ha == H[a]
             hy == H[y]
             hp == H[p]
             w == Weight(R, p)
             la == Lack(p, s, p, s)
             ly == Lack(p, far, p, s)
  <2>1. ha + w + la = hp /\ hy + w + ly = hp
    BY <1>1, <1>2, <1>4 DEF Even
  <2>2. ha \in Nat /\ hy \in Nat /\ hp \in Nat /\ H[NoNode] = 0
    BY <1>2, <1>3, <1>4 DEF Even, Pointers
  <2>3. w \in Nat /\ la = 1 /\ ly = 0
    BY <1>2, WeightIs, LackIs
  <2>4. hy # 0
    <3> HIDE DEF ha, hy, hp, w, la, ly
    <3>1. QED
      BY <2>1, <2>2, <2>3
  <2>5. QED
    BY <2>2, <2>4
<1>6. y \in T /\ y \in RbNodes /\ t.parent[y] = p /\ y # p
  BY <1>1, <1>2, <1>5, ChildSays
<1>7. y # a
  BY <1>1, <1>2, <1>5, ChildrenDiffer
<1>8. a # p
  <2>1. a # NoNode => a # p
    BY <1>1, <1>2, ChildSays
  <2>2. QED
    BY <1>2, <2>1
<1>9. \A b \in Sides : t.child[b][y] # p
  <2>1. PICK P, E : Linked(t, T) /\ Spans(t, T, P, E)
    BY <1>1 DEF Ordered, Shape
  <2>2. QED
    BY <1>1, <1>2, <1>5, <2>1, Apart
<1>10. SideOf(t, a, p) = s
  <2>1. CASE s = "left"
    BY <1>1, <2>1 DEF SideOf
  <2>2. CASE s = "right"
    <3>1. far = "left"
      BY <2>2 DEF Other
    <3>2. QED
      BY <1>7, <2>2, <3>1 DEF SideOf
  <2>3. QED
    BY <1>1, <2>1, <2>2, SidesAre
<1>11. QED
  BY <1>1, <1>2, <1>3, <1>5, <1>6, <1>7, <1>8, <1>9, <1>10 DEF Siblings

\* The sibling is y.
BlackBy(t, T, q, R, a, p, s, y) == Lacking(t, T, q, R, a, p, s) /\ t.child[Other(s)][p] = y /\ y \notin R

\* Case 1: a red sibling is rotated away, and the next one is black.
LEMMA RedSibling ==
  ASSUME NEW t, NEW T, NEW q, NEW R, NEW a, NEW p, NEW s, Lacking(t, T, q, R, a, p, s),
         NEW far, Other(s) = far, NEW y, t.child[far][p] = y, y \in R,
         NEW u, u = Rotate(t, p, s), NEW R2, R2 = (R \ {y}) \cup {p}, NEW y2, u.child[far][p] = y2
  PROVE  BlackBy(u, T, q, R2, a, p, s, y2)
<1>1. /\ Ordered(t, T, q) /\ R \subseteq T /\ p \in T /\ s \in Sides /\ t.child[s][p] = a /\ a \notin R
      /\ RedRule(t, R, {})
  BY DEF Lacking
<1>2. /\ p \in RbNodes /\ p # NoNode /\ far \in Sides /\ far # s /\ t.child[Other(s)][p] = y
      /\ y \in T /\ y \in RbNodes /\ y # NoNode /\ t.parent[y] = p /\ y # a /\ y # p /\ a # p /\ T \subseteq RbNodes
  <2>1. Siblings(t, T, R, a, p, s, far, y)
    BY SiblingIs
  <2>2. QED
    BY <1>1, <2>1, OrderedTree DEF Siblings
<1> DEFINE m == t.child[s][y]
<1>3. t.child[s][y] = m
  OBVIOUS
<1> HIDE DEF m
<1>4. Pivot(t, T, p, s, y, m) /\ Turned(t, p, s, y, m, u) /\ Ordered(u, T, q)
  BY <1>1, <1>2, <1>3, RotateIs
<1>5. PICK P, E : Linked(t, T) /\ Spans(t, T, P, E)
  BY <1>1 DEF Ordered, Shape
<1>6. p \notin R
  BY <1>1, <1>2 DEF RedRule
<1>7. Swapped(R, p, y, R2) /\ R2 \subseteq T
  BY <1>1, <1>2, <1>6 DEF Swapped
<1>8. m \notin R /\ m # p
  <2> DEFINE A == {}
             x == y
  <2>1. RedRule(t, R, A) /\ m \notin A /\ m = t.child[s][x] /\ x \in R /\ s \in Sides /\ Ordered(t, T, q) /\ R \subseteq T
    BY <1>1, <1>3
  <2> HIDE DEF A, x
  <2>2. m \notin R
    BY <2>1, RedHasBlack
  <2>3. m # p
    <3>1. Siblings(t, T, R, a, p, s, far, y)
      BY SiblingIs
    <3>2. QED
      BY <1>1, <1>3, <3>1 DEF Siblings
  <2>4. QED
    BY <2>2, <2>3
<1>9. RedRule(u, R2, {})
  <2> DEFINE A == {}
  <2>1. RedRule(t, R, A) /\ p \notin A /\ A \subseteq A \cup {y} /\ (p \in R => p \in A)
    BY <1>1, <1>6
  <2>2. t.child[s][p] \notin R
    BY <1>1
  <2> HIDE DEF A
  <2>3. RedRule(u, R2, A)
    BY <1>1, <1>4, <1>5, <1>7, <1>8, <2>1, <2>2, SwapRedRule
  <2>4. QED
    BY <2>3 DEF A
<1>10. PICK H : Even(t, T, R, H, p, s)
  BY DEF Lacking
<1>11. \E H2 : Even(u, T, R2, H2, p, s)
  <2>1. p # y /\ ~(p = p /\ s = Other(s))
    BY <1>1, <1>2, SidesAre
  <2>2. QED
    BY <1>4, <1>5, <1>7, <1>10, <2>1, SwapRedEven
<1>12. u.child[s][p] = a /\ u.child[far][p] = m
  BY <1>1, <1>2, <1>4 DEF Turned
<1>13. a \notin R2 /\ m \notin R2
  BY <1>1, <1>2, <1>8
<1>14. Lacking(u, T, q, R2, a, p, s)
  BY <1>1, <1>4, <1>7, <1>9, <1>11, <1>12, <1>13 DEF Lacking
<1>15. QED
  BY <1>12, <1>13, <1>14 DEF BlackBy

\* Case 3: the near child of the sibling, red, takes its place, and it is the
\* red far child of that one.
LEMMA NearRed ==
  ASSUME NEW t, NEW T, NEW q, NEW R, NEW a, NEW p, NEW s, NEW y, BlackBy(t, T, q, R, a, p, s, y),
         NEW far, Other(s) = far, NEW near, t.child[s][y] = near, near \in R, t.child[far][y] \notin R,
         NEW u, u = Rotate(t, y, far), NEW R2, R2 = (R \ {near}) \cup {y}, NEW y2, u.child[far][p] = y2
  PROVE  BlackBy(u, T, q, R2, a, p, s, y2) /\ u.child[far][y2] \in R2
<1>1. /\ Lacking(t, T, q, R, a, p, s) /\ t.child[far][p] = y /\ y \notin R
  BY DEF BlackBy
<1>2. /\ Ordered(t, T, q) /\ R \subseteq T /\ p \in T /\ s \in Sides /\ t.child[s][p] = a /\ a \notin R
      /\ RedRule(t, R, {})
  BY <1>1 DEF Lacking
<1>3. /\ p \in RbNodes /\ p # NoNode /\ far \in Sides /\ far # s /\ Other(far) = s
      /\ y \in T /\ y \in RbNodes /\ y # NoNode /\ t.parent[y] = p /\ y # a /\ y # p /\ a # p /\ near # p
  <2>1. Siblings(t, T, R, a, p, s, far, y)
    BY <1>1, SiblingIs
  <2>2. QED
    BY <1>2, <2>1 DEF Siblings
<1>4. T \subseteq RbNodes /\ near # NoNode /\ near # y /\ near \in RbNodes /\ near \in T
  BY <1>1, <1>2, OrderedTree
<1> DEFINE m == t.child[far][near]
<1>5. t.child[far][near] = m /\ t.child[Other(far)][y] = near
  BY <1>3
<1> HIDE DEF m
<1>6. Pivot(t, T, y, far, near, m) /\ Turned(t, y, far, near, m, u) /\ Ordered(u, T, q)
  BY <1>2, <1>3, <1>4, <1>5, RotateIs
<1>7. PICK P, E : Linked(t, T) /\ Spans(t, T, P, E)
  BY <1>2 DEF Ordered, Shape
<1>8. Swapped(R, y, near, R2) /\ R2 \subseteq T
  BY <1>1, <1>2, <1>3, <1>4 DEF Swapped
<1>9. m \notin R
  <2> DEFINE A == {}
  <2>1. RedRule(t, R, A) /\ m \notin A
    BY <1>2
  <2> HIDE DEF A
  <2>2. QED
    BY <1>2, <1>3, <1>5, <2>1, RedHasBlack, SMTT(60)
<1>10. RedRule(u, R2, {})
  <2> DEFINE A == {}
  <2>1. RedRule(t, R, A) /\ y \notin A /\ A \subseteq A \cup {near} /\ (y \in R => y \in A)
    BY <1>1, <1>2
  <2> HIDE DEF A
  <2>2. RedRule(u, R2, A)
    BY <1>2, <1>6, <1>7, <1>8, <1>9, <2>1, SwapRedRule
  <2>3. QED
    BY <2>2 DEF A
<1>11. PICK H : Even(t, T, R, H, p, s)
  BY <1>1 DEF Lacking
<1>12. \E H2 : Even(u, T, R2, H2, p, s)
  <2>1. p # near /\ ~(p = y /\ s = Other(far))
    BY <1>3
  <2>2. QED
    BY <1>6, <1>7, <1>8, <1>11, <2>1, SwapRedEven
<1>13. u.child[s][p] = a /\ u.child[far][p] = near /\ u.child[far][near] = y
  BY <1>1, <1>2, <1>3, <1>4, <1>6 DEF Turned
<1>14. a \notin R2 /\ near \notin R2 /\ y \in R2
  BY <1>2, <1>3, <1>4
<1>15. Lacking(u, T, q, R2, a, p, s)
  BY <1>2, <1>6, <1>8, <1>10, <1>12, <1>13, <1>14 DEF Lacking
<1>16. QED
  BY <1>13, <1>14, <1>15 DEF BlackBy

\* Case 4: the sibling comes up, and its far child is black: nothing is missing.
LEMMA FarRed ==
  ASSUME NEW t, NEW T, NEW q, NEW R, NEW a, NEW p, NEW s, NEW y, BlackBy(t, T, q, R, a, p, s, y),
         NEW far, Other(s) = far, NEW c, t.child[far][y] = c, c \in R, NEW u, u = Rotate(t, p, s),
         NEW R2, R2 = (IF p \in R THEN R \cup {y} ELSE R \ {y}) \ {p, c}, NEW p2
  PROVE  Ordered(u, T, q) /\ R2 \subseteq T /\ Deleting(u, T, R2, u.root, p2)
<1>1. /\ Lacking(t, T, q, R, a, p, s) /\ t.child[far][p] = y /\ y \notin R
  BY DEF BlackBy
<1>2. /\ Ordered(t, T, q) /\ R \subseteq T /\ p \in T /\ s \in Sides /\ RedRule(t, R, {})
  BY <1>1 DEF Lacking
<1>3. /\ p \in RbNodes /\ far \in Sides /\ t.child[Other(s)][p] = y /\ y \in T /\ y \in RbNodes /\ y # NoNode /\ y # p
      /\ T \subseteq RbNodes /\ c # NoNode
  <2>1. Siblings(t, T, R, a, p, s, far, y)
    BY <1>1, SiblingIs
  <2>2. QED
    BY <1>1, <1>2, <2>1, OrderedTree DEF Siblings
<1> DEFINE m == t.child[s][y]
<1>4. t.child[s][y] = m /\ t.child[Other(s)][y] = c
  OBVIOUS
<1> HIDE DEF m
<1>5. Pivot(t, T, p, s, y, m) /\ Turned(t, p, s, y, m, u) /\ Ordered(u, T, q)
  BY <1>2, <1>3, <1>4, RotateIs
<1>6. PICK P, E : Linked(t, T) /\ Spans(t, T, P, E)
  BY <1>2 DEF Ordered, Shape
<1>7. Levelled(R, p, y, c, R2) /\ R2 \subseteq T
  BY <1>1, <1>2, <1>3 DEF Levelled
<1>8. PICK H : Even(t, T, R, H, p, s)
  BY <1>1 DEF Lacking
<1>9. \E H2 : Even(u, T, R2, H2, NoNode, "left")
  BY <1>1, <1>3, <1>4, <1>5, <1>6, <1>7, <1>8, LevelledEven
<1>10. RedRule(u, R2, {}) /\ u.root \notin R2
  BY <1>1, <1>2, <1>4, <1>5, <1>6, <1>7, LevelledRedRule
<1>11. R2 \ {u.root} = R2
  BY <1>10
<1>12. QED
  BY <1>5, <1>7, <1>9, <1>10, <1>11 DEF Deleting

\* Case 2: a sibling with two black children turns red, and what is missing is
\* missing above p.
LEMMA BlackSibling ==
  ASSUME NEW t, NEW T, NEW q, NEW R, NEW a, NEW p, NEW s, NEW y, BlackBy(t, T, q, R, a, p, s, y),
         \A b \in Sides : t.child[b][y] \notin R, NEW R2, R2 = R \cup {y}, NEW g, t.parent[p] = g
  PROVE  R2 \subseteq T /\ Deleting(t, T, R2, p, g)
<1> DEFINE far == Other(s)
<1>1. /\ Lacking(t, T, q, R, a, p, s) /\ t.child[far][p] = y /\ y \notin R /\ Other(s) = far
  BY DEF BlackBy
<1> HIDE DEF far
<1>2. /\ Ordered(t, T, q) /\ R \subseteq T /\ p \in T /\ s \in Sides /\ t.child[s][p] = a /\ a \notin R
      /\ RedRule(t, R, {})
  BY <1>1 DEF Lacking
<1>3. /\ p \in RbNodes /\ p # NoNode /\ far \in Sides /\ far # s
      /\ y \in T /\ y \in RbNodes /\ y # NoNode /\ t.parent[y] = p /\ y # a /\ y # p /\ a # p /\ a \in Pointers
      /\ \A b \in Sides : t.child[b][y] # p
  <2>1. Siblings(t, T, R, a, p, s, far, y)
    BY <1>1, SiblingIs
  <2>2. QED
    BY <2>1 DEF Siblings
<1>4. T \subseteq RbNodes /\ NoNode \notin RbNodes /\ NoNode \notin T /\ t \in Trees /\ (\A b \in Sides : b = s \/ b = far)
  BY <1>1, <1>2, OrderedTree, SidesAre
<1>5. y # t.root
  BY <1>2, <1>3, NodeSays
<1>6. RedRule(t, R2 \ {p}, {})
  <2>1. SUFFICES ASSUME NEW x \in R2 \ {p} PROVE x # t.root /\ t.parent[x] \notin R2 \ {p}
    BY DEF RedRule
  <2>2. CASE x = y
    BY <1>3, <1>5, <2>2
  <2>3. CASE x # y
    <3>1. x \in R /\ x \in T
      BY <1>2, <2>1, <2>3
    <3>2. x # t.root /\ t.parent[x] \notin R
      BY <1>2, <3>1 DEF RedRule
    <3>3. t.parent[x] # y
      <4>1. SUFFICES ASSUME t.parent[x] = y PROVE FALSE
        OBVIOUS
      <4> DEFINE b == SideOf(t, x, y)
      <4>2. b \in Sides /\ t.child[b][y] = x
        BY <1>2, <1>3, <3>1, <4>1, SideSays
      <4> HIDE DEF b
      <4>3. QED
        BY <3>1, <4>2
    <3>4. QED
      BY <3>2, <3>3
  <2>4. QED
    BY <2>2, <2>3
<1>7. PICK H : Even(t, T, R, H, p, s)
  BY <1>1 DEF Lacking
<1>8. /\ \A x \in Pointers : H[x] \in Nat
      /\ H[NoNode] = 0
      /\ \A x \in T, b \in Sides : H[t.child[b][x]] + Weight(R, x) + Lack(x, b, p, s) = H[x]
  BY <1>7 DEF Even
<1>9. a \in Pointers /\ y \in Pointers /\ p \in Pointers
  BY <1>3 DEF Pointers
<1>10. /\ H[y] = H[a] + 1 /\ H[y] \in Nat /\ H[p] \in Nat /\ H[y] >= 1 /\ H[p] >= 1
  <2> DEFINE ha == H[a]
             hy == H[y]
             hp == H[p]
             w == Weight(R, p)
             la == Lack(p, s, p, s)
             ly == Lack(p, far, p, s)
  <2>1. ha + w + la = hp /\ hy + w + ly = hp
    BY <1>1, <1>2, <1>3, <1>8
  <2>2. ha \in Nat /\ hy \in Nat /\ hp \in Nat
    BY <1>8, <1>9
  <2>3. w \in Nat /\ la = 1 /\ ly = 0
    BY <1>3, WeightIs, LackIs
  <2> SUFFICES hy = ha + 1 /\ hy \in Nat /\ hp \in Nat /\ hy >= 1 /\ hp >= 1
    OBVIOUS
  <2> HIDE DEF ha, hy, hp, w, la, ly
  <2>4. QED
    BY <2>1, <2>2, <2>3
<1> DEFINE H2 == [x \in Pointers |-> IF x = p \/ x = y THEN H[x] - 1 ELSE H[x]]
<1>11. /\ H2 \in [Pointers -> Nat] /\ H2[NoNode] = 0
       /\ \A x \in Pointers : H2[x] = IF x = p \/ x = y THEN H[x] - 1 ELSE H[x]
  <2>1. H[p] - 1 \in Nat /\ H[y] - 1 \in Nat
    <3> DEFINE hy == H[y]
               hp == H[p]
    <3>1. hy \in Nat /\ hp \in Nat /\ hy >= 1 /\ hp >= 1
      BY <1>10
    <3> HIDE DEF hy, hp
    <3>2. hy - 1 \in Nat /\ hp - 1 \in Nat
      BY <3>1
    <3>3. QED
      BY <3>2 DEF hy, hp
  <2>2. NoNode \in Pointers /\ NoNode # p /\ NoNode # y
    BY <1>3 DEF Pointers
  <2>3. QED
    BY <1>8, <2>1, <2>2
<1> HIDE DEF H2
\* But for the way to p, nothing is missing.
<1>12. ASSUME NEW lp, NEW ls \in Sides, NEW x \in T, NEW b \in Sides, t.child[b][x] = p <=> x = lp /\ b = ls
       PROVE  H2[t.child[b][x]] + Weight(R2, x) + Lack(x, b, lp, ls) = H2[x]
  <2> DEFINE z == t.child[b][x]
             hz == H[z]
             hx == H[x]
             w == Weight(R, x)
             l == Lack(x, b, p, s)
             hz2 == H2[z]
             hx2 == H2[x]
             w2 == Weight(R2, x)
             l2 == Lack(x, b, lp, ls)
  <2>1. z \in Pointers /\ x \in Pointers /\ x \in RbNodes
    <3>1. x \in RbNodes
      BY <1>4
    <3>2. QED
      BY <1>4, <3>1, TreeSays DEF Pointers
  <2>2. hz \in Nat /\ hx \in Nat /\ w \in Nat /\ hz + w + l = hx
    BY <1>8, <2>1, WeightIs
  <2>3. z = y => x = p /\ b = far
    <3>1. SUFFICES ASSUME z = y PROVE x = p /\ b = far
      OBVIOUS
    <3>2. x = p
      BY <1>2, <1>3, <2>1, <3>1, ChildSays
    <3>3. QED
      BY <1>2, <1>3, <1>4, <3>1, <3>2
  <2> SUFFICES hz2 + w2 + l2 = hx2
    OBVIOUS
  <2>4. CASE x = p
    <3>1. z # p /\ l2 = 0
      <4>1. z # p
        <5>1. z # NoNode => z # x
          BY <1>2, <2>1, ChildSays
        <5>2. QED
          BY <1>3, <2>4, <5>1
      <4>2. QED
        BY <1>12, <4>1, LackIs
    <3>2. hx2 = hx - 1 /\ w2 = w
      BY <1>3, <1>11, <2>1, <2>4 DEF Weight
    <3>3. CASE b = s
      <4>1. hz2 = hz /\ l = 1
        BY <1>2, <1>3, <1>11, <2>1, <2>4, <3>1, <3>3, LackIs
      <4> HIDE DEF z, hz, hx, w, l, hz2, hx2, w2, l2
      <4>2. QED
        BY <2>2, <3>1, <3>2, <4>1
    <3>4. CASE b = far
      <4>1. hz2 = hz - 1 /\ l = 0
        BY <1>1, <1>3, <1>11, <2>1, <2>4, <3>4, LackIs
      <4> HIDE DEF z, hz, hx, w, l, hz2, hx2, w2, l2
      <4>2. QED
        BY <2>2, <3>1, <3>2, <4>1
    <3>5. QED
      BY <1>4, <3>3, <3>4
  <2>5. CASE x = y
    <3>1. z # p /\ z # y /\ l = 0 /\ l2 = 0
      <4>1. z # p /\ z # y
        BY <1>3, <2>3, <2>5
      <4>2. QED
        BY <1>3, <1>12, <2>5, <4>1, LackIs
    <3>2. hz2 = hz /\ hx2 = hx - 1 /\ w = 1 /\ w2 = 0
      BY <1>1, <1>11, <2>1, <2>5, <3>1 DEF Weight
    <3> HIDE DEF z, hz, hx, w, l, hz2, hx2, w2, l2
    <3>3. QED
      BY <2>2, <3>1, <3>2
  <2>6. CASE x # p /\ x # y
    <3>1. hx2 = hx /\ w2 = w /\ l = 0 /\ z # y
      BY <1>11, <2>1, <2>3, <2>6, LackIs DEF Weight
    <3>2. CASE z = p
      <4>1. hz2 = hz - 1 /\ l2 = 1
        BY <1>11, <1>12, <2>1, <3>2, LackIs
      <4> HIDE DEF z, hz, hx, w, l, hz2, hx2, w2, l2
      <4>2. QED
        BY <2>2, <3>1, <4>1
    <3>3. CASE z # p
      <4>1. hz2 = hz /\ l2 = 0
        BY <1>11, <1>12, <2>1, <3>1, <3>3, LackIs
      <4> HIDE DEF z, hz, hx, w, l, hz2, hx2, w2, l2
      <4>2. QED
        BY <2>2, <3>1, <4>1
    <3>4. QED
      BY <3>2, <3>3
  <2>7. QED
    BY <2>4, <2>5, <2>6
<1>13. R2 \subseteq T
  BY <1>2, <1>3
<1>14. CASE p = t.root
  <2> DEFINE lp == NoNode
             ls == "left"
  <2>1. ASSUME NEW x \in T, NEW b \in Sides PROVE t.child[b][x] = p <=> x = lp /\ b = ls
    <3>1. x # NoNode /\ x \in RbNodes /\ p # NoNode
      BY <1>3, <1>4
    <3>2. t.parent[p] = NoNode
      BY <1>2, <1>14, NodeSays
    <3>3. t.child[b][x] = p => t.parent[p] = x
      BY <1>2, <3>1, ChildSays
    <3>4. QED
      BY <3>1, <3>2, <3>3
  <2>2. ls \in Sides
    BY SidesAre
  <2> HIDE DEF lp, ls
  <2>3. Even(t, T, R2, H2, lp, ls)
    <3>1. ASSUME NEW x \in T, NEW b \in Sides
          PROVE  H2[t.child[b][x]] + Weight(R2, x) + Lack(x, b, lp, ls) = H2[x]
      <4>1. t.child[b][x] = p <=> x = lp /\ b = ls
        BY <2>1
      <4>2. QED
        BY <1>12, <2>2, <4>1
    <3>2. QED
      BY <1>11, <3>1 DEF Even
  <2>4. QED
    BY <1>6, <1>13, <1>14, <2>3 DEF Deleting, lp, ls
<1>15. CASE p # t.root
  <2>1. g \in T /\ g # NoNode /\ g \in RbNodes
    BY <1>2, <1>15, NodeSays
  <2> DEFINE ls == SideOf(t, p, g)
  <2>2. ls \in Sides /\ t.child[ls][g] = p
    BY <1>2, <2>1, SideSays
  <2> HIDE DEF ls
  <2>3. ASSUME NEW x \in T, NEW b \in Sides PROVE t.child[b][x] = p <=> x = g /\ b = ls
    <3>1. x \in RbNodes
      BY <1>4
    <3>2. t.child[b][x] = p => t.parent[p] = x
      BY <1>2, <1>3, <3>1, ChildSays
    <3>3. PICK P, E : Linked(t, T) /\ Spans(t, T, P, E)
      BY <1>2 DEF Ordered, Shape
    <3>4. t.child[b][g] = p => b = ls
      BY <1>3, <2>1, <2>2, <3>3, OneParent
    <3>5. QED
      BY <2>2, <3>2, <3>4
  <2>4. Even(t, T, R2, H2, g, ls)
    <3>1. ASSUME NEW x \in T, NEW b \in Sides
          PROVE  H2[t.child[b][x]] + Weight(R2, x) + Lack(x, b, g, ls) = H2[x]
      <4>1. t.child[b][x] = p <=> x = g /\ b = ls
        BY <2>3
      <4>2. QED
        BY <1>12, <2>2, <4>1
    <3>2. QED
      BY <1>11, <3>1 DEF Even
  <2>5. QED
    BY <1>6, <1>13, <1>15, <2>1, <2>2, <2>4 DEF Deleting
<1>16. QED
  BY <1>14, <1>15

\* The loop ends: at the root, or at a red node, which turns black.
LEMMA DeleteDoneKeeps ==
  ASSUME NEW t, NEW T, NEW q, Ordered(t, T, q), NEW R, R \subseteq T, NEW a, NEW p, Deleting(t, T, R, a, p),
         a = t.root \/ a \in R, NEW R2, R2 = R \ {a}
  PROVE  AtRest(t, T, R2)
<1>1. RedRule(t, R2, {})
  BY DEF Deleting
<1>2. CASE a = t.root
  <2>1. PICK H : Even(t, T, R, H, NoNode, "left")
    BY <1>2 DEF Deleting
  <2>2. \E H2 : Even(t, T, R2, H2, NoNode, "left")
    BY <1>2, <2>1, BlackRoot
  <2>3. QED
    BY <1>1, <2>2 DEF AtRest
<1>3. CASE a # t.root /\ a \in R
  <2>1. PICK s \in Sides : p \in T /\ t.child[s][p] = a /\ \E H : Even(t, T, R, H, p, s)
    BY <1>3 DEF Deleting
  <2>2. PICK H : Even(t, T, R, H, p, s)
    BY <2>1
  <2>3. T \subseteq RbNodes /\ NoNode \notin RbNodes /\ NoNode \notin T /\ t \in Trees /\ a \in T /\ a # NoNode /\ p \in RbNodes /\ a \in Pointers
    BY <1>3, <2>1, OrderedTree DEF Pointers
  <2>4. t.parent[a] = p /\ a # p
    BY <2>1, <2>3, ChildSays
  <2>5. /\ \A x \in Pointers : H[x] \in Nat
        /\ H[NoNode] = 0
        /\ \A x \in T, b \in Sides : H[t.child[b][x]] + Weight(R, x) + Lack(x, b, p, s) = H[x]
    BY <2>2 DEF Even
  <2> DEFINE H2 == [x \in Pointers |-> IF x = a THEN H[x] + 1 ELSE H[x]]
  <2>6. H2 \in [Pointers -> Nat] /\ H2[NoNode] = 0 /\ \A x \in Pointers : H2[x] = IF x = a THEN H[x] + 1 ELSE H[x]
    <3>1. \A x \in Pointers : H[x] + 1 \in Nat
      BY <2>5
    <3>2. QED
      BY <2>3, <2>5, <3>1 DEF Pointers
  <2> HIDE DEF H2
  <2>7. ASSUME NEW x \in T, NEW b \in Sides
        PROVE  H2[t.child[b][x]] + Weight(R2, x) + Lack(x, b, NoNode, "left") = H2[x]
    <3> DEFINE z == t.child[b][x]
               hz == H[z]
               hx == H[x]
               w == Weight(R, x)
               l == Lack(x, b, p, s)
               hz2 == H2[z]
               hx2 == H2[x]
               w2 == Weight(R2, x)
               l2 == Lack(x, b, NoNode, "left")
    <3>1. z \in Pointers /\ x \in Pointers /\ x \in RbNodes
      <4>1. x \in RbNodes
        BY <2>3
      <4>2. QED
        BY <2>3, <4>1, TreeSays DEF Pointers
    <3>2. hz \in Nat /\ hx \in Nat /\ w \in Nat /\ hz + w + l = hx /\ l2 = 0
      BY <2>3, <2>5, <3>1, WeightIs, LackIs
    <3>3. z = a <=> x = p /\ b = s
      <4>1. z = a => x = p
        BY <2>3, <2>4, <3>1, ChildSays
      <4>2. PICK P, E : Linked(t, T) /\ Spans(t, T, P, E)
        BY DEF Ordered, Shape
      <4>3. t.child[b][p] = a => b = s
        BY <2>1, <2>3, <4>2, OneParent
      <4>4. QED
        BY <2>1, <4>1, <4>3
    <3> SUFFICES hz2 + w2 + l2 = hx2
      OBVIOUS
    <3>4. CASE z = a
      <4>1. x # a /\ l = 1
        BY <2>4, <3>3, <3>4, LackIs
      <4>2. hz2 = hz + 1 /\ hx2 = hx /\ w2 = w
        BY <2>6, <3>1, <3>4, <4>1 DEF Weight
      <4> HIDE DEF z, hz, hx, w, l, hz2, hx2, w2, l2
      <4>3. QED
        BY <3>2, <4>1, <4>2
    <3>5. CASE z # a
      <4>1. l = 0 /\ hz2 = hz
        BY <2>6, <3>1, <3>3, <3>5, LackIs
      <4>2. CASE x = a
        <5>1. hx2 = hx + 1 /\ w = 0 /\ w2 = 1
          BY <1>3, <2>6, <3>1, <4>2 DEF Weight
        <5> HIDE DEF z, hz, hx, w, l, hz2, hx2, w2, l2
        <5>2. QED
          BY <3>2, <4>1, <5>1
      <4>3. CASE x # a
        <5>1. hx2 = hx /\ w2 = w
          BY <2>6, <3>1, <4>3 DEF Weight
        <5> HIDE DEF z, hz, hx, w, l, hz2, hx2, w2, l2
        <5>2. QED
          BY <3>2, <4>1, <5>1
      <4>4. QED
        BY <4>2, <4>3
    <3>6. QED
      BY <3>4, <3>5
  <2>8. Even(t, T, R2, H2, NoNode, "left")
    BY <2>6, <2>7 DEF Even
  <2>9. QED
    BY <1>1, <2>8 DEF AtRest
<1>4. QED
  BY <1>2, <1>3

-----------------------------------------------------------------------------
(* The invariant                                                           *)

\* Between operations the tree is red-black; in a loop it is but for what the
\* loop is about to repair.
Sound(t, R, loop, a, p, T, q) ==
  /\ Ordered(t, T, q) /\ R \subseteq T
  /\ loop \in {"rest", "insert", "delete"}
  /\ loop = "rest" => AtRest(t, T, R)
  /\ loop = "insert" => Inserting(t, T, R, a)
  /\ loop = "delete" => Deleting(t, T, R, a, p)

TreeInv == \E T, q : Sound(Tree, red, pc, at, up, T, q)

\* What the helpers pass on.
LEMMA TreeFields == Tree.root = root /\ Tree.parent = parent /\ Tree.child = child
BY DEF Tree

\* The helpers' result is the tree.
LEMMA BecomesIs ==
  ASSUME NEW u \in Trees, Becomes(u)
  PROVE  Tree' = u
BY DEF Tree, Becomes, Trees

\* The nodes of the tree are those that ogs_rbtree_insert and _delete see in it.
LEMMA InTreeIs ==
  ASSUME NEW T, NEW q, Ordered(Tree, T, q), NEW n \in RbNodes
  PROVE  InTree(n) <=> n \in T
<1>1. PICK P, E : Linked(Tree, T)
  BY DEF Ordered, Shape
<1>2. n \notin T => parent[n] = NoNode
  BY <1>1, TreeFields DEF Linked
<1>3. n \in T => (n = root <=> parent[n] = NoNode)
  BY <1>1, TreeFields DEF Linked
<1>4. n \notin T => n # root
  BY TreeFields, OrderedTree, RbtreeAssumption
<1>5. QED
  BY <1>2, <1>3, <1>4 DEF InTree

-----------------------------------------------------------------------------
(* The loop of rb_insert_color                                             *)

\* The colours flip.
LEMMA RecolourStep ==
  ASSUME NEW T, NEW q, Sound(Tree, red, pc, at, up, T, q), Recolour
  PROVE  Sound(Tree', red', pc', at', up', T, q)
<1> DEFINE t == Tree
           p == parent[at]
           g == parent[p]
           s == SideOf(Tree, p, g)
           far == Other(s)
           y == child[far][g]
           R2 == (red \ {y, p}) \cup {g}
<1>1. pc = "insert" /\ p \in red /\ y \in red /\ red' = R2 /\ at' = g /\ pc' = "insert"
  BY DEF Recolour, InsertLoops
<1>2. Tree' = Tree
  BY DEF Recolour, Tree
<1>3. Ordered(t, T, q) /\ red \subseteq T /\ Inserting(t, T, red, at)
  BY <1>1 DEF Sound
<1>4. p = t.parent[at] /\ g = t.parent[p] /\ s = SideOf(t, p, g) /\ far = Other(s) /\ y = t.child[far][g]
  BY TreeFields
<1> HIDE DEF t, p, g, s, far, y, R2
<1>5. R2 \subseteq T /\ Inserting(t, T, R2, g)
  <2>1. R2 = (red \ {y, p}) \cup {g}
    BY DEF R2
  <2>2. Family(t, T, q, red, at, p, g, s, far, y) /\ y \in red
    BY <1>1, <1>3, <1>4 DEF Family
  <2>3. QED
    BY <2>1, <2>2, RecolourKeeps
<1>6. QED
  BY <1>1, <1>2, <1>3, <1>5 DEF Sound, t

\* The rotations.
LEMMA RotateUpStep ==
  ASSUME NEW T, NEW q, Sound(Tree, red, pc, at, up, T, q), RotateUp
  PROVE  Sound(Tree', red', pc', at', up', T, q)
<1> DEFINE t == Tree
           p == parent[at]
           g == parent[p]
           s == SideOf(Tree, p, g)
           far == Other(s)
           y == child[far][g]
           v == IF at = child[far][p] THEN Rotate(t, p, s) ELSE t
           n == IF at = child[far][p] THEN p ELSE at
           u == Rotate(v, g, far)
           R2 == (red \ {v.parent[n]}) \cup {g}
<1>1. pc = "insert" /\ p \in red /\ y \notin red /\ red' = R2 /\ at' = n /\ pc' = "insert" /\ Becomes(u)
  BY Zenon DEF RotateUp, InsertLoops, NewColours
<1>2. Ordered(t, T, q) /\ red \subseteq T /\ Inserting(t, T, red, at)
  BY <1>1 DEF Sound
<1>3. /\ t.parent[at] = p /\ t.parent[p] = g /\ SideOf(t, p, g) = s /\ Other(s) = far /\ t.child[far][g] = y
      /\ child[far][p] = t.child[far][p]
  BY TreeFields
<1>4. /\ v = (IF at = t.child[far][p] THEN Rotate(t, p, s) ELSE t)
      /\ n = (IF at = t.child[far][p] THEN p ELSE at)
      /\ u = Rotate(v, g, far) /\ R2 = (red \ {v.parent[n]}) \cup {g}
  BY <1>3
<1> HIDE DEF t, p, g, s, far, y, v, n, u, R2
<1>5. Family(t, T, q, red, at, p, g, s, far, y)
  BY <1>1, <1>2, <1>3 DEF Family
<1>6. R2 \subseteq T /\ Ordered(u, T, q) /\ Inserting(u, T, R2, n)
  BY <1>1, <1>4, <1>5, RotateUpKeeps
<1>7. Tree' = u
  BY <1>1, <1>6, OrderedTree, BecomesIs
<1>8. QED
  BY <1>1, <1>6, <1>7, Zenon DEF Sound

\* The loop ends.
LEMMA InsertDoneStep ==
  ASSUME NEW T, NEW q, Sound(Tree, red, pc, at, up, T, q), InsertDone
  PROVE  Sound(Tree', red', pc', at', up', T, q)
<1> DEFINE t == Tree
           R2 == red \ {t.root}
<1>1. pc = "insert" /\ (parent[at] = NoNode \/ parent[at] \notin red) /\ red' = R2 /\ pc' = "rest"
  BY TreeFields DEF InsertDone, InsertLoops
<1>2. Tree' = Tree
  BY DEF InsertDone, Tree
<1>3. Ordered(t, T, q) /\ red \subseteq T /\ Inserting(t, T, red, at)
  BY <1>1 DEF Sound
<1>4. t.parent[at] = NoNode \/ t.parent[at] \notin red
  BY <1>1, TreeFields
<1>5. R2 = red \ {t.root} /\ R2 \subseteq red
  OBVIOUS
<1> HIDE DEF t, R2
<1>6. AtRest(t, T, R2)
  BY <1>3, <1>4, <1>5, InsertDoneKeeps
<1>7. QED
  BY <1>1, <1>2, <1>3, <1>5, <1>6 DEF Sound, t

-----------------------------------------------------------------------------
(* The first step of an insertion                                          *)

\* Where n has gone: between what is not behind it and what is.
Inserted(T, q, n) ==
  n \notin T /\ \E k : FitsAt(q, k, n) /\ Sound(Tree', red', pc', at', up', T \cup {n}, InsertAt(q, k, n))

\* ... into an empty tree.
LEMMA InsertRoot ==
  ASSUME NEW T, NEW q, Sound(Tree, red, pc, at, up, T, q), NEW n \in RbNodes, Insert(n), root = NoNode
  PROVE  Inserted(T, q, n)
<1> DEFINE t == Tree
           u == [root |-> n, parent |-> parent, child |-> child]
           q2 == InsertAt(q, 1, n)
<1>1. pc = "rest" /\ n \notin T /\ Ordered(t, T, q) /\ red \subseteq T
  BY InTreeIs DEF Insert, Sound
<1>2. T = {}
  BY <1>1, OrderedTree, TreeFields
<1>3. root' = n /\ parent' = parent /\ child' = child /\ red' = red \cup {n} /\ pc' = "insert" /\ at' = n
  BY DEF Insert
<1>4. Tree' = u
  BY <1>3 DEF Tree
<1>5. u \in Trees /\ u.root = n /\ u.parent = t.parent /\ u.child = t.child
  BY <1>1, OrderedTree DEF Trees, Pointers, Tree
<1>6. red' = {n} /\ T \cup {n} = {n}
  BY <1>1, <1>2, <1>3
<1>7. Ordered(t, {}, q)
  BY <1>1, <1>2
<1>8. q2 = InsertAt(q, 1, n)
  OBVIOUS
<1> HIDE DEF t, u, q2
<1>9. FitsAt(q, 1, n) /\ Ordered(u, {n}, q2) /\ Inserting(u, {n}, {n}, n)
  BY <1>5, <1>7, <1>8, FirstNode
<1>10. Sound(Tree', red', pc', at', up', T \cup {n}, q2)
  BY <1>3, <1>4, <1>6, <1>9 DEF Sound
<1>11. QED
  BY <1>1, <1>8, <1>9, <1>10 DEF Inserted

\* ... or as a leaf.
LEMMA InsertLeaf ==
  ASSUME NEW T, NEW q, Sound(Tree, red, pc, at, up, T, q), NEW n \in RbNodes, Insert(n), root # NoNode
  PROVE  Inserted(T, q, n)
<1> DEFINE t == Tree
           u == [root |-> root', parent |-> parent', child |-> child']
<1>1. pc = "rest" /\ n \notin T /\ Ordered(t, T, q) /\ red \subseteq T /\ AtRest(t, T, red)
  BY InTreeIs DEF Insert, Sound
<1>2. T # {} /\ t \in Trees /\ T \subseteq RbNodes /\ n \in RbNodes \ T
  BY <1>1, OrderedTree, TreeFields
<1>3. PICK P, E : Shape(Tree, T, q, P, E)
  BY <1>1 DEF Ordered
<1>4. KeysAlong(q)
  BY <1>1 DEF Ordered
<1>5. Below(T, q, P, n, PlaceFor(n))
  BY <1>2, <1>3, <1>4, PlaceForIs
<1>6. PICK m \in T, side \in Sides : /\ PlaceFor(n) = <<m, side>> /\ child[side][m] = NoNode
                                     /\ FitsAt(q, Gap(P, m, side), n)
  BY <1>5 DEF Below
<1>7. /\ root' = root /\ parent' = [parent EXCEPT ![n] = m] /\ child' = [child EXCEPT ![side][m] = n]
      /\ red' = red \cup {n} /\ pc' = "insert" /\ at' = n
  BY <1>6 DEF Insert
<1>8. Grown(t, n, m, side, u)
  <2>1. root \in Pointers /\ parent \in [RbNodes -> Pointers] /\ child \in [Sides -> [RbNodes -> Pointers]]
    BY <1>2 DEF Trees, Tree
  <2>2. m \in RbNodes /\ n \in Pointers /\ m \in Pointers
    BY <1>2 DEF Pointers
  <2>3. /\ parent' \in [RbNodes -> Pointers]
        /\ \A x \in RbNodes : parent'[x] = IF x = n THEN m ELSE parent[x]
    BY <1>7, <2>1, <2>2
  <2>4. /\ child' \in [Sides -> [RbNodes -> Pointers]]
        /\ \A x \in RbNodes, s \in Sides : child'[s][x] = IF x = m /\ s = side THEN n ELSE child[s][x]
    BY <1>6, <1>7, <2>1, <2>2
  <2>5. u \in Trees /\ u.root = root /\ u.parent = parent' /\ u.child = child'
    BY <1>7, <2>1, <2>3, <2>4 DEF Trees
  <2> HIDE DEF u
  <2>6. QED
    BY <2>3, <2>4, <2>5, TreeFields DEF Grown
<1>9. Tree' = u
  BY DEF Tree
<1>10. t.child[side][m] = NoNode
  BY <1>6, TreeFields
<1>11. Shape(t, T, q, P, E)
  BY <1>3
<1> DEFINE k == Gap(P, m, side)
           q2 == InsertAt(q, k, n)
           T2 == T \cup {n}
           R2 == red \cup {n}
<1>12. k = Gap(P, m, side) /\ q2 = InsertAt(q, k, n) /\ T2 = T \cup {n} /\ R2 = red \cup {n} /\ R2 \subseteq T2 /\ FitsAt(q, k, n)
  BY <1>1, <1>6
<1> HIDE DEF t, u, k, q2, T2, R2
<1>13. Ordered(u, T2, q2)
  BY <1>2, <1>4, <1>8, <1>10, <1>11, <1>12, LeafKeepsOrder
<1>14. Inserting(u, T2, R2, n)
  BY <1>1, <1>2, <1>8, <1>10, <1>12, LeafKeepsColours
<1>15. Sound(Tree', red', pc', at', up', T2, q2)
  BY <1>7, <1>9, <1>12, <1>13, <1>14 DEF Sound
<1>16. QED
  BY <1>1, <1>12, <1>15 DEF Inserted

-----------------------------------------------------------------------------
(* The first step of a deletion                                            *)

\* n is gone.
Deleted(T, q, n) ==
  \E k \in 1 .. Len(q) : q[k] = n /\ Sound(Tree', red', pc', at', up', T \ {n}, RemoveAt(q, k))

\* The colour that has left its place tells whether a loop follows.
LEMMA FixTells ==
  ASSUME NEW T, NEW q, NEW n \in RbNodes, NEW u, NEW R2, NEW a, NEW p, NEW R, NEW m,
         u \in Trees, Without(T, q, n, u), Becomes(u), red' = R2, R2 \subseteq T \ {n},
         m \in R => pc' = "rest", m \notin R => pc' = "delete" /\ at' = a /\ up' = p,
         m \in R => AtRest(u, T \ {n}, R2), m \notin R => Deleting(u, T \ {n}, R2, a, p)
  PROVE  Deleted(T, q, n)
<1>1. PICK k \in 1 .. Len(q) : q[k] = n /\ Ordered(u, T \ {n}, RemoveAt(q, k))
  BY DEF Without
<1>2. Tree' = u
  BY BecomesIs
<1>3. Sound(Tree', red', pc', at', up', T \ {n}, RemoveAt(q, k))
  BY <1>1, <1>2 DEF Sound
<1>4. QED
  BY <1>1, <1>3 DEF Deleted

\* A node with one child at most.
LEMMA DeleteOuterStep ==
  ASSUME NEW T, NEW q, Sound(Tree, red, pc, at, up, T, q), NEW n \in T, NEW side \in Sides,
         pc = "rest", DeleteOuter(n, side)
  PROVE  Deleted(T, q, n)
<1> DEFINE t == Tree
           d == Other(side)
           c == t.child[d][n]
           p == t.parent[n]
           v == ReplaceNode(t, n, c, t.parent[n])
           u == Forget(v, n)
           R2 == red \ {n}
<1>1. Ordered(t, T, q) /\ red \subseteq T /\ AtRest(t, T, red)
  BY DEF Sound
<1>2. /\ Becomes(u) /\ red' = R2
      /\ n \in red => pc' = "rest"
      /\ n \notin red => pc' = "delete" /\ at' = c /\ up' = p
  BY TreeFields DEF DeleteOuter, Fix
<1>3. d \in Sides /\ t.child[Other(d)][n] = NoNode
  BY SidesAre, TreeFields DEF DeleteOuter
<1>4. /\ c = t.child[d][n] /\ p = t.parent[n] /\ v = ReplaceNode(t, n, c, t.parent[n]) /\ u = Forget(v, n)
      /\ R2 = red \ {n} /\ R2 \subseteq T \ {n} /\ n \in RbNodes
  BY <1>1, OrderedTree
<1> HIDE DEF t, d, c, p, v, u, R2
<1>5. /\ Without(T, q, n, u)
      /\ n \in red => AtRest(u, T \ {n}, R2)
      /\ n \notin red => Deleting(u, T \ {n}, R2, c, p)
  BY <1>1, <1>3, <1>4, OuterKeeps
<1>6. u \in Trees
  BY <1>5, OrderedTree DEF Without
<1>7. n \in RbNodes /\ Becomes(u) /\ red' = R2 /\ R2 \subseteq T \ {n}
  BY <1>2, <1>4
<1>8. n \in red => pc' = "rest" /\ AtRest(u, T \ {n}, R2)
  BY <1>2, <1>5
<1>9. n \notin red => pc' = "delete" /\ at' = c /\ up' = p /\ Deleting(u, T \ {n}, R2, c, p)
  BY <1>2, <1>5
<1>10. QED
  BY <1>5, <1>6, <1>7, <1>8, <1>9, FixTells

\* A node with two.
LEMMA DeleteInnerStep ==
  ASSUME NEW T, NEW q, Sound(Tree, red, pc, at, up, T, q), NEW n \in T, pc = "rest", DeleteInner(n)
  PROVE  Deleted(T, q, n)
<1> DEFINE t == Tree
           a == t.child["left"][n]
           r == t.child["right"][n]
           new == Outermost(t.child, "left", r)
           c == t.child["right"][new]
           p == t.parent[new]
           g == t.parent[n]
           t1 == SetParent(SetChild(t, "left", new, a), a, new)
           t2 == IF p = n THEN t1
                 ELSE SetParent(SetChild(SetChild(SetParent(t1, c, p), "left", p, c), "right", new, r), r, new)
           u == Forget(ReplaceNode(t2, n, new, g), n)
           R2 == IF n \in red THEN (red \ {n}) \cup {new} ELSE red \ {n, new}
           p2 == IF p = n THEN new ELSE p
<1>1. Ordered(t, T, q) /\ red \subseteq T /\ AtRest(t, T, red)
  BY DEF Sound
<1>2. /\ Becomes(u) /\ red' = R2
      /\ new \in red => pc' = "rest"
      /\ new \notin red => pc' = "delete" /\ at' = c /\ up' = p2
  BY TreeFields DEF DeleteInner, Fix, InnerColour, LoopParent
<1>3. a # NoNode /\ r # NoNode
  BY TreeFields DEF DeleteInner
<1>4. InnerParts(t, n, a, r, new, c, p, g, u, red, R2, p2)
  BY <1>3 DEF InnerParts
<1> HIDE DEF t, a, r, new, c, p, g, t1, t2, u, R2, p2
<1>5. /\ Without(T, q, n, u)
      /\ new \in red => AtRest(u, T \ {n}, R2)
      /\ new \notin red => Deleting(u, T \ {n}, R2, c, p2)
  BY <1>1, <1>4, InnerKeeps
<1>6. PICK P, E : Shape(t, T, q, P, E)
  BY <1>1 DEF Ordered
<1>7. Successor(t, T, P, n, new)
  BY <1>4, <1>6, SuccessorIs DEF InnerParts
<1>8. R2 \subseteq T \ {n} /\ n \in RbNodes
  BY <1>1, <1>4, <1>7, OrderedTree DEF Successor, InnerParts
<1>9. u \in Trees /\ Becomes(u) /\ red' = R2
  BY <1>2, <1>5, OrderedTree DEF Without
<1>10. new \in red => pc' = "rest" /\ AtRest(u, T \ {n}, R2)
  BY <1>2, <1>5
<1>11. new \notin red => pc' = "delete" /\ at' = c /\ up' = p2 /\ Deleting(u, T \ {n}, R2, c, p2)
  BY <1>2, <1>5
<1>12. QED
  BY <1>5, <1>8, <1>9, <1>10, <1>11, FixTells

\* ogs_rbtree_delete up to its loop.
LEMMA DeleteStep ==
  ASSUME NEW T, NEW q, Sound(Tree, red, pc, at, up, T, q), NEW n \in RbNodes, Delete(n)
  PROVE  n \in T /\ Deleted(T, q, n)
<1>1. pc = "rest" /\ InTree(n) /\ Ordered(Tree, T, q)
  BY DEF Delete, Sound
<1>2. n \in T
  BY <1>1, InTreeIs
<1>3. CASE \E side \in Sides : DeleteOuter(n, side)
  BY <1>1, <1>2, <1>3, DeleteOuterStep
<1>4. CASE DeleteInner(n)
  BY <1>1, <1>2, <1>4, DeleteInnerStep
<1>5. QED
  BY <1>2, <1>3, <1>4 DEF Delete

-----------------------------------------------------------------------------
(* The loop of rb_delete_color                                             *)

\* After case 1 the sibling is black.
LEMMA BlackNext ==
  ASSUME NEW t, NEW T, NEW q, NEW R, NEW a, NEW p, NEW s, Lacking(t, T, q, R, a, p, s),
         NEW far, Other(s) = far, NEW y, t.child[far][p] = y,
         NEW u, u = (IF y \in R THEN Rotate(t, p, s) ELSE t),
         NEW R2, R2 = (IF y \in R THEN (R \ {y}) \cup {p} ELSE R), NEW y2, u.child[far][p] = y2
  PROVE  BlackBy(u, T, q, R2, a, p, s, y2)
<1>1. CASE y \in R
  <2>1. u = Rotate(t, p, s) /\ R2 = (R \ {y}) \cup {p}
    BY <1>1
  <2>2. QED
    BY <1>1, <2>1, RedSibling
<1>2. CASE y \notin R
  <2>1. u = t /\ R2 = R /\ y2 = y
    BY <1>2
  <2>2. QED
    BY <1>2, <2>1 DEF BlackBy
<1>3. QED
  BY <1>1, <1>2

\* After case 3 the far child of the sibling is red.
LEMMA FarNext ==
  ASSUME NEW t, NEW T, NEW q, NEW R, NEW a, NEW p, NEW s, NEW y, BlackBy(t, T, q, R, a, p, s, y),
         NEW far, Other(s) = far, NEW near, t.child[s][y] = near, NEW z, t.child[far][y] = z, near \in R \/ z \in R,
         NEW u, u = (IF z \notin R THEN Rotate(t, y, far) ELSE t),
         NEW R2, R2 = (IF z \notin R THEN (R \ {near}) \cup {y} ELSE R), NEW y2, u.child[far][p] = y2
  PROVE  BlackBy(u, T, q, R2, a, p, s, y2) /\ u.child[far][y2] \in R2
<1>1. CASE z \notin R
  <2>1. u = Rotate(t, y, far) /\ R2 = (R \ {near}) \cup {y} /\ near \in R /\ t.child[far][y] \notin R
    BY <1>1
  <2>2. QED
    BY <2>1, NearRed
<1>2. CASE z \in R
  <2>1. u = t /\ R2 = R
    BY <1>2
  <2>2. y2 = y
    BY <2>1 DEF BlackBy
  <2>3. QED
    BY <1>2, <2>1, <2>2
<1>3. QED
  BY <1>1, <1>2

\* One round.
LEMMA RebalanceStep ==
  ASSUME NEW T, NEW q, Sound(Tree, red, pc, at, up, T, q), Rebalance
  PROVE  Sound(Tree', red', pc', at', up', T, q)
<1> DEFINE t == Tree
           side == SideOf(Tree, at, up)
           far == Other(side)
           s0 == child[far][up]
           t1 == IF s0 \in red THEN Rotate(Tree, up, side) ELSE Tree
           r1 == IF s0 \in red THEN (red \ {s0}) \cup {up} ELSE red
           s1 == t1.child[far][up]
           near1 == t1.child[side][s1]
           far1 == t1.child[far][s1]
           turn == far1 \notin r1
           t2 == IF turn THEN Rotate(t1, s1, far) ELSE t1
           r2 == IF turn THEN (r1 \ {near1}) \cup {s1} ELSE r1
           s2 == t2.child[far][up]
           far2 == t2.child[far][s2]
           u3 == Rotate(t2, up, side)
           r3 == (IF up \in r2 THEN r2 \cup {s2} ELSE r2 \ {s2}) \ {up, far2}
           r4 == r1 \cup {s1}
           g == t1.parent[up]
<1>1. pc = "delete" /\ at # root /\ at \notin red /\ pc' = "delete"
  BY Zenon DEF Rebalance, DeleteLoops
<1>2. Ordered(t, T, q) /\ red \subseteq T /\ Deleting(t, T, red, at, up)
  BY <1>1 DEF Sound
<1>3. Lacking(t, T, q, red, at, up, side)
  <2>1. red \ {at} = red
    BY <1>1
  <2>2. RedRule(t, red, {})
    BY <1>2, <2>1 DEF Deleting
  <2>3. PICK s \in Sides : up \in T /\ t.child[s][up] = at /\ \E H : Even(t, T, red, H, up, s)
    BY <1>1, <1>2, TreeFields DEF Deleting
  <2>4. Lacking(t, T, q, red, at, up, s)
    BY <1>1, <1>2, <2>2, <2>3 DEF Lacking
  <2> DEFINE f == Other(s)
             y == t.child[f][up]
  <2>5. Siblings(t, T, red, at, up, s, f, y)
    BY <2>4, SiblingIs
  <2>6. side = s
    BY <2>5 DEF Siblings
  <2>7. QED
    BY <2>4, <2>6
<1>4. \/ /\ near1 \notin r1 /\ far1 \notin r1
         /\ Becomes(t1) /\ red' = r4 /\ at' = up /\ up' = g
      \/ /\ near1 \in r1 \/ far1 \in r1
         /\ Becomes(u3) /\ red' = r3 /\ at' = root'
  BY Zenon DEF Rebalance
<1>5. /\ Other(side) = far /\ t.child[far][up] = s0
      /\ t1 = (IF s0 \in red THEN Rotate(t, up, side) ELSE t)
      /\ r1 = (IF s0 \in red THEN (red \ {s0}) \cup {up} ELSE red)
      /\ t1.child[far][up] = s1
  BY TreeFields
<1>6. /\ t1.child[side][s1] = near1 /\ t1.child[far][s1] = far1
      /\ t2 = (IF far1 \notin r1 THEN Rotate(t1, s1, far) ELSE t1)
      /\ r2 = (IF far1 \notin r1 THEN (r1 \ {near1}) \cup {s1} ELSE r1)
      /\ t2.child[far][up] = s2
  OBVIOUS
<1>7. /\ t2.child[far][s2] = far2 /\ u3 = Rotate(t2, up, side)
      /\ r3 = (IF up \in r2 THEN r2 \cup {s2} ELSE r2 \ {s2}) \ {up, far2}
  OBVIOUS
<1>8. r4 = r1 \cup {s1} /\ t1.parent[up] = g
  OBVIOUS
<1> HIDE DEF t, side, far, s0, t1, r1, s1, near1, far1, t2, r2, s2, far2, u3, r3, r4, g
<1>9. BlackBy(t1, T, q, r1, at, up, side, s1)
  BY <1>3, <1>5, BlackNext
<1>10. ASSUME near1 \notin r1, far1 \notin r1, Becomes(t1), red' = r4, at' = up, up' = g
       PROVE  Sound(Tree', red', pc', at', up', T, q)
  <2>1. \A b \in Sides : t1.child[b][s1] \notin r1
    BY <1>5, <1>6, <1>9, <1>10, SidesAre DEF BlackBy, Lacking
  <2>2. r4 \subseteq T /\ Deleting(t1, T, r4, up, g)
    BY <1>8, <1>9, <2>1, BlackSibling
  <2>3. Ordered(t1, T, q)
    BY <1>9 DEF BlackBy, Lacking
  <2>4. Tree' = t1
    BY <1>10, <2>3, OrderedTree, BecomesIs
  <2>5. QED
    BY <1>1, <1>10, <2>2, <2>3, <2>4 DEF Sound
<1>11. ASSUME near1 \in r1 \/ far1 \in r1, Becomes(u3), red' = r3, at' = root'
       PROVE  Sound(Tree', red', pc', at', up', T, q)
  <2>1. BlackBy(t2, T, q, r2, at, up, side, s2) /\ t2.child[far][s2] \in r2
    BY <1>5, <1>6, <1>9, <1>11, FarNext, SMTT(60)
  <2>2. far2 \in r2 /\ Other(side) = far
    BY <1>5, <1>7, <2>1
  <2> DEFINE p2 == up'
  <2> HIDE DEF p2
  <2>3. t2.child[far][s2] = far2 /\ u3 = Rotate(t2, up, side)
    BY <1>7
  <2>4. r3 = (IF up \in r2 THEN r2 \cup {s2} ELSE r2 \ {s2}) \ {up, far2}
    BY <1>7
  <2>5. BlackBy(t2, T, q, r2, at, up, side, s2)
    BY <2>1
  <2>6. Ordered(u3, T, q) /\ r3 \subseteq T /\ Deleting(u3, T, r3, u3.root, p2)
    BY <2>2, <2>3, <2>4, <2>5, FarRed
  <2>7. Tree' = u3
    BY <1>11, <2>6, OrderedTree, BecomesIs
  <2>8. at' = u3.root
    BY <1>11 DEF Becomes
  <2>9. QED
    BY <1>1, <1>11, <2>6, <2>7, <2>8 DEF Sound, p2
<1>12. QED
  BY <1>4, <1>10, <1>11

\* The loop ends.
LEMMA DeleteDoneStep ==
  ASSUME NEW T, NEW q, Sound(Tree, red, pc, at, up, T, q), DeleteDone
  PROVE  Sound(Tree', red', pc', at', up', T, q)
<1> DEFINE t == Tree
           R2 == red \ {at}
<1>1. pc = "delete" /\ (at = root \/ at \in red) /\ red' = R2 /\ pc' = "rest"
  BY DEF DeleteDone, DeleteLoops
<1>2. Tree' = Tree
  BY DEF DeleteDone, Tree
<1>3. Ordered(t, T, q) /\ red \subseteq T /\ Deleting(t, T, red, at, up)
  BY <1>1 DEF Sound
<1>4. R2 = red \ {at} /\ R2 \subseteq red /\ (at = t.root \/ at \in red)
  BY <1>1, TreeFields
<1> HIDE DEF t, R2
<1>5. AtRest(t, T, R2)
  BY <1>3, <1>4, DeleteDoneKeeps
<1>6. QED
  BY <1>1, <1>2, <1>3, <1>4, <1>5 DEF Sound, t

-----------------------------------------------------------------------------
(* The invariant is one                                                    *)

\* The empty tree.
LEMMA EmptySound ==
  ASSUME RbInit
  PROVE  Sound(Tree, red, pc, at, up, {}, << >>)
<1> DEFINE q == << >>
           P == [x \in RbNodes |-> 1]
           E == [s \in Sides |-> [x \in RbNodes |-> 1]]
           H == [x \in Pointers |-> 0]
           t == Tree
<1>1. /\ t.root = NoNode /\ t.parent = Nowhere /\ t.child = [side \in Sides |-> Nowhere]
      /\ red = {} /\ pc = "rest" /\ t \in Trees
  BY DEF RbInit, Tree, Trees, Nowhere, Pointers
<1>2. q \in Seq(RbNodes) /\ Len(q) = 0
  OBVIOUS
<1> HIDE DEF q, t
<1>3. Linked(t, {})
  BY <1>1 DEF Linked, Nowhere
<1>4. Spans(t, {}, P, E) /\ Lists(t, {}, q, P, E)
  BY <1>2 DEF Spans, Lists
<1>5. KeysAlong(q)
  BY <1>2 DEF KeysAlong
<1> HIDE DEF P, E
<1>6. Ordered(t, {}, q)
  BY <1>3, <1>4, <1>5 DEF Ordered, Shape
<1>7. Even(t, {}, {}, H, NoNode, "left") /\ RedRule(t, {}, {})
  BY DEF Even, RedRule, Pointers
<1> HIDE DEF H
<1>8. AtRest(t, {}, {})
  BY <1>7 DEF AtRest
<1>9. QED
  BY <1>1, <1>6, <1>8 DEF Sound, q, t

\* What a step does to the list that the tree is: an insertion, a deletion,
\* or nothing.
Steps(T, q) ==
  \/ \E n \in RbNodes : Inserted(T, q, n)
  \/ \E n \in RbNodes : Deleted(T, q, n)
  \/ Sound(Tree', red', pc', at', up', T, q)

\* Every step is one of these.
LEMMA StepKeeps ==
  ASSUME NEW T, NEW q, Sound(Tree, red, pc, at, up, T, q), [RbNext]_rbvars
  PROVE  Steps(T, q)
<1>1. CASE \E n \in RbNodes : Insert(n)
  <2>1. PICK n \in RbNodes : Insert(n)
    BY <1>1
  <2>2. CASE root = NoNode
    BY <2>1, <2>2, InsertRoot DEF Steps
  <2>3. CASE root # NoNode
    BY <2>1, <2>3, InsertLeaf DEF Steps
  <2>4. QED
    BY <2>2, <2>3
<1>2. CASE \E n \in RbNodes : Delete(n)
  BY <1>2, DeleteStep DEF Steps
<1>3. CASE Recolour
  BY <1>3, RecolourStep DEF Steps
<1>4. CASE RotateUp
  BY <1>4, RotateUpStep DEF Steps
<1>5. CASE InsertDone
  BY <1>5, InsertDoneStep DEF Steps
<1>6. CASE Rebalance
  BY <1>6, RebalanceStep DEF Steps
<1>7. CASE DeleteDone
  BY <1>7, DeleteDoneStep DEF Steps
<1>8. CASE UNCHANGED rbvars
  <2>1. Tree' = Tree /\ red' = red /\ pc' = pc /\ at' = at /\ up' = up
    BY <1>8 DEF rbvars, Tree
  <2>2. Sound(Tree', red', pc', at', up', T, q)
    BY <2>1
  <2>3. QED
    BY <2>2 DEF Steps
<1>9. QED
  BY <1>1, <1>2, <1>3, <1>4, <1>5, <1>6, <1>7, <1>8 DEF RbNext, Round

-----------------------------------------------------------------------------
(* What it says                                                            *)

\* The list that the tree is read as.
LEMMA InOrderIs ==
  ASSUME NEW T, NEW q, Ordered(Tree, T, q)
  PROVE  InOrder = q
<1>1. PICK P, E : Shape(Tree, T, q, P, E)
  BY DEF Ordered
<1>2. OrderOf(child, root) = q
  BY <1>1, TreeFields, OrderIs
<1>3. QED
  BY <1>2, Zenon DEF InOrder, OrderOf

\* ... after a step.
LEMMA InOrderNext ==
  ASSUME NEW T, NEW q, Ordered(Tree', T, q)
  PROVE  InOrder' = q
<1>1. PICK P, E : Shape(Tree', T, q, P, E)
  BY DEF Ordered
<1>2. child' = Tree'.child /\ root' = Tree'.root
  BY DEF Tree
<1>3. OrderOf(child', root') = q
  BY <1>1, <1>2, OrderIs
<1>4. QED
  BY <1>3, Zenon DEF InOrder, OrderOf

\* Types, pointers and colours.
LEMMA SoundTree ==
  ASSUME NEW T, NEW q, Sound(Tree, red, pc, at, up, T, q)
  PROVE  TreeSound
<1>1. Ordered(Tree, T, q) /\ red \subseteq T /\ pc \in {"rest", "insert", "delete"}
  BY DEF Sound
<1>2. /\ Tree \in Trees /\ T \subseteq RbNodes /\ NoNode \notin RbNodes /\ NoNode \notin T
      /\ root # NoNode => root \in T
  BY <1>1, TreeFields, OrderedTree
<1>3. TreeNodes = T
  <2>1. \A n \in RbNodes : InTree(n) <=> n \in T
    BY <1>1, InTreeIs
  <2>2. QED
    BY <1>2, <2>1 DEF TreeNodes
<1>4. PICK P, E : Shape(Tree, T, q, P, E)
  BY <1>1 DEF Ordered
<1>5. /\ \A n \in T : n = root <=> parent[n] = NoNode
      /\ \A n \in T \ {root} : parent[n] \in T /\ \E s \in Sides : child[s][parent[n]] = n
      /\ \A n \in T, s \in Sides : child[s][n] # NoNode => child[s][n] \in T /\ parent[child[s][n]] = n
  BY <1>4, TreeFields DEF Shape, Linked
<1>6. RbTypeOK
  <2>1. /\ root \in RbNodes \cup {NoNode}
        /\ parent \in [RbNodes -> RbNodes \cup {NoNode}]
        /\ child \in [Sides -> [RbNodes -> RbNodes \cup {NoNode}]]
    BY <1>2, TreeFields DEF Trees, Pointers
  <2>2. pc = "insert" => at \in T
    BY <1>1 DEF Sound, Inserting
  <2>3. ASSUME pc = "delete", at # root PROVE up \in T /\ (at # NoNode => up = parent[at])
    <3>1. PICK s \in Sides : up \in T /\ child[s][up] = at
      BY <2>3, TreeFields DEF Sound, Deleting
    <3>2. QED
      BY <1>5, <3>1
  <2>4. QED
    BY <1>1, <1>3, <2>1, <2>2, <2>3 DEF RbTypeOK
<1>7. PointersMatch
  <2>1. ASSUME NEW n \in T, child["left"][n] # NoNode PROVE child["left"][n] # child["right"][n]
    <3>1. "left" \in Sides /\ "right" = Other("left") /\ n \in RbNodes
      BY <1>2 DEF Sides, Other
    <3> DEFINE s == "left"
               c == child[s][n]
               far == Other(s)
    <3>2. s \in Sides /\ c = Tree.child[s][n] /\ c # NoNode /\ Tree.child[far][n] = child[far][n]
      BY <2>1, <3>1, TreeFields
    <3> HIDE DEF s, c, far
    <3>3. Tree.child[far][n] # c
      BY <1>1, <3>1, <3>2, ChildrenDiffer DEF far
    <3>4. QED
      BY <3>1, <3>2, <3>3 DEF s, c, far
  <2>2. QED
    BY <1>2, <1>3, <1>5, <2>1 DEF PointersMatch
<1>8. RedBlack
  <2>1. SUFFICES ASSUME pc = "rest" PROVE root \notin red /\ (\A n \in red : parent[n] \notin red) /\ BlackHeight # -1
    BY DEF RedBlack
  <2>2. AtRest(Tree, T, red)
    BY <2>1 DEF Sound
  <2>3. root \notin red /\ \A n \in red : parent[n] \notin red
    BY <2>2, TreeFields DEF AtRest, RedRule
  <2>4. PICK H : Even(Tree, T, red, H, NoNode, "left")
    BY <2>2 DEF AtRest
  <2>5. BlackHeight # -1
    BY <1>1, <1>4, <2>4, BlackHeightIs
  <2>6. QED
    BY <2>3, <2>5
<1>9. QED
  BY <1>6, <1>7, <1>8 DEF TreeSound

\* Iteration visits the nodes of the list in its order, both ways.
LEMMA SoundIterates ==
  ASSUME NEW T, NEW q, Ordered(Tree, T, q)
  PROVE  IterationInOrder
<1>1. PICK P, E : Shape(Tree, T, q, P, E)
  BY DEF Ordered
<1>2. Linked(Tree, T) /\ Spans(Tree, T, P, E) /\ Lists(Tree, T, q, P, E)
  BY <1>1 DEF Shape
<1>3. /\ InOrder = q /\ q \in Seq(RbNodes) /\ Len(q) \in Nat
      /\ \A i \in 1 .. Len(q) : q[i] \in T /\ P[q[i]] = i
      /\ \A n \in T : P[n] \in 1 .. Len(q) /\ q[P[n]] = n
  BY <1>2, InOrderIs, LenProperties DEF Lists
<1>4. CASE T = {}
  <2>1. root = NoNode
    BY <1>4, TreeFields, OrderedTree
  <2>2. q = << >> /\ DOMAIN q = {}
    BY <1>3, <1>4
  <2>3. QED
    BY <1>3, <2>1, <2>2 DEF IterationInOrder, Outer
<1>5. CASE T # {}
  <2>1. root \in T /\ root # NoNode /\ E["left"][root] = 1 /\ E["right"][root] = Len(q)
    BY <1>2, <1>5, TreeFields, OrderedTree DEF Lists
  <2>2. ASSUME NEW side \in Sides PROVE Outer(side) = q[E[side][root]]
    <3> DEFINE z == Outermost(Tree.child, side, root)
    <3>1. z \in T /\ P[z] = E[side][root]
      BY <1>2, <2>1, OutermostIs
    <3>2. Outer(side) = z
      BY <2>1, TreeFields DEF Outer
    <3> HIDE DEF z
    <3>3. QED
      BY <1>3, <3>1, <3>2
  <2>3. q # << >> /\ DOMAIN q = 1 .. Len(q) /\ Head(q) = q[1] /\ Last(q) = q[Len(q)]
    BY <1>3, <2>1 DEF Last
  <2>4. Outer("left") = Head(q) /\ Outer("right") = Last(q)
    BY <2>1, <2>2, <2>3, SidesAre
  <2>5. ASSUME NEW i \in 1 .. Len(q), NEW side \in Sides
        PROVE  NextNode(q[i], side) = IF Beyond(side, i) \in 1 .. Len(q) THEN q[Beyond(side, i)] ELSE NoNode
    <3> DEFINE n == q[i]
               j == Beyond(side, P[n])
    <3>1. n \in T /\ P[n] = i
      BY <1>3
    <3> HIDE DEF n
    <3>2. NextNode(n, side) = IF j \in 1 .. Len(q) THEN q[j] ELSE NoNode
      BY <1>1, <3>1, NextNodeIs
    <3>3. QED
      BY <3>1, <3>2 DEF n
  <2>6. ASSUME NEW i \in 1 .. Len(q)
        PROVE  /\ NextNode(q[i], "right") = IF i = Len(q) THEN NoNode ELSE q[i + 1]
               /\ NextNode(q[i], "left") = IF i = 1 THEN NoNode ELSE q[i - 1]
    <3>1. Beyond("right", i) = i + 1 /\ Beyond("left", i) = i - 1
      BY DEF Beyond
    <3>2. i + 1 \in 1 .. Len(q) <=> i # Len(q)
      BY <1>3
    <3>3. i - 1 \in 1 .. Len(q) <=> i # 1
      BY <1>3
    <3>4. /\ NextNode(q[i], "right") = IF i + 1 \in 1 .. Len(q) THEN q[i + 1] ELSE NoNode
          /\ NextNode(q[i], "left") = IF i - 1 \in 1 .. Len(q) THEN q[i - 1] ELSE NoNode
      BY <2>5, <3>1, SidesAre
    <3>5. QED
      BY <3>2, <3>3, <3>4
  <2>7. QED
    BY <1>3, <2>3, <2>4, <2>6, Zenon DEF IterationInOrder
<1>6. QED
  BY <1>4, <1>5

-----------------------------------------------------------------------------
(* The theorems                                                            *)

\* TreeInv holds at first ...
LEMMA TreeInvInitial == RbInit => TreeInv
BY EmptySound DEF TreeInv

\* ... and every step keeps it.
LEMMA TreeInvInductive == TreeInv /\ [RbNext]_rbvars => TreeInv'
<1>1. SUFFICES ASSUME TreeInv, [RbNext]_rbvars PROVE TreeInv'
  OBVIOUS
<1>2. PICK T, q : Sound(Tree, red, pc, at, up, T, q)
  BY <1>1 DEF TreeInv
<1>3. Steps(T, q)
  BY <1>1, <1>2, StepKeeps
<1>4. \E T2, q2 : Sound(Tree', red', pc', at', up', T2, q2)
  BY <1>3 DEF Steps, Inserted, Deleted
<1>5. QED
  BY <1>4 DEF TreeInv

\* What the invariant says of the tree between operations and in the loops.
LEMMA TreeInvSays == TreeInv => TreeIsSound
<1>1. SUFFICES ASSUME TreeInv PROVE TreeIsSound
  OBVIOUS
<1>2. PICK T, q : Sound(Tree, red, pc, at, up, T, q)
  BY <1>1 DEF TreeInv
<1>3. Ordered(Tree, T, q)
  BY <1>2 DEF Sound
<1>4. QED
  BY <1>2, <1>3, SoundTree, SoundIterates DEF TreeIsSound

\* After any sequence of insertions and deletions, of any nodes and keys,
\* the tree of ogs-rbtree.c is red-black and its pointers match, also in the
\* middle of the loops; first/next and last/prev visit all its nodes in order.
THEOREM TreesAreSound == RbSpec => []TreeIsSound
<1>1. RbInit => TreeInv
  BY TreeInvInitial
<1>2. TreeInv /\ [RbNext]_rbvars => TreeInv'
  BY TreeInvInductive
<1>3. TreeInv => TreeIsSound
  BY TreeInvSays
<1>4. QED
  BY <1>1, <1>2, <1>3, PTL DEF RbSpec

\* A node is inserted into the list where its key fits.
LEMMA InsertsSorted ==
  ASSUME NEW T, NEW q, Ordered(Tree, T, q), NEW n \in RbNodes, Inserted(T, q, n)
  PROVE  Sorted!Insert(n)
<1>1. PICK k : n \notin T /\ FitsAt(q, k, n) /\ Sound(Tree', red', pc', at', up', T \cup {n}, InsertAt(q, k, n))
  BY DEF Inserted
<1> DEFINE T2 == T \cup {n}
           q2 == InsertAt(q, k, n)
<1>2. Ordered(Tree', T2, q2) /\ q2 = InsertAt(q, k, n)
  BY <1>1 DEF Sound
<1> HIDE DEF T2, q2
<1>3. InOrder = q /\ InOrder' = q2
  BY <1>2, InOrderIs, InOrderNext
<1>4. PICK P, E : Lists(Tree, T, q, P, E)
  BY DEF Ordered, Shape
<1>5. Len(q) \in Nat /\ (\A i \in 1 .. Len(q) : q[i] \in T /\ q[i] \in RbNodes) /\ \A x \in RbNodes : KeyOf[x] \in Int
  BY <1>4, LenProperties, RbtreeAssumption DEF Lists
<1>6. \A i \in 1 .. Len(q) : q[i] # n
  BY <1>1, <1>5
<1>7. k \in 1 .. Len(q) + 1 /\ \A i \in 1 .. Len(q) : i < k <=> KeyOf[q[i]] <= KeyOf[n]
  <2>1. k \in 1 .. Len(q) + 1
    BY <1>1 DEF FitsAt
  <2>2. ASSUME NEW i \in 1 .. Len(q) PROVE i < k <=> KeyOf[q[i]] <= KeyOf[n]
    <3> DEFINE x == KeyOf[q[i]]
               y == KeyOf[n]
    <3>1. x \in Int /\ y \in Int /\ i \in Int /\ k \in Int
      BY <1>5, <2>1
    <3>2. (i < k => x <= y) /\ (i >= k => y < x)
      BY <1>1 DEF FitsAt
    <3> HIDE DEF x, y
    <3>3. i < k <=> x <= y
      BY <3>1, <3>2
    <3>4. QED
      BY <3>3 DEF x, y
  <2>3. QED
    BY <2>1, <2>2
<1>8. q2 = Sorted!InsertAt(q, k, n)
  BY <1>2 DEF InsertAt, Sorted!InsertAt
<1>9. QED
  BY <1>3, <1>6, <1>7, <1>8 DEF Sorted!Insert

\* The node that is deleted leaves the list.
LEMMA DeletesSorted ==
  ASSUME NEW T, NEW q, Ordered(Tree, T, q), NEW n \in RbNodes, Deleted(T, q, n)
  PROVE  Sorted!Delete(n)
<1>1. PICK k \in 1 .. Len(q) : q[k] = n /\ Sound(Tree', red', pc', at', up', T \ {n}, RemoveAt(q, k))
  BY DEF Deleted
<1> DEFINE T2 == T \ {n}
           q2 == RemoveAt(q, k)
<1>2. Ordered(Tree', T2, q2) /\ q2 = RemoveAt(q, k)
  BY <1>1 DEF Sound
<1> HIDE DEF T2, q2
<1>3. InOrder = q /\ InOrder' = q2
  BY <1>2, InOrderIs, InOrderNext
<1>4. q2 = Sorted!RemoveAt(q, k)
  BY <1>2 DEF RemoveAt, Sorted!RemoveAt
<1>5. QED
  BY <1>1, <1>3, <1>4 DEF Sorted!Delete

\* The loops move nothing.
LEMMA StepsSorted == TreeInv /\ [RbNext]_rbvars => [Sorted!Next]_InOrder
<1>1. SUFFICES ASSUME TreeInv, [RbNext]_rbvars PROVE [Sorted!Next]_InOrder
  OBVIOUS
<1>2. PICK T, q : Sound(Tree, red, pc, at, up, T, q)
  BY <1>1 DEF TreeInv
<1>3. Steps(T, q) /\ Ordered(Tree, T, q)
  <2>1. Ordered(Tree, T, q)
    BY <1>2 DEF Sound
  <2>2. QED
    BY <1>1, <1>2, <2>1, StepKeeps
<1>4. CASE \E n \in RbNodes : Inserted(T, q, n)
  BY <1>3, <1>4, InsertsSorted DEF Sorted!Next
<1>5. CASE \E n \in RbNodes : Deleted(T, q, n)
  BY <1>3, <1>5, DeletesSorted DEF Sorted!Next
<1>6. CASE Sound(Tree', red', pc', at', up', T, q)
  <2>1. Ordered(Tree', T, q)
    BY <1>6 DEF Sound
  <2>2. InOrder' = InOrder
    BY <1>3, <2>1, InOrderIs, InOrderNext
  <2>3. QED
    BY <2>2
<1>7. QED
  BY <1>3, <1>4, <1>5, <1>6 DEF Steps

\* A tree of ogs-rbtree.c, whose caller descends to the left only below a
\* larger key, is a list that is sorted by key, and by the order of insertion
\* among equal keys: linking and unlinking a node are the list's insertion and
\* deletion, and the loops that restore the colours leave it alone.
THEOREM TreesImplementLists == RbSpec => ImplementsSortedList
<1>1. RbInit => Sorted!Init
  <2>1. SUFFICES ASSUME RbInit PROVE InOrder = << >>
    BY DEF Sorted!Init
  <2>2. Ordered(Tree, {}, << >>)
    BY <2>1, EmptySound DEF Sound
  <2>3. QED
    BY <2>2, InOrderIs
<1>2. RbInit => TreeInv
  BY TreeInvInitial
<1>3. TreeInv /\ [RbNext]_rbvars => TreeInv'
  BY TreeInvInductive
<1>4. TreeInv /\ [RbNext]_rbvars => [Sorted!Next]_InOrder
  BY StepsSorted
<1>5. QED
  BY <1>1, <1>2, <1>3, <1>4, PTL DEF RbSpec, ImplementsSortedList, Sorted!Spec
=============================================================================
