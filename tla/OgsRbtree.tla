----------------------------- MODULE OgsRbtree -----------------------------
(***************************************************************************)
(* src/core/ogs-rbtree.c: the red-black tree that keeps the timers.        *)
(*                                                                         *)
(* The descent to the place of a new node is the caller's (add_timer_node  *)
(* in ogs-timer.c); linking it there, or unlinking a node, is one step,    *)
(* and each round of the loop that restores the colours is one.  The code  *)
(* has every case twice, for left and right; here the side is a parameter. *)
(***************************************************************************)
EXTENDS Integers, Sequences, FiniteSets, SequencesExt

CONSTANTS RbNodes,
          KeyOf,     \* what the caller compares (timer->timeout)
          NoNode

ASSUME RbtreeAssumption == /\ IsFiniteSet(RbNodes) /\ NoNode \notin RbNodes
                           /\ KeyOf \in [RbNodes -> Int]

Sides == {"left", "right"}
Other(side) == IF side = "left" THEN "right" ELSE "left"

VARIABLES root, parent, child,
          red,     \* the nodes whose color is OGS_RBTREE_RED
          pc,      \* at rest, or in the loop of insert_color or delete_color
          at,      \* the loop's node
          up       \* delete_color's parent: its node may be NULL

rbvars == <<root, parent, child, red, pc, at, up>>

\* What the helpers pass on.
Tree == [root |-> root, parent |-> parent, child |-> child]

Becomes(t) == root' = t.root /\ parent' = t.parent /\ child' = t.child

Nowhere == [n \in RbNodes |-> NoNode]

RbInit == /\ root = NoNode
          /\ parent = Nowhere
          /\ child = [side \in Sides |-> Nowhere]
          /\ red = {}
          /\ pc = "rest"
          /\ at = NoNode
          /\ up = NoNode

-----------------------------------------------------------------------------
(* Surgery                                                                 *)

SideOf(t, n, p) == IF n = t.child["left"][p] THEN "left" ELSE "right"

SetChild(t, side, p, n) == [t EXCEPT !.child[side][p] = n]

ChangeChild(t, old, new, p) ==
  IF p = NoNode THEN [t EXCEPT !.root = new] ELSE SetChild(t, SideOf(t, old, p), p, new)

SetParent(t, n, p) == IF n = NoNode THEN t ELSE [t EXCEPT !.parent[n] = p]

ReplaceNode(t, old, new, p) == SetParent(ChangeChild(t, old, new, p), new, p)

\* n goes down on `side', its other child takes its place.
Rotate(t, n, side) ==
  LET r == t.child[Other(side)][n]
      m == t.child[side][r]
      moved == SetParent(SetChild(t, Other(side), n, m), m, n)
      raised == ReplaceNode(moved, n, r, t.parent[n])
  IN  SetParent(SetChild(raised, side, r, n), n, r)

\* ogs_rbtree_min and ogs_rbtree_max
Outermost(c, side, n) ==
  LET walk[m \in RbNodes] == IF c[side][m] = NoNode THEN m ELSE walk[c[side][m]] IN walk[n]

-----------------------------------------------------------------------------
(* Insertion                                                               *)

InTree(n) == n = root \/ parent[n] # NoNode

\* (seeded fault: equal keys are descended to the left)
PlaceBefore(n) ==
  LET walk[m \in RbNodes] ==
        LET side == IF KeyOf[n] <= KeyOf[m] THEN "left" ELSE "right"
        IN  IF child[side][m] = NoNode THEN <<m, side>> ELSE walk[child[side][m]]
  IN  walk[root]

\* The caller's descent: left only below a larger key.
PlaceFor(n) ==
  LET walk[m \in RbNodes] ==
        LET side == IF KeyOf[n] < KeyOf[m] THEN "left" ELSE "right"
        IN  IF child[side][m] = NoNode THEN <<m, side>> ELSE walk[child[side][m]]
  IN  walk[root]

\* ogs_rbtree_link_node, and ogs_rbtree_insert_color up to its loop.
Insert(n) ==
  /\ pc = "rest" /\ ~InTree(n)
  /\ IF root = NoNode
     THEN root' = n /\ UNCHANGED <<parent, child>>
     ELSE /\ parent' = [parent EXCEPT ![n] = PlaceFor(n)[1]]
          /\ child' = [child EXCEPT ![PlaceFor(n)[2]][PlaceFor(n)[1]] = n]
          /\ UNCHANGED root
  /\ red' = red \cup {n}
  /\ pc' = "insert"
  /\ at' = n
  /\ UNCHANGED up

InsertLoops == parent[at] # NoNode /\ parent[at] \in red

\* The uncle is red: the colours flip, and the grandparent is next.
Recolour ==
  /\ pc = "insert" /\ InsertLoops
  /\ LET p == parent[at]
         g == parent[p]
         uncle == child[Other(SideOf(Tree, p, g))][g]
     IN  /\ uncle \in red
         /\ red' = (red \ {uncle, p}) \cup {g}
         /\ at' = g
  /\ UNCHANGED <<root, parent, child, pc, up>>

NewColours(p, g) == (red \ {p}) \cup {g}

\* The uncle is black: an inner node is rotated outwards, then the
\* grandparent down.
RotateUp ==
  /\ pc = "insert" /\ InsertLoops
  /\ LET p == parent[at]
         g == parent[p]
         side == SideOf(Tree, p, g)
         inner == at = child[Other(side)][p]
         t == IF inner THEN Rotate(Tree, p, side) ELSE Tree
         n == IF inner THEN p ELSE at
     IN  /\ child[Other(side)][g] \notin red
         /\ Becomes(Rotate(t, g, Other(side)))
         /\ at' = n
         /\ red' = NewColours(t.parent[n], g)
  /\ UNCHANGED <<pc, up>>

InsertDone == /\ pc = "insert" /\ ~InsertLoops
              /\ red' = red \ {root}
              /\ pc' = "rest"
              /\ at' = NoNode
              /\ UNCHANGED <<root, parent, child, up>>

-----------------------------------------------------------------------------
(* Deletion                                                                *)

\* A node that is out of the tree is linked anew before it is read again:
\* the model forgets its pointers.
Forget(t, n) == SetChild(SetChild([t EXCEPT !.parent[n] = NoNode], "left", n, NoNode), "right", n, NoNode)

\* Where the loop starts if the colour that has left its place is black.
Fix(wasRed, n, p) == IF wasRed THEN pc' = "rest" /\ at' = NoNode /\ up' = NoNode
                     ELSE pc' = "delete" /\ at' = n /\ up' = p

\* A node with one child at most: the child takes its place.
DeleteOuter(n, side) ==
  /\ child[side][n] = NoNode
  /\ side = "right" => child["left"][n] # NoNode
  /\ LET c == child[Other(side)][n]
     IN  /\ Becomes(Forget(ReplaceNode(Tree, n, c, parent[n]), n))
         /\ Fix(n \in red, c, parent[n])
  /\ red' = red \ {n}

InnerColour(n, new) == IF n \in red THEN (red \ {n}) \cup {new} ELSE red \ {n, new}

LoopParent(n, new) == IF parent[new] = n THEN new ELSE parent[new]

\* A node with two: its successor takes its place and colour, and leaves its
\* own to its right child.
DeleteInner(n) ==
  /\ child["left"][n] # NoNode /\ child["right"][n] # NoNode
  /\ LET new == Outermost(child, "left", child["right"][n])
         c == child["right"][new]
         p == parent[new]
         t1 == SetParent(SetChild(Tree, "left", new, child["left"][n]), child["left"][n], new)
         t2 == IF p = n THEN t1
               ELSE SetParent(SetChild(SetChild(SetParent(t1, c, p), "left", p, c),
                                       "right", new, child["right"][n]),
                              child["right"][n], new)
     IN  /\ Becomes(Forget(ReplaceNode(t2, n, new, parent[n]), n))
         /\ Fix(new \in red, c, LoopParent(n, new))
         /\ red' = InnerColour(n, new)

\* Up to the loop of rb_delete_color.
Delete(n) == /\ pc = "rest" /\ InTree(n)
             /\ (\E side \in Sides : DeleteOuter(n, side)) \/ DeleteInner(n)

DeleteLoops == at # root /\ at \notin red

\* One round: `at' lacks a black node above it.
Rebalance ==
  /\ pc = "delete" /\ DeleteLoops
  /\ LET side == SideOf(Tree, at, up)
         far == Other(side)
         s0 == child[far][up]
         \* case 1: a red sibling is rotated away
         t1 == IF s0 \in red THEN Rotate(Tree, up, side) ELSE Tree
         r1 == IF s0 \in red THEN (red \ {s0}) \cup {up} ELSE red
         s1 == t1.child[far][up]
         near1 == t1.child[side][s1]
         \* case 3: the sibling's only red child is the near one
         turn == t1.child[far][s1] \notin r1
         t2 == IF turn THEN Rotate(t1, s1, far) ELSE t1
         r2 == IF turn THEN (r1 \ {near1}) \cup {s1} ELSE r1
         s2 == t2.child[far][up]
     IN  IF near1 \notin r1 /\ turn
         THEN \* case 2: the sibling turns red, and the parent is next
              /\ Becomes(t1)
              /\ red' = r1 \cup {s1}
              /\ at' = up /\ up' = t1.parent[up]
         ELSE \* case 4: the parent is rotated down
              /\ Becomes(Rotate(t2, up, side))
              /\ red' = (IF up \in r2 THEN r2 \cup {s2} ELSE r2 \ {s2}) \ {up, t2.child[far][s2]}
              /\ at' = root' /\ up' = up
  /\ UNCHANGED pc

DeleteDone == /\ pc = "delete" /\ ~DeleteLoops
              /\ red' = red \ {at}
              /\ pc' = "rest"
              /\ at' = NoNode
              /\ up' = NoNode
              /\ UNCHANGED <<root, parent, child>>

-----------------------------------------------------------------------------
Round == Recolour \/ RotateUp \/ InsertDone \/ Rebalance \/ DeleteDone

RbNext == \/ \E n \in RbNodes : Insert(n) \/ Delete(n)
          \/ Round

RbSpec == RbInit /\ [][RbNext]_rbvars

-----------------------------------------------------------------------------
(* Iteration                                                               *)

\* ogs_rbtree_first and ogs_rbtree_last
Outer(side) == IF root = NoNode THEN NoNode ELSE Outermost(child, side, root)

\* (seeded fault: the climb stops at the first parent)
NextByParent(n, side) ==
  IF child[side][n] # NoNode THEN Outermost(child, Other(side), child[side][n]) ELSE parent[n]

\* ogs_rbtree_next for "right", ogs_rbtree_prev for "left"
NextNode(n, side) ==
  IF child[side][n] # NoNode THEN Outermost(child, Other(side), child[side][n])
  ELSE LET climb[m \in RbNodes] == IF parent[m] # NoNode /\ m = child[side][parent[m]]
                                 THEN climb[parent[m]] ELSE parent[m]
       IN  climb[n]

-----------------------------------------------------------------------------
(* Properties                                                              *)

TreeNodes == {n \in RbNodes : InTree(n)}

\* The pointers keep their types, and the parent that the loop of
\* rb_delete_color remembers is that of its node.
RbTypeOK == /\ root \in RbNodes \cup {NoNode}
            /\ parent \in [RbNodes -> RbNodes \cup {NoNode}]
            /\ child \in [Sides -> [RbNodes -> RbNodes \cup {NoNode}]]
            /\ red \subseteq TreeNodes
            /\ pc \in {"rest", "insert", "delete"}
            /\ pc = "insert" => at \in TreeNodes
            /\ pc = "delete" /\ at # root => up \in TreeNodes /\ (at # NoNode => up = parent[at])

\* Left to right.
InOrder == LET seq[n \in RbNodes \cup {NoNode}] ==
                 IF n = NoNode THEN << >> ELSE seq[child["left"][n]] \o <<n>> \o seq[child["right"][n]]
           IN  seq[root]

\* Black nodes on the way down, if every way has as many; otherwise -1.
BlackHeight ==
  LET height[n \in RbNodes \cup {NoNode}] ==
        IF n = NoNode THEN 0
        ELSE LET l == height[child["left"][n]]
                 r == height[child["right"][n]]
             IN  IF l # r \/ l = -1 THEN -1 ELSE IF n \in red THEN l ELSE l + 1
  IN  height[root]

\* Between operations the tree is red-black: a black root, no red node with a
\* red parent, and as many black nodes on every way down; so that its depth
\* stays logarithmic after any sequence of insertions and deletions.
RedBlack == pc = "rest" => /\ root \notin red
                           /\ \A n \in red : parent[n] \notin red
                           /\ BlackHeight # -1

\* Also in the middle of the loops, parents and children point at each
\* other, and a node is in one place.
PointersMatch == /\ root # NoNode => parent[root] = NoNode
                 /\ \A n \in TreeNodes \ {root} : \E side \in Sides : child[side][parent[n]] = n
                 /\ \A n \in TreeNodes, side \in Sides :
                      child[side][n] # NoNode => parent[child[side][n]] = n
                 /\ \A n \in TreeNodes : child["left"][n] # NoNode => child["left"][n] # child["right"][n]

\* What insertions and deletions, in any order, keep of the tree: types,
\* pointers and colours.
TreeSound == RbTypeOK /\ PointersMatch /\ RedBlack

\* first/next and last/prev visit the nodes of the tree in order, forwards
\* and backwards.
IterationInOrder ==
  LET order == InOrder
  IN  pc = "rest" =>
        /\ Outer("left") = IF order = << >> THEN NoNode ELSE Head(order)
        /\ Outer("right") = IF order = << >> THEN NoNode ELSE Last(order)
        /\ \A i \in DOMAIN order :
             /\ NextNode(order[i], "right") = IF i = Len(order) THEN NoNode ELSE order[i + 1]
             /\ NextNode(order[i], "left") = IF i = 1 THEN NoNode ELSE order[i - 1]

\* The tree keeps its shape and can be walked, both ways.
TreeIsSound == TreeSound /\ IterationInOrder

Sorted == INSTANCE SortedList WITH Nodes <- RbNodes, list <- InOrder

\* Insertions and deletions are those of a sorted list, with equal keys in the
\* order of insertion, and the loops that restore the colours move nothing.
ImplementsSortedList == Sorted!Spec
=============================================================================
