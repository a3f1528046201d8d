------------------------------ MODULE OgsList ------------------------------
(***************************************************************************)
(* src/core/ogs-list.h: the doubly linked list and the two loops over it.  *)
(* ogs_list_for_each reads the link of a node after the loop body has run, *)
(* ogs_list_for_each_safe before; a body may add and remove nodes, and     *)
(* ogs_list_remove leaves the links of the removed node as they were.      *)
(***************************************************************************)
EXTENDS Integers, Sequences, FiniteSets, SequencesExt

CONSTANTS Lnodes, NoLnode

ASSUME ListAssumption == IsFiniteSet(Lnodes) /\ NoLnode \notin Lnodes

VARIABLES first, last,   \* list->next and list->prev
          prev, next,    \* the nodes' links, whether they are in the list or not
          each,          \* the loop under way: none, for_each, for_each_safe
          lnode, ahead,  \* its node, and the one for_each_safe has read
          due,           \* history: the nodes it has yet to visit
          cut            \* history: its body has cut off its way

listloop == <<each, lnode, ahead, due, cut>>
listvars == <<first, last, prev, next, listloop>>

NoLoops == /\ each' = "no" /\ lnode' = NoLnode /\ ahead' = NoLnode
           /\ due' = {} /\ cut' = FALSE

ListInit == /\ first = NoLnode /\ last = NoLnode
            /\ prev = [n \in Lnodes |-> NoLnode]
            /\ next = [n \in Lnodes |-> NoLnode]
            /\ each = "no" /\ lnode = NoLnode /\ ahead = NoLnode
            /\ due = {} /\ cut = FALSE

\* The i-th node of a sequence, or none behind its end.
At(s, i) == IF i \in DOMAIN s THEN s[i] ELSE NoLnode

\* s are the nodes that link leads to from n on, up to the last one.
IsWalk(s, n, link) == /\ n = At(s, 1)
                      /\ \A i \in DOMAIN s : link[s[i]] = At(s, i + 1)

List == CHOOSE s \in BoundedSeq(Lnodes, Cardinality(Lnodes)) : IsWalk(s, first, next)
Listed == ToSet(List)

-----------------------------------------------------------------------------
\* (seeded fault: for_each_safe goes on like for_each)
GoalLate == next[lnode]

\* Where the loop goes from here, as it stands.
Goal == IF each = "safe" THEN ahead ELSE next[lnode]

\* What goes to the end is visited too, if the loop is not past it.
ListAdd(n) ==
  /\ n \notin Listed
  /\ prev' = [prev EXCEPT ![n] = last]
  /\ next' = [m \in Lnodes |-> IF m = n THEN NoLnode ELSE IF m = last THEN n ELSE next[m]]
  /\ first' = IF last = NoLnode THEN n ELSE first
  /\ last' = n
  /\ due' = IF each # "no" /\ (Goal # NoLnode \/ (each = "each" /\ lnode \in Listed))
            THEN due \cup {n} ELSE due
  /\ cut' = (cut \/ (each = "each" /\ n = lnode))
  /\ UNCHANGED <<each, lnode, ahead>>

LastAfterRemove(n) == IF next[n] = NoLnode THEN prev[n] ELSE last

\* (seeded fault: the node behind is not told)
PrevAfterRemoveKept(n) == prev

PrevAfterRemove(n) == IF next[n] = NoLnode THEN prev ELSE [prev EXCEPT ![next[n]] = prev[n]]

ListRemove(n) ==
  /\ n \in Listed
  /\ IF prev[n] = NoLnode THEN first' = next[n] /\ UNCHANGED next
     ELSE next' = [next EXCEPT ![prev[n]] = next[n]] /\ UNCHANGED first
  /\ last' = LastAfterRemove(n)
  /\ prev' = PrevAfterRemove(n)
  /\ due' = due \ {n}
  /\ cut' = (cut \/ (each = "safe" /\ n = ahead)
                 \/ (each = "each" /\ lnode \notin Listed /\ n = next[lnode]))
  /\ UNCHANGED <<each, lnode, ahead>>

ReadAhead(how, n) == IF how = "safe" /\ n # NoLnode THEN next[n] ELSE NoLnode

Enter(how, n, left) == /\ UNCHANGED <<first, last, prev, next>>
                       /\ IF n = NoLnode THEN NoLoops
                          ELSE /\ each' = how /\ lnode' = n /\ ahead' = ReadAhead(how, n)
                               /\ due' = left \ {n}

ForEach(how) == each = "no" /\ Enter(how, first, Listed) /\ cut' = FALSE

ForNext == each # "no" /\ Enter(each, Goal, due) /\ cut' = (cut /\ each' # "no")

ListNext == \/ \E n \in Lnodes : ListAdd(n) \/ ListRemove(n)
            \/ \E how \in {"each", "safe"} : ForEach(how)
            \/ ForNext

ListSpec == ListInit /\ [][ListNext]_listvars

-----------------------------------------------------------------------------
(* Properties                                                              *)

\* The links forwards and backwards name the same nodes in opposite order,
\* whatever was added and removed.
LinksAgree == IsWalk(List, first, next) /\ IsWalk(Reverse(List), last, prev)

\* A loop visits every node that is in the list while it passes, once, and no
\* other: for_each as long as its body, having removed the node it is at, does
\* not put it back or remove the next one as well; for_each_safe as long as its
\* body does not remove the next one.
VisitsAll == [][ForNext /\ ~cut => IF each' = "no" THEN due = {} ELSE lnode' \in due]_listvars
=============================================================================
