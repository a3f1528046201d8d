--------------------------- MODULE FifoAllocator ---------------------------
(***************************************************************************)
(* What an OGS_POOL promises: a fixed set of nodes, each of them free or   *)
(* with one owner; the node given out is the one that has been free for    *)
(* the longest time, so that a released node (and its id) comes back as    *)
(* late as possible.                                                       *)
(***************************************************************************)
EXTENDS Integers, Sequences

CONSTANTS Size,      \* the number of nodes, which are 0 .. Size - 1
          NULL

VARIABLES free,      \* the free nodes, the one free for longest first
          allocated, \* the nodes given out
          answer     \* what the last allocation gave

vars == <<free, allocated, answer>>

Init == free = << >> /\ allocated = {} /\ answer = NULL

Create == /\ free' = [i \in 1 .. Size |-> i - 1]
          /\ allocated' = {}
          /\ answer' = NULL

Destroy == /\ free' = << >>
           /\ allocated' = {}
           /\ answer' = NULL

Allocate == /\ free # << >>
            /\ answer' = Head(free)
            /\ free' = Tail(free)
            /\ allocated' = allocated \cup {Head(free)}

Refuse == /\ free = << >>
          /\ answer' = NULL
          /\ UNCHANGED <<free, allocated>>

Release == \E n \in allocated : /\ free' = Append(free, n)
                                /\ allocated' = allocated \ {n}
                                /\ UNCHANGED answer

Next == Create \/ Destroy \/ Allocate \/ Refuse \/ Release

Spec == Init /\ [][Next]_vars
=============================================================================
