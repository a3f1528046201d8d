---------------------------- MODULE MCContainers ----------------------------
(***************************************************************************)
(* The containers of the library side by side: a behaviour uses one of     *)
(* them, with every sequence of calls.                                     *)
(***************************************************************************)
EXTENDS OgsPool, OgsRbtree, OgsHash, OgsList, TLC

CONSTANTS k1, k2, k3, n1, n2, n3, n4, v1, v2

VARIABLE container

Start == /\ container \in {"pool", "rbtree", "hash", "list"}
         /\ Init /\ RbInit /\ HashInit /\ ListInit

Call == /\ \/ container = "pool" /\ Next /\ UNCHANGED <<rbvars, hashvars, listvars>>
           \/ container = "rbtree" /\ RbNext /\ UNCHANGED <<vars, hashvars, listvars>>
           \/ container = "hash" /\ HashNext /\ UNCHANGED <<vars, rbvars, listvars>>
           \/ container = "list" /\ ListNext /\ UNCHANGED <<vars, rbvars, hashvars>>
        /\ UNCHANGED container

Containers == Start /\ [][Call]_<<container, vars, rbvars, hashvars, listvars>>

\* Pairs of nodes with equal keys.
PairedKeys == [n \in RbNodes |-> (n + 1) \div 2]

\* No definition tells the nodes of a list apart, nor the values of a table;
\* three of the four nodes make the smallest group worth its cost.
Symmetry == Permutations({n1, n2, n3}) \cup Permutations({v1, v2})

\* All in one slot at first; two and one after the first expansion.
CollidingHashes == [k \in Keys |-> CASE k = k1 -> 1 [] k = k2 -> 5 [] OTHER -> 3]
=============================================================================
