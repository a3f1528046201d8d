----------------------------- MODULE MCOgsQueue -----------------------------
(***************************************************************************)
(* Small instances of OgsQueue for TLC.  Producers, consumers and          *)
(* controllers are interchangeable within their group; Producers and       *)
(* Consumers are disjoint in the runs that use the symmetry.               *)
(***************************************************************************)
EXTENDS OgsQueue, TLC

CONSTANTS p1, p2, c1, c2, k1, d1, d2

OneAndTwo == {p1, c1, c2, k1}
TwoAndOne == {p1, p2, c1, k1}

Pushers1 == {p1}
Pushers2 == {p1, p2}
Poppers1 == {c1}
Poppers2 == {c1, c2}

Symmetric == Permutations(Producers) \cup Permutations(Consumers) \cup Permutations(Data)
=============================================================================
