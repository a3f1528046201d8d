----------------------------- MODULE FiniteMap -----------------------------
(***************************************************************************)
(* What a hash table promises its callers: a map from keys to values, in   *)
(* which NULL is "not there".  A call leads from the map m to the map n    *)
(* and answers r.                                                          *)
(***************************************************************************)
CONSTANTS Keys, Vals, NULL
VARIABLES map, answer     \* the table; what the last call answered

Empty == [k \in Keys |-> NULL]

Init == map = Empty /\ answer = NULL

Set(k, v, m, n, r) == r = NULL /\ n = [m EXCEPT ![k] = v]

Get(k, m, n, r) == r = m[k] /\ n = m

GetOrSet(k, v, m, n, r) == r = n[k] /\ n = IF m[k] = NULL THEN [m EXCEPT ![k] = v] ELSE m

Clear(n, r) == r = NULL /\ n = Empty

Call(m, n, r) == \/ \E k \in Keys, v \in Vals \cup {NULL} : Set(k, v, m, n, r) \/ GetOrSet(k, v, m, n, r)
                 \/ \E k \in Keys : Get(k, m, n, r)
                 \/ Clear(n, r)

Next == \E m \in {map}, n \in {map'} : Call(m, n, answer')

Spec == Init /\ [][Next]_<<map, answer>>
=============================================================================
