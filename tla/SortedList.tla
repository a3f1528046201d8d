----------------------------- MODULE SortedList -----------------------------
(***************************************************************************)
(* What a red-black tree promises the code that descends it to insert: the *)
(* nodes in the order of their keys, and among equal keys in the order of  *)
(* their insertion.                                                        *)
(***************************************************************************)
EXTENDS Naturals, Sequences, SequencesExt

CONSTANTS Nodes, KeyOf
VARIABLE list

Init == list = << >>

\* A new node is placed behind those of its key, and before the larger ones.
Insert(n) == /\ \A i \in 1 .. Len(list) : list[i] # n
             /\ \E k \in 1 .. Len(list) + 1 :
                  /\ \A i \in 1 .. Len(list) : i < k <=> KeyOf[list[i]] <= KeyOf[n]
                  /\ list' = InsertAt(list, k, n)

Delete(n) == \E k \in 1 .. Len(list) : list[k] = n /\ list' = RemoveAt(list, k)

Next == \E n \in Nodes : Insert(n) \/ Delete(n)

Spec == Init /\ [][Next]_list
=============================================================================
