------------------------------- MODULE MCPoll -------------------------------
(***************************************************************************)
(* The event loop on each backend the library has: epoll, or select with   *)
(* several polls of a descriptor, and the notification channel; or kqueue. *)
(***************************************************************************)
EXTENDS OgsPoll, OgsKqueue, TLC

CONSTANTS n0, a, b

VARIABLE build

\* Of the backend that is not used there is one initial state.
PollInit == /\ Init /\ KqInit
            /\ build \in {"kqueue", "other"}
            /\ build = "kqueue" => backend = "epoll"

\* Bound: what select's descriptors have waiting is one byte or none.
SelectBytes == backend = "select" => bytes' <= 1

PollNext == /\ \/ build = "other" /\ Next /\ SelectBytes /\ UNCHANGED kqvars
               \/ build = "kqueue" /\ KqNext /\ UNCHANGED vars
            /\ UNCHANGED build

PollSpec == PollInit /\ [][PollNext]_<<build, vars, kqvars>>
FairPollSpec == PollSpec /\ WF_vars(build = "other" /\ Loop)

\* Two sockets, one numbered below the notification channel (opened before
\* the pollset) and one above: the first is read and written, the second
\* only written.  The pool has a record for each.
ThreePolls == {n0, a, b}
UsesOfSockets == 1 :> {"in", "out"} @@ 3 :> {"out"}

\* Two descriptors and three records, so that two polls may share one.
RecordsInOrder == <<1, 2, 3>>
TwoDescriptors == {<<3, "in">>, <<4, "out">>}
=============================================================================
