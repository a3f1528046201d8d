------------------------------- MODULE MCLoop -------------------------------
(***************************************************************************)
(* What a network function's threads wait for: the queue between them, the *)
(* timers of a loop, and the start and end of a thread.  A behaviour is    *)
(* about one of them.                                                      *)
(***************************************************************************)
EXTENDS OgsQueue, OgsTimer, OgsThread

CONSTANTS p1, c1, c2,
          About   \* what the behaviours of the run are about

VARIABLE part

LoopInit == Init /\ TimerInit /\ ThreadInit /\ part \in About

LoopNext == \/ part = "queue" /\ Next /\ UNCHANGED <<timervars, threadvars, part>>
            \/ part = "timers" /\ TimerNext /\ UNCHANGED <<vars, threadvars, part>>
            \/ part = "threads" /\ ThreadNext /\ UNCHANGED <<vars, timervars, part>>

LoopSpec == LoopInit /\ [][LoopNext]_<<part, vars, timervars, threadvars>>

\* The fairness of FairSpec, of FairTimerSpec and of FairThreadSpec.
FairLoopSpec ==
  /\ LoopSpec
  /\ \A t \in Threads : WF_vars(part = "queue" /\ Step(t)) /\ WF_vars(part = "queue" /\ Timeout(t))
  /\ WF_timervars(part = "timers" /\ Expire) /\ WF_timervars(part = "timers" /\ Serve)
  /\ WF_timervars(part = "timers" /\ CallbackReturns) /\ WF_timervars(part = "timers" /\ Leave)
  /\ \A t \in Records : /\ WF_threadvars(part = "threads" /\ ~Aborted /\ OwnerStep(t))
                        /\ WF_threadvars(part = "threads" /\ ~Aborted /\ WorkerStep(t))
                        /\ WF_threadvars(part = "threads" /\ ~Aborted /\ WaitTick(t))

\* One pushes and two pop, so that a popper can take what another was woken
\* for.  The first and the last also end the queue: while both the others
\* sleep, or while the one that pushes does.
PusherAndPoppers == {p1, c1, c2}
=============================================================================
