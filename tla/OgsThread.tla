----------------------------- MODULE OgsThread -----------------------------
(***************************************************************************)
(* src/core/ogs-thread.c: starting a worker thread, waiting for it to      *)
(* start, and taking it down again.                                        *)
(*                                                                         *)
(* Every record has an owner, which calls ogs_thread_create and            *)
(* ogs_thread_destroy on it, over and over, and a worker.  `running' is    *)
(* only used with the record's mutex held, so a critical section (from a   *)
(* lock, or the return of the wait, to the next unlock or wait) is one     *)
(* step.  The owner holds the mutex from before pthread_create to its      *)
(* wait: the worker's first critical section comes after it.               *)
(***************************************************************************)
EXTENDS Naturals

CONSTANTS Records,   \* the records
          Deadline   \* the 5 seconds of ogs_thread_destroy, in ticks

ASSUME ThreadAssumption == Deadline \in Nat

VARIABLES owner,    \* where the owner of each record is
          worker,   \* where its worker is
          workerRuns,  \* thread->running
          live,     \* the record is allocated
          ran,      \* the function has returned (of this worker)
          waited,   \* ticks since ogs_thread_destroy was called
          spurious  \* history: create's wait returned with no cause

threadvars == <<owner, worker, workerRuns, live, ran, waited, spurious>>

ThreadInit == /\ owner = [t \in Records |-> "idle"]
              /\ worker = [t \in Records |-> "none"]
              /\ workerRuns = [t \in Records |-> FALSE]
              /\ live = [t \in Records |-> FALSE]
              /\ ran = [t \in Records |-> FALSE]
              /\ waited = [t \in Records |-> 0]
              /\ spurious = [t \in Records |-> FALSE]

Goto(who, t, from, to) == who[t] = from /\ who' = [who EXCEPT ![t] = to]

-----------------------------------------------------------------------------
(* ogs_thread_create                                                       *)

\* (seeded fault: the mutex is taken only around the wait, and the worker
\* may signal before anybody waits)
CreateUnlocked(t) == /\ owner[t] \in {"idle", "starting"}
                     /\ owner' = [owner EXCEPT ![t] = IF @ = "idle" THEN "starting" ELSE "wait"]
                     /\ IF owner[t] = "idle"
                        THEN /\ worker' = [worker EXCEPT ![t] = "start"]
                             /\ workerRuns' = [workerRuns EXCEPT ![t] = FALSE]
                             /\ live' = [live EXCEPT ![t] = TRUE]
                             /\ ran' = [ran EXCEPT ![t] = FALSE]
                        ELSE UNCHANGED <<worker, workerRuns, live, ran>>
                     /\ spurious' = [spurious EXCEPT ![t] = FALSE]
                     /\ UNCHANGED waited

\* Up to the wait.
Create(t) == /\ Goto(owner, t, "idle", "wait")
             /\ worker' = [worker EXCEPT ![t] = "start"]
             /\ workerRuns' = [workerRuns EXCEPT ![t] = FALSE]
             /\ live' = [live EXCEPT ![t] = TRUE]
             /\ ran' = [ran EXCEPT ![t] = FALSE]
             /\ spurious' = [spurious EXCEPT ![t] = FALSE]
             /\ UNCHANGED waited

SpuriousReturn(t) == /\ Goto(owner, t, "wait", "woken")
                     /\ spurious' = [spurious EXCEPT ![t] = TRUE]
                     /\ UNCHANGED <<worker, workerRuns, live, ran, waited>>

\* The wait has returned; nothing is looked at before create does.
Created(t) == /\ Goto(owner, t, "woken", "created")
              /\ UNCHANGED <<worker, workerRuns, live, ran, waited, spurious>>

-----------------------------------------------------------------------------
(* thread_worker                                                           *)

WorkerStart(t) == /\ Goto(worker, t, "start", "func")
                  /\ workerRuns' = [workerRuns EXCEPT ![t] = TRUE]
                  /\ owner' = [owner EXCEPT ![t] = IF @ = "wait" THEN "woken" ELSE @]
                  /\ UNCHANGED <<live, ran, waited, spurious>>

FuncReturns(t) == /\ Goto(worker, t, "func", "done")
                  /\ ran' = [ran EXCEPT ![t] = TRUE]
                  /\ UNCHANGED <<owner, workerRuns, live, waited, spurious>>

WorkerDone(t) == /\ Goto(worker, t, "done", "exit")
                 /\ workerRuns' = [workerRuns EXCEPT ![t] = FALSE]
                 /\ UNCHANGED <<owner, live, ran, waited, spurious>>

WorkerExit(t) == /\ Goto(worker, t, "exit", "ended")
                 /\ UNCHANGED <<owner, workerRuns, live, ran, waited, spurious>>

-----------------------------------------------------------------------------
(* ogs_thread_destroy                                                      *)

Destroy(t) == /\ Goto(owner, t, "created", "poll")
              /\ waited' = [waited EXCEPT ![t] = 0]
              /\ UNCHANGED <<worker, workerRuns, live, ran, spurious>>

\* (seeded fault: one look and no second)
PollOnce(t) == /\ Goto(owner, t, "poll", "last")
               /\ UNCHANGED <<worker, workerRuns, live, ran, waited, spurious>>

\* One round of the polling loop.
PollRunning(t) == /\ owner[t] = "poll"
                  /\ owner' = [owner EXCEPT ![t] =
                       IF waited[t] <= Deadline /\ workerRuns[t] THEN "sleep" ELSE "last"]
                  /\ UNCHANGED <<worker, workerRuns, live, ran, waited, spurious>>

Slept(t) == /\ Goto(owner, t, "sleep", "poll")
            /\ UNCHANGED <<worker, workerRuns, live, ran, waited, spurious>>

\* A worker that still runs ends the process: "thread still running".
LastCheck(t) == /\ owner[t] = "last"
                /\ owner' = [owner EXCEPT ![t] = IF workerRuns[t] THEN "abort" ELSE "join"]
                /\ UNCHANGED <<worker, workerRuns, live, ran, waited, spurious>>

\* (seeded fault: the record is freed without a join)
FreeUnjoined(t) == /\ owner[t] = "join"
                   /\ owner' = [owner EXCEPT ![t] = "idle"]
                   /\ worker' = [worker EXCEPT ![t] = IF @ = "ended" THEN "none" ELSE @]
                   /\ live' = [live EXCEPT ![t] = FALSE]
                   /\ waited' = [waited EXCEPT ![t] = 0]
                   /\ UNCHANGED <<workerRuns, ran, spurious>>

\* The join returns once the worker has ended, and the record is freed.
JoinAndFree(t) == /\ worker[t] = "ended"
                  /\ Goto(owner, t, "join", "idle")
                  /\ worker' = [worker EXCEPT ![t] = "none"]
                  /\ live' = [live EXCEPT ![t] = FALSE]
                  /\ waited' = [waited EXCEPT ![t] = 0]
                  /\ UNCHANGED <<workerRuns, ran, spurious>>

WaitTick(t) == /\ owner[t] \in {"poll", "sleep"}
               /\ waited[t] <= Deadline
               /\ waited' = [waited EXCEPT ![t] = @ + 1]
               /\ UNCHANGED <<owner, worker, workerRuns, live, ran, spurious>>

-----------------------------------------------------------------------------
OwnerStep(t) == Created(t) \/ PollRunning(t) \/ Slept(t) \/ LastCheck(t) \/ JoinAndFree(t)
WorkerStep(t) == WorkerStart(t) \/ WorkerDone(t) \/ WorkerExit(t)

ThreadStep(t) == \/ Create(t) \/ SpuriousReturn(t) \/ Destroy(t)
                 \/ OwnerStep(t) \/ WorkerStep(t) \/ FuncReturns(t) \/ WaitTick(t)

\* ogs_assert_if_reached ends the process, and every thread with it.
Aborted == \E t \in Records : owner[t] = "abort"

ThreadNext == \/ ~Aborted /\ \E t \in Records : ThreadStep(t)
              \/ Aborted /\ UNCHANGED threadvars

ThreadSpec == ThreadInit /\ [][ThreadNext]_threadvars

\* The scheduler runs every thread that can run, and time passes.  Nothing
\* says that the function returns.
FairThreadSpec == /\ ThreadSpec
                  /\ \A t \in Records : /\ WF_threadvars(~Aborted /\ OwnerStep(t))
                                        /\ WF_threadvars(~Aborted /\ WorkerStep(t))
                                        /\ WF_threadvars(~Aborted /\ WaitTick(t))

-----------------------------------------------------------------------------
(* Properties                                                              *)

\* The record's fields and the program counters keep their types, and
\* `running' is true only between the worker's two critical sections.
ThreadTypes ==
  /\ owner \in [Records -> {"idle", "wait", "woken", "created", "poll", "sleep",
                            "last", "abort", "join"}]
  /\ worker \in [Records -> {"none", "start", "func", "done", "exit", "ended"}]
  /\ workerRuns \in [Records -> BOOLEAN]
  /\ live \in [Records -> BOOLEAN]
  /\ ran \in [Records -> BOOLEAN]
  /\ waited \in [Records -> 0 .. Deadline + 1]
  /\ spurious \in [Records -> BOOLEAN]
  /\ \A t \in Records : workerRuns[t] => worker[t] \in {"func", "done"}

\* The record is there for as long as the worker may lock its mutex or call
\* through it, also when a spurious wake-up makes create return early.
RecordOutlivesWorker ==
  \A t \in Records : worker[t] \in {"start", "func", "done"} => live[t]

\* Destroy frees a record only after its function has run to its end: work
\* given to a thread is never dropped.
DestroyMeansDone == [][\A t \in Records : live[t] /\ ~live'[t] => ran[t]]_threadvars

\* Unless its wait had a spurious wake-up, create returns only once its
\* worker is under way.
CreatedIsStarted ==
  \A t \in Records : ~spurious[t] /\ owner[t] \in {"created", "poll", "sleep", "last", "join"}
                       => worker[t] # "start"

\* The record is sound, outlives its worker and is handed out when the worker
\* is under way.
ThreadSound == ThreadTypes /\ RecordOutlivesWorker /\ CreatedIsStarted

\* With the same proviso destroy gives up on a worker only after it has
\* waited for it until the deadline.
AbortIfOverdue ==
  \A t \in Records : owner[t] = "abort" /\ ~spurious[t] => waited[t] > Deadline

\* "thread still running after 3 seconds": destroy never gives up on a
\* worker without having waited for it.
AbortOnlyAfterWaiting ==
  \A t \in Records : owner[t] = "abort" => waited[t] > Deadline

\* The worker's signal is never lost: create returns.
CreateReturns == \A t \in Records : owner[t] = "wait" ~> owner[t] = "created" \/ Aborted

\* Destroy returns or gives up, also when the function never returns; after
\* a spurious wake-up it may wait in the join for as long as that takes.
DestroyEnds ==
  \A t \in Records : owner[t] = "poll" /\ ~spurious[t] ~> owner[t] = "idle" \/ Aborted

\* Neither ogs_thread_create nor ogs_thread_destroy hangs.
CallsReturn == CreateReturns /\ DestroyEnds
=============================================================================
