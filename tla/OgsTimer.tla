----------------------------- MODULE OgsTimer -----------------------------
(***************************************************************************)
(* src/core/ogs-timer.c: the timer manager, and the loop that drives it    *)
(* (poll for at most ogs_timer_mgr_next, then ogs_timer_mgr_expire).       *)
(*                                                                         *)
(* One thread uses a manager, so the hard interleavings are those of       *)
(* ogs_timer_mgr_expire with the callbacks it makes: it lists the expired  *)
(* timers first and then walks the list, and every callback may add,       *)
(* delete, start and stop timers, those of the list included.              *)
(*                                                                         *)
(* The red-black tree is the sequence of its entries in order; the list of *)
(* expired timers is the part of it the walk has not left yet.  The memset *)
(* of ogs_timer_add clears the list node inside a timer, so a timer that   *)
(* is deleted and handed out again ends the list at its place.  The pool   *)
(* is the queue of free nodes that OgsPool implements.                     *)
(***************************************************************************)
EXTENDS Integers, Sequences, FiniteSets, SequencesExt

CONSTANTS Timers,         \* the nodes of manager->pool
          Durations,      \* arguments of ogs_timer_start
          MaxNow          \* bound on the clock

ASSUME TimerAssumption ==
  /\ IsFiniteSet(Timers) /\ Timers # {}
  /\ Durations \subseteq Nat \ {0}        \* ogs_assert(duration > 0)
  /\ MaxNow \in Nat

VARIABLES now,         \* ogs_get_monotonic_time()
          freeTimers,  \* the free nodes of the pool
          running,     \* timer->running
          tree,        \* the entries of manager->tree, in order
          expired,     \* expire's list, from the timer being served on
          phase,       \* the thread is in the application, polls, walks the
                       \* list, or is inside a callback of the walk
          wakeAt,      \* when the poll times out
          touched      \* history: a callback of this walk has used another
                       \* timer of the list

timervars == <<now, freeTimers, running, tree, expired, phase, wakeAt, touched>>

Never == -1                 \* OGS_INFINITE_TIME
UsedTimers == Timers \ ToSet(freeTimers)

TimerInit == /\ now = 0
             /\ freeTimers \in {SetToSeq(Timers)}
             /\ running = [t \in Timers |-> FALSE]
             /\ tree = << >>
             /\ expired = << >>
             /\ phase = "app"
             /\ wakeAt = 0
             /\ touched = FALSE

-----------------------------------------------------------------------------
(* The tree                                                                *)

InTree(t) == \E i \in DOMAIN tree : tree[i].timer = t

\* ogs_rbtree_delete
Without(t) == RemoveAt(tree, CHOOSE i \in DOMAIN tree : tree[i].timer = t)

\* (seeded fault: the comparison is turned round)
InsertedReversed(tr, e) ==
  InsertAt(tr, 1 + Cardinality({i \in DOMAIN tr : \A j \in 1 .. i : tr[j].timeout > e.timeout}), e)

\* The descent goes left only below a strictly later timeout: the new entry
\* follows the entries of the same time.
Inserted(tr, e) ==
  InsertAt(tr, 1 + Cardinality({i \in DOMAIN tr : \A j \in 1 .. i : tr[j].timeout <= e.timeout}), e)

-----------------------------------------------------------------------------
(* The operations on one timer, called by the application or a callback    *)

\* (seeded fault: the old entry stays in the tree)
StartAgain(t, d) == /\ running' = [running EXCEPT ![t] = TRUE]
                    /\ tree' = Inserted(tree, [timer |-> t, timeout |-> now + d])
                    /\ UNCHANGED <<now, freeTimers, expired, phase, wakeAt>>

Start(t, d) == /\ running' = [running EXCEPT ![t] = TRUE]
               /\ tree' = Inserted(IF running[t] THEN Without(t) ELSE tree,
                                   [timer |-> t, timeout |-> now + d])
               /\ UNCHANGED <<now, freeTimers, expired, phase, wakeAt>>

\* ogs_timer_stop does nothing to a timer that is not running.
Stopped(t) == /\ running' = [running EXCEPT ![t] = FALSE]
              /\ tree' = IF running[t] THEN Without(t) ELSE tree

Stop(t) == Stopped(t) /\ UNCHANGED <<now, freeTimers, expired, phase, wakeAt>>

Delete(t) == /\ Stopped(t)
             /\ freeTimers' = Append(freeTimers, t)
             /\ UNCHANGED <<now, expired, phase, wakeAt>>

\* The list as far as t, which it has at most once.
CutAt(t) == IF Contains(expired, t)
            THEN SubSeq(expired, 1, CHOOSE i \in DOMAIN expired : expired[i] = t)
            ELSE expired

\* ogs_assert(timer) ends the process when the pool is empty.
Add == /\ freeTimers # << >>
       /\ freeTimers' = Tail(freeTimers)
       /\ running' = [running EXCEPT ![Head(freeTimers)] = FALSE]
       /\ expired' = CutAt(Head(freeTimers))
       /\ UNCHANGED <<now, tree, phase, wakeAt>>

TimerOperation ==
  /\ phase \in {"app", "callback"}
  /\ \/ Add /\ UNCHANGED touched
     \/ \E t \in UsedTimers :
          /\ \/ Stop(t)
             \/ Delete(t)
             \/ \E d \in Durations : Start(t, d)
          /\ touched' = (touched \/ (expired # << >> /\ t \in ToSet(Tail(expired))))

-----------------------------------------------------------------------------
(* The loop                                                                *)

\* (seeded fault: an overdue timer is not told apart)
MgrNextUnchecked == IF tree = << >> THEN Never ELSE Head(tree).timeout - now

\* ogs_timer_mgr_next
MgrNext == IF tree = << >> THEN Never
           ELSE IF Head(tree).timeout > now THEN Head(tree).timeout - now ELSE 0

PollTimers == /\ phase = "app"
              /\ phase' = "poll"
              /\ wakeAt' = IF MgrNext = Never THEN Never ELSE now + MgrNext
              /\ UNCHANGED <<now, freeTimers, running, tree, expired, touched>>

\* (seeded fault: a timer due right now is left for the next pass)
DueStrictly(e) == e.timeout < now

Due(e) == e.timeout <= now

\* The first part of ogs_timer_mgr_expire: the poll has returned, on time,
\* late, or early for an event.  The walk of the tree stops at the first
\* entry that is not due.
Expire ==
  /\ phase \in {"app", "poll"}
  /\ LET n == Cardinality({i \in DOMAIN tree : \A j \in 1 .. i : Due(tree[j])})
     IN  expired' = [i \in 1 .. n |-> tree[i].timer]
  /\ phase' = "walk"
  /\ wakeAt' = 0
  /\ touched' = FALSE
  /\ UNCHANGED <<now, freeTimers, running, tree>>

\* The first timer of the list is stopped, and its callback called.
Serve == /\ phase = "walk"
         /\ expired # << >>
         /\ Stopped(Head(expired))
         /\ phase' = "callback"
         /\ UNCHANGED <<now, freeTimers, expired, wakeAt, touched>>

\* The callback returns and the walk moves on.
CallbackReturns == /\ phase = "callback"
                   /\ expired' = Tail(expired)
                   /\ phase' = "walk"
                   /\ UNCHANGED <<now, freeTimers, running, tree, wakeAt, touched>>

Leave == /\ phase = "walk"
         /\ expired = << >>
         /\ phase' = "app"
         /\ UNCHANGED <<now, freeTimers, running, tree, expired, wakeAt, touched>>

ClockTick == /\ now < MaxNow
             /\ now' = now + 1
             /\ UNCHANGED <<freeTimers, running, tree, expired, phase, wakeAt, touched>>

TimerNext == TimerOperation \/ PollTimers \/ Expire \/ Serve \/ CallbackReturns \/ Leave \/ ClockTick

TimerSpec == TimerInit /\ [][TimerNext]_timervars

\* Callbacks return, the walk goes on, and the application comes back to its
\* loop: one thread does all of it and nothing in it blocks but the poll,
\* which its timeout ends.  The clock owes nothing.
FairTimerSpec == /\ TimerSpec
                 /\ WF_timervars(Expire) /\ WF_timervars(Serve)
                 /\ WF_timervars(CallbackReturns) /\ WF_timervars(Leave)
-----------------------------------------------------------------------------
(* Properties                                                              *)

\* The fields of the manager and of the loop keep their types.
TimerTypes == /\ now \in 0 .. MaxNow
              /\ freeTimers \in Seq(Timers) /\ IsInjective(freeTimers)
              /\ running \in [Timers -> BOOLEAN]
              /\ tree \in Seq([timer : Timers, timeout : Nat])
              /\ expired \in Seq(Timers) /\ IsInjective(expired)
              /\ phase \in {"app", "poll", "walk", "callback"}
              /\ wakeAt \in Int
              /\ touched \in BOOLEAN

\* The tree has the running timers, each of them once: a timer whose expire
\* batch was cut short by its neighbours' callbacks is not forgotten, a
\* restart does not leave a second entry, and no released node is reachable
\* from the tree.
RunningIsInTree ==
  /\ \A t \in Timers : running[t] <=> InTree(t)
  /\ \A i, j \in DOMAIN tree : tree[i].timer = tree[j].timer => i = j
  /\ \A t \in Timers : running[t] => t \in UsedTimers

\* The records and the tree agree through every callback.
TimerSound == TimerTypes /\ RunningIsInTree

\* The poll never sleeps past the timeout of a running timer, and never
\* times out before the first of them.
PollWakesForFirstTimer ==
  phase = "poll" =>
    IF wakeAt = Never THEN \A t \in Timers : ~running[t]
    ELSE wakeAt > now =>
           /\ \A i \in DOMAIN tree : wakeAt <= tree[i].timeout
           /\ \E i \in DOMAIN tree : wakeAt = tree[i].timeout

\* As long as the callbacks leave the rest of the list alone, a callback is
\* made only for a timer that was running until then and whose time has come,
\* and no running timer is due before it.
FirstDueTimerFires ==
  [][Serve /\ ~touched =>
       \E i \in DOMAIN tree : /\ tree[i].timer = Head(expired)
                             /\ tree[i].timeout <= now
                             /\ \A j \in DOMAIN tree : tree[i].timeout <= tree[j].timeout]_timervars

\* A timer that is stopped or deleted does not fire, whatever callbacks do.
StoppedStaysSilent == [][Serve => running[Head(expired)]]_timervars

\* Whatever the callbacks do, also when they cut the batch short, a due
\* timer does not stay due: it fires, or somebody stops, deletes or
\* restarts it.
DueTimersAreServed ==
  \A t \in Timers :
    LET isDue == \E i \in DOMAIN tree : tree[i].timer = t /\ tree[i].timeout <= now
    IN  isDue ~> ~isDue
=============================================================================
