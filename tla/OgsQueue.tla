------------------------------ MODULE OgsQueue ------------------------------
(***************************************************************************)
(* src/core/ogs-queue.c: the blocking queue between threads.               *)
(*                                                                         *)
(* Every access to the queue's fields is made with one_big_mutex held,     *)
(* except two reads of `terminated': the one on entry and the one after    *)
(* the mutex is released on the interrupted path.  So one critical section *)
(* (from a lock, or from the return of a wait, to the next unlock or wait) *)
(* is one action, and each unlocked read is an action of its own, which    *)
(* another thread's store to `terminated' may precede or follow.  The      *)
(* mutex itself needs no variable: it is free between any two actions.     *)
(*                                                                         *)
(* A condition variable is the set of the threads asleep on it.  A thread  *)
(* that wakes (signal, broadcast, timeout or no reason at all) is "woken": *)
(* it is off the condition variable but still has to win the mutex, and    *)
(* any other thread may enter first.                                       *)
(***************************************************************************)
EXTENDS Integers, FiniteSets, Sequences

CONSTANTS Threads,         \* the threads that use the queue
          Producers,       \* those that call the push functions
          Consumers,       \* those that call the pop functions
          Controllers,     \* those that call interrupt_all and term
          Data,            \* the pointers that may be pushed
          Capacity,        \* ogs_queue_create's argument
          NoCall,          \* "this thread is outside push and pop"
          NoItem,          \* no item: an empty slot, or an answer without one
          SpuriousWakeups  \* may a condition wait return with no cause?

ASSUME QueueAssumption ==
  /\ IsFiniteSet(Threads)
  /\ Producers \subseteq Threads
  /\ Consumers \subseteq Threads
  /\ Controllers \subseteq Threads
  /\ Capacity \in Nat \ {0}      \* ogs_calloc asserts a size above zero
  /\ NoItem \notin Data
  /\ SpuriousWakeups \in BOOLEAN

Timeouts == {"try", "timed", "forever"}   \* timeout = 0, > 0 and < 0
PushCalls == [op : {"push"}, timeout : Timeouts, item : Data]
PopCalls == [op : {"pop"}, timeout : Timeouts, item : {NoItem}]
Calls == PushCalls \cup PopCalls

ASSUME NoCallAssumption == NoCall \notin Calls

VARIABLES data, nelts, in, out,         \* the ring
          full_waiters, empty_waiters,  \* threads inside a cond_wait
          terminated,
          pc,                           \* where each thread is
          call,                         \* the push or pop it is in
          wake,                         \* why its last wait ended
          ret                           \* what its last call answered

ring == <<data, nelts, in, out>>
vars == <<data, nelts, in, out, full_waiters, empty_waiters, terminated,
          pc, call, wake, ret>>

NoRet == [status |-> "none", item |-> NoItem]

Init == /\ data = [i \in 0 .. Capacity - 1 |-> NoItem]
        /\ nelts = 0
        /\ in = 0
        /\ out = 0
        /\ full_waiters = 0
        /\ empty_waiters = 0
        /\ terminated = FALSE
        /\ pc = [t \in Threads |-> "idle"]
        /\ call = [t \in Threads |-> NoCall]
        /\ wake = [t \in Threads |-> "none"]
        /\ ret = [t \in Threads |-> NoRet]

-----------------------------------------------------------------------------
IsPush(t) == call[t] # NoCall /\ call[t].op = "push"
IsPop(t) == call[t] # NoCall /\ call[t].op = "pop"

Full == nelts = Capacity
Empty == nelts = 0

\* The threads asleep on not_full and on not_empty.
NotFullSleepers == {t \in Threads : pc[t] = "wait" /\ IsPush(t)}
NotEmptySleepers == {t \in Threads : pc[t] = "wait" /\ IsPop(t)}

\* in++ (or out++), then minus bounds once it reaches bounds.
Advance(i) == IF i + 1 >= Capacity THEN i + 1 - Capacity ELSE i + 1

-----------------------------------------------------------------------------
(* Entering, and the ways a call returns                                   *)

Invoke(t) ==
  /\ pc[t] = "idle"
  /\ \E c \in Calls : /\ c \in PushCalls => t \in Producers
                      /\ c \in PopCalls => t \in Consumers
                      /\ call' = [call EXCEPT ![t] = c]
  /\ pc' = [pc EXCEPT ![t] = "check"]
  /\ ret' = [ret EXCEPT ![t] = NoRet]
  /\ UNCHANGED <<ring, full_waiters, empty_waiters, terminated, wake>>

\* The thread t is back in its caller with this answer.
Answer(t, status, item) ==
  /\ call' = [call EXCEPT ![t] = NoCall]
  /\ wake' = [wake EXCEPT ![t] = "none"]
  /\ ret' = [ret EXCEPT ![t] = [status |-> status, item |-> item]]

Decline(t, status) == /\ Answer(t, status, NoItem)
                      /\ pc' = [pc EXCEPT ![t] = "idle"]
                      /\ UNCHANGED ring

\* "if (queue->terminated) return OGS_DONE", without the mutex.
Check(t) ==
  /\ pc[t] = "check"
  /\ \/ terminated /\ Decline(t, "DONE")
     \/ /\ ~terminated
        /\ pc' = [pc EXCEPT ![t] = "enter"]
        /\ UNCHANGED <<ring, call, wake, ret>>
  /\ UNCHANGED <<full_waiters, empty_waiters, terminated>>

\* (seeded fault: a single waiter is not signalled)
SignalOnlyMany(t, waiters, sleepers, item) ==
  /\ call' = [call EXCEPT ![t] = NoCall]
  /\ ret' = [ret EXCEPT ![t] = [status |-> "OK", item |-> item]]
  /\ IF waiters > 1 /\ sleepers # {}
     THEN \E s \in sleepers :
            /\ pc' = [pc EXCEPT ![t] = "idle", ![s] = "woken"]
            /\ wake' = [wake EXCEPT ![t] = "none", ![s] = "signal"]
     ELSE /\ pc' = [pc EXCEPT ![t] = "idle"]
          /\ wake' = [wake EXCEPT ![t] = "none"]

\* pthread_cond_signal when the waiter count is not zero: one sleeper, if
\* there is still one, is woken.  Thread t returns OK with the item.
SignalAndReturn(t, waiters, sleepers, item) ==
  /\ call' = [call EXCEPT ![t] = NoCall]
  /\ ret' = [ret EXCEPT ![t] = [status |-> "OK", item |-> item]]
  /\ IF waiters > 0 /\ sleepers # {}
     THEN \E s \in sleepers :
            /\ pc' = [pc EXCEPT ![t] = "idle", ![s] = "woken"]
            /\ wake' = [wake EXCEPT ![t] = "none", ![s] = "signal"]
     ELSE /\ pc' = [pc EXCEPT ![t] = "idle"]
          /\ wake' = [wake EXCEPT ![t] = "none"]

\* The tail of queue_push: store the pointer and wake a popper.
Store(t) ==
  /\ data' = [data EXCEPT ![in] = call[t].item]
  /\ in' = Advance(in)
  /\ nelts' = nelts + 1
  /\ out' = out
  /\ SignalAndReturn(t, empty_waiters, NotEmptySleepers, NoItem)

\* (seeded fault: signal only when the queue was full before)
LoadSignalsFirst(t) ==
  /\ nelts' = nelts - 1
  /\ out' = Advance(out)
  /\ UNCHANGED <<data, in>>
  /\ SignalAndReturn(t, IF Full THEN full_waiters ELSE 0, NotFullSleepers, data[out])

\* The tail of queue_pop: take the oldest pointer and wake a pusher.
Load(t) ==
  /\ nelts' = nelts - 1
  /\ out' = Advance(out)
  /\ UNCHANGED <<data, in>>
  /\ SignalAndReturn(t, full_waiters, NotFullSleepers, data[out])

\* Unlock with the queue still full (empty): the answer depends on a read
\* of `terminated' that is made afterwards.
Interrupted(t) == /\ pc' = [pc EXCEPT ![t] = "intr"]
                  /\ UNCHANGED <<ring, call, wake, ret>>

Sleep(t) == /\ pc' = [pc EXCEPT ![t] = "wait"]
            /\ UNCHANGED <<ring, call, wake, ret>>

-----------------------------------------------------------------------------
(* The critical sections of queue_push and queue_pop                       *)

PushEnter(t) ==
  /\ pc[t] = "enter" /\ IsPush(t)
  /\ \/ ~Full /\ Store(t) /\ UNCHANGED full_waiters
     \/ /\ Full /\ call[t].timeout = "try"
        /\ Decline(t, "RETRY") /\ UNCHANGED full_waiters
     \/ /\ Full /\ call[t].timeout # "try" /\ ~terminated
        /\ full_waiters' = full_waiters + 1
        /\ Sleep(t)
     \/ /\ Full /\ call[t].timeout # "try" /\ terminated
        /\ Interrupted(t) /\ UNCHANGED full_waiters
  /\ UNCHANGED <<empty_waiters, terminated>>

PopEnter(t) ==
  /\ pc[t] = "enter" /\ IsPop(t)
  /\ \/ ~Empty /\ Load(t) /\ UNCHANGED empty_waiters
     \/ /\ Empty /\ call[t].timeout = "try"
        /\ Decline(t, "RETRY") /\ UNCHANGED empty_waiters
     \/ /\ Empty /\ call[t].timeout # "try" /\ ~terminated
        /\ empty_waiters' = empty_waiters + 1
        /\ Sleep(t)
     \/ /\ Empty /\ call[t].timeout # "try" /\ terminated
        /\ Interrupted(t) /\ UNCHANGED empty_waiters
  /\ UNCHANGED <<full_waiters, terminated>>

\* (seeded fault: the timeout path returns before full_waiters--)
PushWokenLeaksWaiter(t) ==
  /\ pc[t] = "woken" /\ IsPush(t)
  /\ full_waiters' = IF wake[t] = "timeup" THEN full_waiters ELSE full_waiters - 1
  /\ \/ wake[t] = "timeup" /\ Decline(t, "TIMEUP")
     \/ wake[t] # "timeup" /\ Full /\ Interrupted(t)
     \/ wake[t] # "timeup" /\ ~Full /\ Store(t)
  /\ UNCHANGED <<empty_waiters, terminated>>

\* From the return of the wait on not_full: a timeout is handed to the
\* caller; otherwise the queue is looked at once more, and only once.
PushWoken(t) ==
  /\ pc[t] = "woken" /\ IsPush(t)
  /\ full_waiters' = full_waiters - 1
  /\ \/ wake[t] = "timeup" /\ Decline(t, "TIMEUP")
     \/ wake[t] # "timeup" /\ Full /\ Interrupted(t)
     \/ wake[t] # "timeup" /\ ~Full /\ Store(t)
  /\ UNCHANGED <<empty_waiters, terminated>>

\* (seeded fault: a woken popper does not look at the queue again)
PopWokenTrusts(t) ==
  /\ pc[t] = "woken" /\ IsPop(t)
  /\ empty_waiters' = empty_waiters - 1
  /\ \/ wake[t] = "timeup" /\ Decline(t, "TIMEUP")
     \/ wake[t] # "timeup" /\ Load(t)
  /\ UNCHANGED <<full_waiters, terminated>>

PopWoken(t) ==
  /\ pc[t] = "woken" /\ IsPop(t)
  /\ empty_waiters' = empty_waiters - 1
  /\ \/ wake[t] = "timeup" /\ Decline(t, "TIMEUP")
     \/ wake[t] # "timeup" /\ Empty /\ Interrupted(t)
     \/ wake[t] # "timeup" /\ ~Empty /\ Load(t)
  /\ UNCHANGED <<full_waiters, terminated>>

\* The second unlocked read of `terminated'.
AnswerInterrupted(t) ==
  /\ pc[t] = "intr"
  /\ Decline(t, IF terminated THEN "DONE" ELSE "ERROR")
  /\ UNCHANGED <<full_waiters, empty_waiters, terminated>>

-----------------------------------------------------------------------------
(* Waking without a signal: what pthread_cond_(timed)wait may do           *)

WakeUp(t, why) ==
  /\ pc[t] = "wait"
  /\ pc' = [pc EXCEPT ![t] = "woken"]
  /\ wake' = [wake EXCEPT ![t] = why]
  /\ UNCHANGED <<ring, full_waiters, empty_waiters, terminated, call, ret>>

Timeout(t) == call[t] # NoCall /\ call[t].timeout = "timed" /\ WakeUp(t, "timeup")

SpuriousWakeup(t) == SpuriousWakeups /\ WakeUp(t, "spurious")

-----------------------------------------------------------------------------
(* ogs_queue_interrupt_all and ogs_queue_term                              *)

InterruptAllCall(t) ==
  /\ pc[t] = "idle" /\ t \in Controllers
  /\ pc' = [pc EXCEPT ![t] = "interrupt"]
  /\ UNCHANGED <<ring, full_waiters, empty_waiters, terminated, call, wake, ret>>

\* (seeded fault: only not_empty is broadcast)
InterruptPoppers(t) ==
  /\ pc[t] = "interrupt"
  /\ pc' = [s \in Threads |-> IF s = t THEN "idle"
                              ELSE IF s \in NotEmptySleepers THEN "woken" ELSE pc[s]]
  /\ wake' = [s \in Threads |-> IF s \in NotEmptySleepers THEN "broadcast" ELSE wake[s]]
  /\ UNCHANGED <<ring, full_waiters, empty_waiters, terminated, call, ret>>

\* Both broadcasts, in one critical section.
InterruptAll(t) ==
  LET sleepers == {s \in Threads : pc[s] = "wait"} IN
  /\ pc[t] = "interrupt"
  /\ pc' = [s \in Threads |-> IF s = t THEN "idle"
                              ELSE IF s \in sleepers THEN "woken" ELSE pc[s]]
  /\ wake' = [s \in Threads |-> IF s \in sleepers THEN "broadcast" ELSE wake[s]]
  /\ UNCHANGED <<ring, full_waiters, empty_waiters, terminated, call, ret>>

\* (seeded fault: term returns without calling interrupt_all)
TermOnly(t) ==
  /\ pc[t] = "idle" /\ t \in Controllers
  /\ terminated' = TRUE
  /\ UNCHANGED <<ring, full_waiters, empty_waiters, pc, call, wake, ret>>

\* The critical section of ogs_queue_term; the call to interrupt_all that
\* ends it locks the mutex again, and others may enter in between.
Term(t) ==
  /\ pc[t] = "idle" /\ t \in Controllers
  /\ terminated' = TRUE
  /\ pc' = [pc EXCEPT ![t] = "interrupt"]
  /\ UNCHANGED <<ring, full_waiters, empty_waiters, call, wake, ret>>

-----------------------------------------------------------------------------
\* What thread t does by itself once it is inside the queue.
Step(t) == \/ Check(t) \/ PushEnter(t) \/ PopEnter(t)
           \/ PushWoken(t) \/ PopWoken(t) \/ AnswerInterrupted(t)
           \/ InterruptAll(t)

Next == \E t \in Threads : \/ Invoke(t) \/ InterruptAllCall(t) \/ Term(t)
                           \/ Step(t)
                           \/ Timeout(t) \/ SpuriousWakeup(t)

Spec == Init /\ [][Next]_vars

\* The scheduler runs every thread that can run, a thread that wants the
\* mutex eventually gets it, and a timed wait eventually times out.
Fairness == \A t \in Threads : WF_vars(Step(t)) /\ WF_vars(Timeout(t))

FairSpec == Spec /\ Fairness

-----------------------------------------------------------------------------
(* Properties                                                              *)

PCs == {"idle", "check", "enter", "wait", "woken", "intr", "interrupt"}
Wakes == {"none", "signal", "broadcast", "timeup", "spurious"}
Rets == [status : {"none", "OK", "RETRY", "TIMEUP", "DONE", "ERROR"},
         item : Data \cup {NoItem}]

\* The type invariant: the indices stay inside the array of `bounds' slots
\* and the unsigned counters never go below zero.
TypeOK == /\ data \in [0 .. Capacity - 1 -> Data \cup {NoItem}]
          /\ nelts \in 0 .. Capacity
          /\ in \in 0 .. Capacity - 1
          /\ out \in 0 .. Capacity - 1
          /\ full_waiters \in Nat
          /\ empty_waiters \in Nat
          /\ terminated \in BOOLEAN
          /\ pc \in [Threads -> PCs]
          /\ call \in [Threads -> Calls \cup {NoCall}]
          /\ wake \in [Threads -> Wakes]
          /\ ret \in [Threads -> Rets]

\* The threads back from a wait that did not time out: they will look at
\* the queue once more.
AwakePushers == {t \in Threads : pc[t] = "woken" /\ IsPush(t) /\ wake[t] # "timeup"}
AwakePoppers == {t \in Threads : pc[t] = "woken" /\ IsPop(t) /\ wake[t] # "timeup"}

\* No wake-up of a popper is lost: while a popper sleeps, every item in the
\* queue has a popper of its own already on its way to take it (the
\* conditional signal at the end of queue_push).
NoLostPopWakeup ==
  NotEmptySleepers # {} => nelts <= Cardinality(AwakePoppers)

\* No wake-up of a pusher is lost: while a pusher sleeps, every free slot
\* has a pusher of its own on its way (the signal at the end of queue_pop).
NoLostPushWakeup ==
  NotFullSleepers # {} => Capacity - nelts <= Cardinality(AwakePushers)

\* Pushers and poppers never all wait for each other: if some of each sleep,
\* somebody has been woken and will run.
NoMutualSleep ==
  ~(/\ NotFullSleepers # {} /\ NotEmptySleepers # {}
    /\ AwakePushers = {} /\ AwakePoppers = {})

\* full_waiters and empty_waiters, which decide whether a signal is sent at
\* all, count exactly the threads between their ++ and their --, whichever
\* way (signal, broadcast, timeout) the wait ended.
WaitersCounted ==
  /\ full_waiters =
       Cardinality({t \in Threads : pc[t] \in {"wait", "woken"} /\ IsPush(t)})
  /\ empty_waiters =
       Cardinality({t \in Threads : pc[t] \in {"wait", "woken"} /\ IsPop(t)})

\* The ring's fields are sound and the counts that decide on a signal are the
\* numbers of threads that could want one.
QueueSound == TypeOK /\ WaitersCounted

\* No wake-up is lost: neither a popper's nor a pusher's, and the two sides
\* never all wait for each other.
NoLostWakeup == NoLostPopWakeup /\ NoLostPushWakeup /\ NoMutualSleep

\* Once ogs_queue_term has set `terminated' and broadcast, nobody sleeps in
\* the queue, whatever slipped in between its two critical sections.
NobodySleepsAfterTerm ==
  terminated => \/ \E t \in Threads : pc[t] = "interrupt"
                \/ \A t \in Threads : pc[t] # "wait"

-----------------------------------------------------------------------------
(* The queue implements the bounded FIFO                                   *)

\* The slot of the i-th oldest item.
Slot(i) == IF out + i - 1 >= Capacity THEN out + i - 1 - Capacity ELSE out + i - 1

Contents == [i \in 1 .. nelts |-> data[Slot(i)]]

Fifo == INSTANCE BoundedFifo WITH fifo <- Contents

\* Every execution of the ring buffer with its waiting threads is one of the
\* bounded FIFO: nothing is lost, duplicated, reordered or overwritten, and
\* each answer is one that the caller may rely on.
ImplementsFifo == Fifo!Spec

-----------------------------------------------------------------------------
(* Liveness, under Fairness                                                *)

\* ogs_queue_term sets everybody free: every call in progress returns.
TermReleasesEverybody ==
  \A t \in Threads : terminated /\ call[t] # NoCall ~> call[t] = NoCall

\* An item and a sleeping popper do not stay together: the item is taken, or
\* the sleeper goes.
ItemsReachSleepers ==
  \A t \in Threads :
    t \in NotEmptySleepers /\ ~Empty ~> t \notin NotEmptySleepers \/ Empty

-----------------------------------------------------------------------------
(* What the comments of the code say and the code does not do              *)

\* "If we wake up and it's still empty, then we were interrupted": a thread
\* on the interrupted path was woken by interrupt_all, or the queue has been
\* terminated.
ErrorOnlyIfInterrupted ==
  \A t \in Threads : pc[t] = "intr" => wake[t] = "broadcast" \/ terminated
=============================================================================
