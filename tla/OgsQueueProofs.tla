--------------------------- MODULE OgsQueueProofs ---------------------------
(***************************************************************************)
(* Proofs about OgsQueue, for every number of threads and every capacity.  *)
(***************************************************************************)
EXTENDS OgsQueue, FiniteSetTheorems, ProofLemmas, TLAPS

\* A thread is in a call exactly while it is between the check and the return.
CallsInPlace == \A t \in Threads : call[t] = NoCall <=> pc[t] \in {"idle", "interrupt"}

PushWaiters == {t \in Threads : pc[t] \in {"wait", "woken"} /\ IsPush(t)}
PopWaiters == {t \in Threads : pc[t] \in {"wait", "woken"} /\ IsPop(t)}

CountInv == TypeOK /\ CallsInPlace /\ WaitersCounted

-----------------------------------------------------------------------------
(* Facts about data                                                        *)

\* A call is not the marker for none, and a push brings an item.
LEMMA CallFields ==
  ASSUME NEW c \in Calls
  PROVE  /\ c # NoCall
         /\ c.op = "push" => c.item \in Data
         /\ c.op \in {"push", "pop"}
BY NoCallAssumption DEF Calls, PushCalls, PopCalls

\* An index that is advanced stays inside the ring.
LEMMA AdvanceType ==
  ASSUME NEW i \in 0 .. Capacity - 1
  PROVE  Advance(i) \in 0 .. Capacity - 1
BY QueueAssumption DEF Advance

\* What a call answers is of the type of answers.
LEMMA RetType ==
  ASSUME NEW s \in {"none", "OK", "RETRY", "TIMEUP", "DONE", "ERROR"},
         NEW d \in Data \cup {NoItem}
  PROVE  [status |-> s, item |-> d] \in Rets
BY DEF Rets

\* Sets of threads are finite.
LEMMA SubsetFinite ==
  ASSUME NEW S, S \subseteq Threads
  PROVE  IsFiniteSet(S) /\ Cardinality(S) \in Nat
BY QueueAssumption, FS_Subset, FS_CardinalityType

-----------------------------------------------------------------------------
(* Type correctness                                                        *)

\* An empty queue that nobody waits for satisfies the invariant.
LEMMA InitCount == Init => CountInv
<1> SUFFICES ASSUME Init PROVE CountInv
  OBVIOUS
<1>1. TypeOK
  <2>1. NoRet \in Rets
    BY RetType DEF NoRet
  <2>2. /\ data \in [0 .. Capacity - 1 -> Data \cup {NoItem}]
        /\ nelts \in 0 .. Capacity /\ in \in 0 .. Capacity - 1
        /\ out \in 0 .. Capacity - 1
    BY QueueAssumption DEF Init
  <2>3. /\ pc \in [Threads -> PCs] /\ wake \in [Threads -> Wakes]
        /\ call \in [Threads -> Calls \cup {NoCall}]
    BY DEF Init, PCs, Wakes
  <2>4. ret \in [Threads -> Rets]
    BY <2>1 DEF Init
  <2>5. QED
    BY <2>2, <2>3, <2>4 DEF Init, TypeOK
<1>2. CallsInPlace
  BY DEF Init, CallsInPlace
<1>3. WaitersCounted
  <2>1. PushWaiters = {} /\ PopWaiters = {}
    BY DEF Init, PushWaiters, PopWaiters
  <2>2. QED
    BY <2>1, FS_EmptySet DEF Init, WaitersCounted, PushWaiters, PopWaiters
<1>4. QED
  BY <1>1, <1>2, <1>3 DEF CountInv

-----------------------------------------------------------------------------
(* The pieces the actions are made of                                      *)

\* Thread t is in neither set of waiters afterwards; nobody else moves.
Leaves(t) == /\ PushWaiters' = PushWaiters \ {t}
             /\ PopWaiters' = PopWaiters \ {t}

\* The counters follow the sets when t leaves them.
LEMMA LeaveCount ==
  ASSUME CountInv, NEW t \in Threads, Leaves(t),
         full_waiters' = IF t \in PushWaiters THEN full_waiters - 1 ELSE full_waiters,
         empty_waiters' = IF t \in PopWaiters THEN empty_waiters - 1 ELSE empty_waiters
  PROVE  WaitersCounted' /\ full_waiters' \in Nat /\ empty_waiters' \in Nat
<1>1. /\ full_waiters = Cardinality(PushWaiters)
      /\ empty_waiters = Cardinality(PopWaiters)
  BY DEF CountInv, WaitersCounted, PushWaiters, PopWaiters
<1>2. IsFiniteSet(PushWaiters) /\ IsFiniteSet(PopWaiters)
  BY SubsetFinite DEF PushWaiters, PopWaiters
<1>3. full_waiters' = Cardinality(PushWaiters') /\ full_waiters' \in Nat
  BY <1>1, <1>2, FS_RemoveElement, FS_CardinalityType DEF Leaves
<1>4. empty_waiters' = Cardinality(PopWaiters') /\ empty_waiters' \in Nat
  BY <1>1, <1>2, FS_RemoveElement, FS_CardinalityType DEF Leaves
<1>5. QED
  BY <1>3, <1>4 DEF WaitersCounted, PushWaiters, PopWaiters

\* A call that is turned down leaves the counts to its caller.
LEMMA DeclineStep ==
  ASSUME CountInv, NEW t \in Threads, pc[t] \notin {"idle", "interrupt"},
         NEW status \in {"RETRY", "TIMEUP", "DONE", "ERROR"},
         Decline(t, status),
         full_waiters' \in Nat, empty_waiters' \in Nat, terminated' = terminated
  PROVE  TypeOK' /\ CallsInPlace' /\ Leaves(t)
<1> USE DEF CountInv, Decline, Answer
<1>1. TypeOK'
  <2>1. [status |-> status, item |-> NoItem] \in Rets
    BY RetType
  <2>2. ret' \in [Threads -> Rets]
    BY <2>1 DEF TypeOK
  <2>3. /\ pc' \in [Threads -> PCs] /\ wake' \in [Threads -> Wakes]
        /\ call' \in [Threads -> Calls \cup {NoCall}]
    BY DEF TypeOK, PCs, Wakes
  <2>4. QED
    BY <2>2, <2>3 DEF TypeOK, ring
<1>2. CallsInPlace'
  BY DEF TypeOK, CallsInPlace
<1>3. Leaves(t)
  BY DEF TypeOK, Leaves, PushWaiters, PopWaiters, IsPush, IsPop
<1>4. QED
  BY <1>1, <1>2, <1>3

\* So does a call that is interrupted ...
LEMMA InterruptedStep ==
  ASSUME CountInv, NEW t \in Threads, pc[t] \notin {"idle", "interrupt"},
         Interrupted(t),
         full_waiters' \in Nat, empty_waiters' \in Nat, terminated' = terminated
  PROVE  TypeOK' /\ CallsInPlace' /\ Leaves(t)
<1> USE DEF CountInv, Interrupted
<1>1. TypeOK'
  BY DEF TypeOK, PCs, ring
<1>2. CallsInPlace'
  BY DEF TypeOK, CallsInPlace
<1>3. Leaves(t)
  BY DEF TypeOK, Leaves, PushWaiters, PopWaiters, IsPush, IsPop
<1>4. QED
  BY <1>1, <1>2, <1>3

\* ... and one that wakes a sleeper and returns.
LEMMA SignalStep ==
  ASSUME CountInv, NEW t \in Threads, pc[t] \notin {"idle", "interrupt", "wait"},
         NEW waiters, NEW sleepers, \A s \in sleepers : s \in Threads /\ pc[s] = "wait",
         NEW item \in Data \cup {NoItem},
         SignalAndReturn(t, waiters, sleepers, item)
  PROVE  /\ pc' \in [Threads -> PCs]
         /\ call' \in [Threads -> Calls \cup {NoCall}]
         /\ wake' \in [Threads -> Wakes]
         /\ ret' \in [Threads -> Rets]
         /\ CallsInPlace'
         /\ Leaves(t)
<1> USE DEF CountInv, SignalAndReturn
<1>1. ret' \in [Threads -> Rets]
  <2>1. [status |-> "OK", item |-> item] \in Rets
    BY RetType
  <2>2. QED
    BY <2>1 DEF TypeOK
<1>2. call' \in [Threads -> Calls \cup {NoCall}]
  BY DEF TypeOK
<1>3. pc' \in [Threads -> PCs] /\ wake' \in [Threads -> Wakes]
  BY DEF TypeOK, PCs, Wakes
<1>4. CallsInPlace'
  BY DEF TypeOK, CallsInPlace
<1>5. Leaves(t)
  BY DEF TypeOK, Leaves, PushWaiters, PopWaiters, IsPush, IsPop
<1>6. QED
  BY <1>1, <1>2, <1>3, <1>4, <1>5

\* A push that finds room.
LEMMA StoreStep ==
  ASSUME CountInv, NEW t \in Threads, pc[t] \notin {"idle", "interrupt", "wait"},
         IsPush(t), ~Full, Store(t),
         full_waiters' \in Nat, empty_waiters' \in Nat, terminated' = terminated
  PROVE  TypeOK' /\ CallsInPlace' /\ Leaves(t)
<1>1. /\ pc' \in [Threads -> PCs]
      /\ call' \in [Threads -> Calls \cup {NoCall}]
      /\ wake' \in [Threads -> Wakes]
      /\ ret' \in [Threads -> Rets]
      /\ CallsInPlace'
      /\ Leaves(t)
  BY SignalStep DEF Store, NotEmptySleepers
<1>2. call[t].item \in Data
  BY CallFields DEF IsPush, CountInv, TypeOK
<1>3. /\ data' \in [0 .. Capacity - 1 -> Data \cup {NoItem}]
      /\ nelts' \in 0 .. Capacity
      /\ in' \in 0 .. Capacity - 1
      /\ out' \in 0 .. Capacity - 1
  BY <1>2, AdvanceType, QueueAssumption DEF Store, Full, CountInv, TypeOK
<1>4. QED
  BY <1>1, <1>3 DEF CountInv, TypeOK

\* A pop that finds an item.
LEMMA LoadStep ==
  ASSUME CountInv, NEW t \in Threads, pc[t] \notin {"idle", "interrupt", "wait"},
         ~Empty, Load(t),
         full_waiters' \in Nat, empty_waiters' \in Nat, terminated' = terminated
  PROVE  TypeOK' /\ CallsInPlace' /\ Leaves(t)
<1>1. data[out] \in Data \cup {NoItem}
  BY DEF CountInv, TypeOK
<1>2. /\ pc' \in [Threads -> PCs]
      /\ call' \in [Threads -> Calls \cup {NoCall}]
      /\ wake' \in [Threads -> Wakes]
      /\ ret' \in [Threads -> Rets]
      /\ CallsInPlace'
      /\ Leaves(t)
  BY <1>1, SignalStep DEF Load, NotFullSleepers
<1>3. /\ data' \in [0 .. Capacity - 1 -> Data \cup {NoItem}]
      /\ nelts' \in 0 .. Capacity
      /\ in' \in 0 .. Capacity - 1
      /\ out' \in 0 .. Capacity - 1
  BY AdvanceType, QueueAssumption DEF Load, Empty, CountInv, TypeOK
<1>4. QED
  BY <1>2, <1>3 DEF CountInv, TypeOK

-----------------------------------------------------------------------------
(* CountInv is inductive: one lemma per kind of action                     *)

\* A thread enters a call.
LEMMA InvokeCount ==
  ASSUME CountInv, NEW t \in Threads, Invoke(t)
  PROVE  CountInv'
<1> USE DEF CountInv
<1>1. TypeOK'
  <2>1. NoRet \in Rets
    BY RetType DEF NoRet
  <2>2. QED
    BY <2>1, QueueAssumption DEF TypeOK, Invoke, ring, PCs
<1>2. CallsInPlace'
  BY CallFields DEF CallsInPlace, TypeOK, Invoke
<1>3. PushWaiters' = PushWaiters /\ PopWaiters' = PopWaiters
  BY DEF PushWaiters, PopWaiters, IsPush, IsPop, TypeOK, Invoke
<1>4. WaitersCounted'
  BY <1>3 DEF WaitersCounted, PushWaiters, PopWaiters, Invoke
<1>5. QED
  BY <1>1, <1>2, <1>4

\* The critical sections entered from outside: t was in neither set.
LEMMA EnterCount ==
  ASSUME CountInv, NEW t \in Threads, PushEnter(t) \/ PopEnter(t) \/ Check(t)
                                        \/ AnswerInterrupted(t)
  PROVE  CountInv'
<1>1. t \notin PushWaiters /\ t \notin PopWaiters
  BY DEF PushEnter, PopEnter, Check, AnswerInterrupted, PushWaiters, PopWaiters
<1>2. full_waiters \in Nat /\ empty_waiters \in Nat
  BY DEF CountInv, TypeOK
<1>3. ASSUME TypeOK', CallsInPlace', Leaves(t),
             UNCHANGED <<full_waiters, empty_waiters>>
      PROVE  CountInv'
  BY <1>1, <1>3, LeaveCount DEF CountInv
<1>4. CASE Check(t)
  <2>1. CASE terminated /\ Decline(t, "DONE")
    BY <1>2, <1>3, <1>4, <2>1, DeclineStep DEF Check
  <2>2. CASE ~terminated
    <3>1. TypeOK' /\ CallsInPlace'
      BY <1>4, <2>2 DEF CountInv, Check, TypeOK, CallsInPlace, PCs, ring, Decline
    <3>2. Leaves(t)
      BY <1>4, <2>2 DEF CountInv, Check, TypeOK, Leaves, PushWaiters, PopWaiters,
                        IsPush, IsPop
    <3>3. QED
      BY <1>3, <1>4, <3>1, <3>2 DEF Check
  <2>3. QED
    BY <1>4, <2>1, <2>2 DEF Check
<1>5. CASE AnswerInterrupted(t)
  BY <1>2, <1>3, <1>5, DeclineStep DEF AnswerInterrupted
<1>6. CASE PushEnter(t)
  <2>1. CASE ~Full /\ Store(t) /\ UNCHANGED full_waiters
    BY <1>2, <1>3, <1>6, <2>1, StoreStep DEF PushEnter
  <2>2. CASE Decline(t, "RETRY") /\ UNCHANGED full_waiters
    BY <1>2, <1>3, <1>6, <2>2, DeclineStep DEF PushEnter
  <2>3. CASE full_waiters' = full_waiters + 1 /\ Sleep(t)
    <3>1. TypeOK' /\ CallsInPlace'
      BY <1>6, <2>3 DEF CountInv, PushEnter, Sleep, TypeOK, CallsInPlace, PCs, ring
    <3>2. PushWaiters' = PushWaiters \cup {t} /\ PopWaiters' = PopWaiters
      BY <1>6, <2>3 DEF CountInv, PushEnter, Sleep, TypeOK, PushWaiters, PopWaiters,
                        IsPush, IsPop
    <3>3. Cardinality(PushWaiters \cup {t}) = Cardinality(PushWaiters) + 1
      BY <1>1, SubsetFinite, FS_AddElement DEF PushWaiters
    <3>4. WaitersCounted'
      BY <1>6, <2>3, <3>2, <3>3 DEF CountInv, PushEnter, WaitersCounted, PushWaiters, PopWaiters
    <3>5. QED
      BY <3>1, <3>4 DEF CountInv
  <2>4. CASE Interrupted(t) /\ UNCHANGED full_waiters
    BY <1>2, <1>3, <1>6, <2>4, InterruptedStep DEF PushEnter
  <2>5. QED
    BY <1>6, <2>1, <2>2, <2>3, <2>4 DEF PushEnter
<1>7. CASE PopEnter(t)
  <2>1. CASE ~Empty /\ Load(t) /\ UNCHANGED empty_waiters
    BY <1>2, <1>3, <1>7, <2>1, LoadStep DEF PopEnter
  <2>2. CASE Decline(t, "RETRY") /\ UNCHANGED empty_waiters
    BY <1>2, <1>3, <1>7, <2>2, DeclineStep DEF PopEnter
  <2>3. CASE empty_waiters' = empty_waiters + 1 /\ Sleep(t)
    <3>1. TypeOK' /\ CallsInPlace'
      BY <1>7, <2>3 DEF CountInv, PopEnter, Sleep, TypeOK, CallsInPlace, PCs, ring
    <3>2. PopWaiters' = PopWaiters \cup {t} /\ PushWaiters' = PushWaiters
      BY <1>7, <2>3 DEF CountInv, PopEnter, Sleep, TypeOK, PushWaiters, PopWaiters,
                        IsPush, IsPop
    <3>3. Cardinality(PopWaiters \cup {t}) = Cardinality(PopWaiters) + 1
      BY <1>1, SubsetFinite, FS_AddElement DEF PopWaiters
    <3>4. WaitersCounted'
      BY <1>7, <2>3, <3>2, <3>3 DEF CountInv, PopEnter, WaitersCounted, PushWaiters, PopWaiters
    <3>5. QED
      BY <3>1, <3>4 DEF CountInv
  <2>4. CASE Interrupted(t) /\ UNCHANGED empty_waiters
    BY <1>2, <1>3, <1>7, <2>4, InterruptedStep DEF PopEnter
  <2>5. QED
    BY <1>7, <2>1, <2>2, <2>3, <2>4 DEF PopEnter
<1>8. QED
  BY <1>4, <1>5, <1>6, <1>7

\* The critical sections that follow a wait: t leaves the set it was in.
LEMMA WokenCount ==
  ASSUME CountInv, NEW t \in Threads, PushWoken(t) \/ PopWoken(t)
  PROVE  CountInv' /\ Leaves(t)
<1>1. /\ full_waiters \in Nat /\ empty_waiters \in Nat
      /\ full_waiters = Cardinality(PushWaiters)
      /\ empty_waiters = Cardinality(PopWaiters)
  BY DEF CountInv, TypeOK, WaitersCounted, PushWaiters, PopWaiters
<1>2. ASSUME NEW S, S \subseteq Threads, t \in S
      PROVE  Cardinality(S) - 1 \in Nat
  <2>1. Cardinality(S \ {t}) \in Nat
    BY <1>2, SubsetFinite
  <2>2. Cardinality(S \ {t}) = Cardinality(S) - 1
    BY <1>2, SubsetFinite, FS_RemoveElement
  <2>3. QED
    BY <2>1, <2>2
<1>3. CASE PushWoken(t)
  <2>1. t \in PushWaiters /\ t \notin PopWaiters
    BY <1>3 DEF PushWoken, PushWaiters, PopWaiters, IsPush, IsPop
  <2>2. full_waiters' = full_waiters - 1 /\ full_waiters' \in Nat
    BY <1>1, <1>2, <1>3, <2>1 DEF PushWoken, PushWaiters
  <2>3. TypeOK' /\ CallsInPlace' /\ Leaves(t)
    BY <1>1, <1>3, <2>2, DeclineStep, InterruptedStep, StoreStep DEF PushWoken
  <2>4. QED
    BY <1>3, <2>1, <2>2, <2>3, LeaveCount DEF PushWoken, CountInv
<1>4. CASE PopWoken(t)
  <2>1. t \notin PushWaiters /\ t \in PopWaiters
    BY <1>4 DEF PopWoken, PushWaiters, PopWaiters, IsPush, IsPop
  <2>2. empty_waiters' = empty_waiters - 1 /\ empty_waiters' \in Nat
    BY <1>1, <1>2, <1>4, <2>1 DEF PopWoken, PopWaiters
  <2>3. TypeOK' /\ CallsInPlace' /\ Leaves(t)
    BY <1>1, <1>4, <2>2, DeclineStep, InterruptedStep, LoadStep DEF PopWoken
  <2>4. QED
    BY <1>4, <2>1, <2>2, <2>3, LeaveCount DEF PopWoken, CountInv
<1>5. QED
  BY <1>3, <1>4

\* The steps that move nobody into or out of the two sets.
LEMMA OtherCount ==
  ASSUME CountInv, NEW t \in Threads,
         \/ Timeout(t) \/ SpuriousWakeup(t)
         \/ InterruptAllCall(t) \/ Term(t) \/ InterruptAll(t)
  PROVE  CountInv'
<1> USE DEF CountInv
<1>1. CASE Timeout(t) \/ SpuriousWakeup(t)
  <2> USE DEF Timeout, SpuriousWakeup, WakeUp
  <2>1. TypeOK' /\ CallsInPlace'
    BY <1>1 DEF TypeOK, CallsInPlace, PCs, Wakes, ring
  <2>2. PushWaiters' = PushWaiters /\ PopWaiters' = PopWaiters
    BY <1>1 DEF TypeOK, PushWaiters, PopWaiters, IsPush, IsPop
  <2>3. QED
    BY <1>1, <2>1, <2>2 DEF WaitersCounted, PushWaiters, PopWaiters
<1>2. CASE InterruptAllCall(t) \/ Term(t)
  <2> USE DEF InterruptAllCall, Term
  <2>1. TypeOK' /\ CallsInPlace'
    BY <1>2 DEF TypeOK, CallsInPlace, PCs, ring
  <2>2. PushWaiters' = PushWaiters /\ PopWaiters' = PopWaiters
    BY <1>2 DEF TypeOK, PushWaiters, PopWaiters, IsPush, IsPop
  <2>3. QED
    BY <1>2, <2>1, <2>2 DEF WaitersCounted, PushWaiters, PopWaiters
<1>3. CASE InterruptAll(t)
  <2>1. TypeOK' /\ CallsInPlace'
    BY <1>3 DEF InterruptAll, TypeOK, CallsInPlace, PCs, Wakes, ring
  <2>2. PushWaiters' = PushWaiters /\ PopWaiters' = PopWaiters
    BY <1>3 DEF InterruptAll, TypeOK, PushWaiters, PopWaiters, IsPush, IsPop
  <2>3. QED
    BY <1>3, <2>1, <2>2 DEF InterruptAll, WaitersCounted, PushWaiters, PopWaiters
<1>4. QED
  BY <1>1, <1>2, <1>3

\* Nothing happens.
LEMMA StutterCount == CountInv /\ UNCHANGED vars => CountInv'
<1> SUFFICES ASSUME CountInv, UNCHANGED vars PROVE CountInv'
  OBVIOUS
<1> USE DEF vars, CountInv
<1>1. TypeOK'
  BY DEF TypeOK
<1>2. CallsInPlace'
  BY DEF CallsInPlace
<1>3. PushWaiters' = PushWaiters /\ PopWaiters' = PopWaiters
  BY DEF PushWaiters, PopWaiters, IsPush, IsPop
<1>4. WaitersCounted'
  BY <1>3 DEF WaitersCounted, PushWaiters, PopWaiters
<1>5. QED
  BY <1>1, <1>2, <1>4

\* Every step keeps the invariant of the counters.
LEMMA NextCount == CountInv /\ [Next]_vars => CountInv'
BY InvokeCount, EnterCount, WokenCount, OtherCount, StutterCount DEF Next, Step

\* The invariant of the counters holds all the time.
LEMMA CountInvariant == Spec => []CountInv
BY InitCount, NextCount, PTL DEF Spec

\* The ring's indices and the waiter counts stay in range for every number
\* of threads and every capacity.
THEOREM TypeCorrect == Spec => []TypeOK
BY CountInvariant, PTL DEF CountInv

\* full_waiters and empty_waiters count the waiting threads exactly.
THEOREM WaitersAreCounted == Spec => []WaitersCounted
BY CountInvariant, PTL DEF CountInv

-----------------------------------------------------------------------------
(* Termination                                                             *)

\* No step puts a thread to sleep once the queue is terminated.
LEMMA TermStep ==
  ASSUME CountInv, NobodySleepsAfterTerm, [Next]_vars
  PROVE  NobodySleepsAfterTerm'
<1> USE DEF CountInv, TypeOK, NobodySleepsAfterTerm
<1>1. ASSUME NEW t \in Threads, Invoke(t) PROVE NobodySleepsAfterTerm'
  BY <1>1 DEF Invoke
<1>2. ASSUME NEW t \in Threads, InterruptAllCall(t) \/ Term(t) PROVE NobodySleepsAfterTerm'
  BY <1>2 DEF InterruptAllCall, Term
<1>3. ASSUME NEW t \in Threads, Check(t) \/ AnswerInterrupted(t) PROVE NobodySleepsAfterTerm'
  BY <1>3 DEF Check, AnswerInterrupted, Decline
\* A thread falls asleep only after seeing ~terminated with the mutex held.
<1>4. ASSUME NEW t \in Threads, PushEnter(t) PROVE NobodySleepsAfterTerm'
  BY <1>4 DEF PushEnter, Store, SignalAndReturn, Decline, Sleep, Interrupted, NotEmptySleepers
<1>5. ASSUME NEW t \in Threads, PopEnter(t) PROVE NobodySleepsAfterTerm'
  BY <1>5 DEF PopEnter, Load, SignalAndReturn, Decline, Sleep, Interrupted, NotFullSleepers
<1>6. ASSUME NEW t \in Threads, PushWoken(t) PROVE NobodySleepsAfterTerm'
  BY <1>6 DEF PushWoken, Store, SignalAndReturn, Decline, Interrupted, NotEmptySleepers
<1>7. ASSUME NEW t \in Threads, PopWoken(t) PROVE NobodySleepsAfterTerm'
  BY <1>7 DEF PopWoken, Load, SignalAndReturn, Decline, Interrupted, NotFullSleepers
\* The broadcasts wake everybody.
<1>8. ASSUME NEW t \in Threads, InterruptAll(t) PROVE NobodySleepsAfterTerm'
  BY <1>8 DEF InterruptAll
<1>9. ASSUME NEW t \in Threads, Timeout(t) \/ SpuriousWakeup(t)
      PROVE  NobodySleepsAfterTerm'
  BY <1>9 DEF Timeout, SpuriousWakeup, WakeUp
<1>10. CASE UNCHANGED vars
  BY <1>10 DEF vars
<1>11. QED
  BY <1>1, <1>2, <1>3, <1>4, <1>5, <1>6, <1>7, <1>8, <1>9, <1>10 DEF Next, Step

\* After ogs_queue_term nobody is left asleep in push or pop, whatever calls
\* came in between its two critical sections.
THEOREM TermWakesEverybody == Spec => []NobodySleepsAfterTerm
<1>1. Init => NobodySleepsAfterTerm
  BY DEF Init, NobodySleepsAfterTerm
<1>2. CountInv /\ NobodySleepsAfterTerm /\ [Next]_vars => NobodySleepsAfterTerm'
  BY TermStep
<1>3. QED
  BY <1>1, <1>2, CountInvariant, PTL DEF Spec

-----------------------------------------------------------------------------
(* No lost wake-ups                                                        *)

\* A smaller set of threads has no more members ...
LEMMA CardinalityMonotone ==
  ASSUME NEW S, NEW T, S \subseteq T, T \subseteq Threads
  PROVE  Cardinality(S) \in Nat /\ Cardinality(T) \in Nat
         /\ Cardinality(S) <= Cardinality(T)
BY SubsetFinite, FS_Subset, FS_CardinalityType

\* ... one thread more counts one more ...
LEMMA CardinalityAdd ==
  ASSUME NEW S, S \subseteq Threads, NEW x \in Threads, x \notin S
  PROVE  Cardinality(S \cup {x}) = Cardinality(S) + 1
BY SubsetFinite, FS_AddElement

\* ... and one fewer at most one fewer.
LEMMA CardinalityRemove ==
  ASSUME NEW S, S \subseteq Threads, NEW x \in Threads
  PROVE  Cardinality(S) <= Cardinality(S \ {x}) + 1
BY SubsetFinite, FS_RemoveElement

\* The sleepers of a condition variable are counted by its waiter count, so
\* the test before the signal succeeds whenever somebody sleeps.
LEMMA SleepersAreCounted ==
  ASSUME CountInv
  PROVE  /\ NotEmptySleepers # {} => empty_waiters > 0
         /\ NotFullSleepers # {} => full_waiters > 0
<1>1. /\ NotEmptySleepers \subseteq PopWaiters /\ PopWaiters \subseteq Threads
      /\ NotFullSleepers \subseteq PushWaiters /\ PushWaiters \subseteq Threads
  BY DEF NotEmptySleepers, NotFullSleepers, PopWaiters, PushWaiters
<1>2. /\ full_waiters = Cardinality(PushWaiters)
      /\ empty_waiters = Cardinality(PopWaiters)
  BY DEF CountInv, WaitersCounted, PushWaiters, PopWaiters
<1>3. ASSUME NEW S, S \subseteq Threads, S # {} PROVE Cardinality(S) > 0
  BY <1>3, SubsetFinite, FS_EmptySet
<1>4. QED
  BY <1>1, <1>2, <1>3

\* Poppers: what each kind of step does to the sleepers, to the poppers on
\* their way and to the number of items.
LEMMA PopWakeupStep ==
  ASSUME CountInv, NoLostPopWakeup, [Next]_vars
  PROVE  NoLostPopWakeup'
<1> USE DEF NoLostPopWakeup
<1>1. nelts \in Nat /\ AwakePoppers \subseteq Threads /\ AwakePoppers' \subseteq Threads
  BY QueueAssumption DEF CountInv, TypeOK, AwakePoppers
\* More poppers on their way, no more items, no new sleepers.
<1>2. ASSUME NotEmptySleepers' \subseteq NotEmptySleepers,
             AwakePoppers \subseteq AwakePoppers', nelts' = nelts
      PROVE  NoLostPopWakeup'
  BY <1>1, <1>2, CardinalityMonotone
<1>3. ASSUME NEW t \in Threads, Invoke(t) PROVE NoLostPopWakeup'
  BY <1>2, <1>3 DEF Invoke, ring, CountInv, TypeOK, NotEmptySleepers, AwakePoppers, IsPop
<1>4. ASSUME NEW t \in Threads, InterruptAllCall(t) \/ Term(t) PROVE NoLostPopWakeup'
  BY <1>2, <1>4 DEF InterruptAllCall, Term, ring, CountInv, TypeOK, NotEmptySleepers,
                    AwakePoppers, IsPop
<1>5. ASSUME NEW t \in Threads, Check(t) \/ AnswerInterrupted(t) PROVE NoLostPopWakeup'
  BY <1>2, <1>5 DEF Check, AnswerInterrupted, Decline, Answer, ring, CountInv, TypeOK,
                    NotEmptySleepers, AwakePoppers, IsPop
<1>6. ASSUME NEW t \in Threads, InterruptAll(t) PROVE NoLostPopWakeup'
  <2>1. NotEmptySleepers' = {}
    BY <1>6 DEF InterruptAll, CountInv, TypeOK, NotEmptySleepers
  <2>2. QED
    BY <2>1
<1>7. ASSUME NEW t \in Threads, Timeout(t) \/ SpuriousWakeup(t) PROVE NoLostPopWakeup'
  BY <1>2, <1>7 DEF Timeout, SpuriousWakeup, WakeUp, ring, CountInv, TypeOK,
                    NotEmptySleepers, AwakePoppers, IsPop
\* A push that stores: one more item, and one more popper on its way if any
\* popper sleeps.
<1>8. ASSUME NEW t \in Threads, pc[t] \in {"enter", "woken"}, IsPush(t), Store(t)
      PROVE  NoLostPopWakeup'
  <2>1. CASE NotEmptySleepers = {}
    <3>1. NotEmptySleepers' = {}
      BY <1>8, <2>1 DEF Store, SignalAndReturn, CountInv, TypeOK, NotEmptySleepers, IsPop
    <3>2. QED
      BY <3>1
  <2>2. CASE NotEmptySleepers # {}
    <3>1. PICK s \in NotEmptySleepers :
            /\ pc' = [pc EXCEPT ![t] = "idle", ![s] = "woken"]
            /\ wake' = [wake EXCEPT ![t] = "none", ![s] = "signal"]
            /\ call' = [call EXCEPT ![t] = NoCall]
            /\ nelts' = nelts + 1
      BY <1>8, <2>2, SleepersAreCounted DEF Store, SignalAndReturn
    <3>2. s \in Threads /\ s # t /\ s \notin AwakePoppers
      BY <1>8, <3>1 DEF NotEmptySleepers, AwakePoppers
    <3>3. AwakePoppers' = AwakePoppers \cup {s}
      BY <1>8, <3>1, <3>2 DEF CountInv, TypeOK, NotEmptySleepers, AwakePoppers, IsPush, IsPop
    <3>4. Cardinality(AwakePoppers') = Cardinality(AwakePoppers) + 1
      BY <1>1, <3>2, <3>3, CardinalityAdd
    <3>5. QED
      BY <1>1, <2>2, <3>1, <3>4, CardinalityMonotone
  <2>3. QED
    BY <2>1, <2>2
\* A pop that takes an item: one item less, and at most one popper less on
\* its way.  The signal it sends goes to a pusher.
<1>9. ASSUME NEW t \in Threads, pc[t] \in {"enter", "woken"}, IsPop(t), ~Empty, Load(t)
      PROVE  NoLostPopWakeup'
  <2>1. NotEmptySleepers' = NotEmptySleepers /\ nelts' = nelts - 1
    BY <1>9 DEF Load, SignalAndReturn, CountInv, TypeOK, NotEmptySleepers, NotFullSleepers,
                IsPush, IsPop
  <2>2. AwakePoppers \ {t} \subseteq AwakePoppers'
    BY <1>9 DEF Load, SignalAndReturn, CountInv, TypeOK, AwakePoppers, NotFullSleepers,
                IsPush, IsPop
  <2>3. Cardinality(AwakePoppers) <= Cardinality(AwakePoppers \ {t}) + 1
    BY <1>1, CardinalityRemove
  <2>4. /\ Cardinality(AwakePoppers \ {t}) <= Cardinality(AwakePoppers')
        /\ Cardinality(AwakePoppers \ {t}) \in Nat /\ Cardinality(AwakePoppers') \in Nat
    BY <1>1, <2>2, CardinalityMonotone
  <2>5. Cardinality(AwakePoppers) \in Nat
    BY <1>1, CardinalityMonotone
  <2>6. QED
    BY <1>1, <2>1, <2>3, <2>4, <2>5
\* A call that returns or is about to: it was not counted on.
<1>10. ASSUME NEW t \in Threads, pc[t] \in {"enter", "woken"},
              pc[t] = "woken" /\ IsPop(t) => wake[t] = "timeup",
              \/ \E status \in {"RETRY", "TIMEUP"} : Decline(t, status)
              \/ Interrupted(t)
       PROVE  NoLostPopWakeup'
  BY <1>2, <1>10 DEF Decline, Answer, Interrupted, ring, CountInv, TypeOK,
                     NotEmptySleepers, AwakePoppers, IsPop
<1>11. ASSUME NEW t \in Threads, Empty, nelts' = nelts PROVE NoLostPopWakeup'
  BY <1>1, <1>11, CardinalityMonotone DEF Empty
<1>12. ASSUME NEW t \in Threads, PushEnter(t) PROVE NoLostPopWakeup'
  <2>1. ASSUME Sleep(t) PROVE NoLostPopWakeup'
    BY <1>2, <1>12, <2>1 DEF PushEnter, Sleep, ring, CountInv, TypeOK, NotEmptySleepers,
                              AwakePoppers, IsPush, IsPop
  <2>2. QED
    BY <1>8, <1>10, <1>12, <2>1 DEF PushEnter
<1>13. ASSUME NEW t \in Threads, PopEnter(t) PROVE NoLostPopWakeup'
  <2>1. ASSUME Empty, Sleep(t) \/ Interrupted(t) PROVE NoLostPopWakeup'
    BY <1>11, <2>1 DEF Sleep, Interrupted, ring
  <2>2. QED
    BY <1>9, <1>10, <1>13, <2>1 DEF PopEnter
<1>14. ASSUME NEW t \in Threads, PushWoken(t) PROVE NoLostPopWakeup'
  <2>1. ~IsPop(t)
    BY <1>14 DEF PushWoken, IsPush, IsPop
  <2>2. QED
    BY <1>8, <1>10, <1>14, <2>1 DEF PushWoken
<1>15. ASSUME NEW t \in Threads, PopWoken(t) PROVE NoLostPopWakeup'
  <2>1. ASSUME Empty, Interrupted(t) PROVE NoLostPopWakeup'
    BY <1>11, <2>1 DEF Interrupted, ring
  <2>2. QED
    BY <1>9, <1>10, <1>15, <2>1 DEF PopWoken
<1>16. CASE UNCHANGED vars
  BY <1>16, <1>2 DEF vars, NotEmptySleepers, AwakePoppers, IsPop
<1>17. QED
  BY <1>3, <1>4, <1>5, <1>6, <1>7, <1>12, <1>13, <1>14, <1>15, <1>16 DEF Next, Step

\* While a popper sleeps, every item in the queue has a popper on its way to
\* it, for every number of threads and every capacity.
THEOREM NoPopperIsForgotten == Spec => []NoLostPopWakeup
<1>1. Init => NoLostPopWakeup
  BY DEF Init, NoLostPopWakeup, NotEmptySleepers
<1>2. CountInv /\ NoLostPopWakeup /\ [Next]_vars => NoLostPopWakeup'
  BY PopWakeupStep
<1>3. QED
  BY <1>1, <1>2, CountInvariant, PTL DEF Spec

\* Pushers and free slots, the mirror image.
LEMMA PushWakeupStep ==
  ASSUME CountInv, NoLostPushWakeup, [Next]_vars
  PROVE  NoLostPushWakeup'
<1> USE DEF NoLostPushWakeup
<1>1. /\ nelts \in 0 .. Capacity /\ Capacity \in Nat
      /\ AwakePushers \subseteq Threads /\ AwakePushers' \subseteq Threads
  BY QueueAssumption DEF CountInv, TypeOK, AwakePushers
\* More pushers on their way, no more free slots, no new sleepers.
<1>2. ASSUME NotFullSleepers' \subseteq NotFullSleepers,
             AwakePushers \subseteq AwakePushers', nelts' = nelts
      PROVE  NoLostPushWakeup'
  BY <1>1, <1>2, CardinalityMonotone
<1>3. ASSUME NEW t \in Threads, Invoke(t) PROVE NoLostPushWakeup'
  BY <1>2, <1>3 DEF Invoke, ring, CountInv, TypeOK, NotFullSleepers, AwakePushers, IsPush
<1>4. ASSUME NEW t \in Threads, InterruptAllCall(t) \/ Term(t) PROVE NoLostPushWakeup'
  BY <1>2, <1>4 DEF InterruptAllCall, Term, ring, CountInv, TypeOK, NotFullSleepers,
                    AwakePushers, IsPush
<1>5. ASSUME NEW t \in Threads, Check(t) \/ AnswerInterrupted(t) PROVE NoLostPushWakeup'
  BY <1>2, <1>5 DEF Check, AnswerInterrupted, Decline, Answer, ring, CountInv, TypeOK,
                    NotFullSleepers, AwakePushers, IsPush
<1>6. ASSUME NEW t \in Threads, InterruptAll(t) PROVE NoLostPushWakeup'
  <2>1. NotFullSleepers' = {}
    BY <1>6 DEF InterruptAll, CountInv, TypeOK, NotFullSleepers
  <2>2. QED
    BY <2>1
<1>7. ASSUME NEW t \in Threads, Timeout(t) \/ SpuriousWakeup(t) PROVE NoLostPushWakeup'
  BY <1>2, <1>7 DEF Timeout, SpuriousWakeup, WakeUp, ring, CountInv, TypeOK,
                    NotFullSleepers, AwakePushers, IsPush
\* A pop that takes an item: one more free slot, and one more pusher on its
\* way if any pusher sleeps.
<1>8. ASSUME NEW t \in Threads, pc[t] \in {"enter", "woken"}, IsPop(t), Load(t)
      PROVE  NoLostPushWakeup'
  <2>1. CASE NotFullSleepers = {}
    <3>1. NotFullSleepers' = {}
      BY <1>8, <2>1 DEF Load, SignalAndReturn, CountInv, TypeOK, NotFullSleepers, IsPush
    <3>2. QED
      BY <3>1
  <2>2. CASE NotFullSleepers # {}
    <3>1. PICK s \in NotFullSleepers :
            /\ pc' = [pc EXCEPT ![t] = "idle", ![s] = "woken"]
            /\ wake' = [wake EXCEPT ![t] = "none", ![s] = "signal"]
            /\ call' = [call EXCEPT ![t] = NoCall]
            /\ nelts' = nelts - 1
      BY <1>8, <2>2, SleepersAreCounted DEF Load, SignalAndReturn
    <3>2. s \in Threads /\ s # t /\ s \notin AwakePushers
      BY <1>8, <3>1 DEF NotFullSleepers, AwakePushers
    <3>3. AwakePushers' = AwakePushers \cup {s}
      BY <1>8, <3>1, <3>2 DEF CountInv, TypeOK, NotFullSleepers, AwakePushers, IsPush, IsPop
    <3>4. Cardinality(AwakePushers') = Cardinality(AwakePushers) + 1
      BY <1>1, <3>2, <3>3, CardinalityAdd
    <3>5. QED
      BY <1>1, <2>2, <3>1, <3>4, CardinalityMonotone
  <2>3. QED
    BY <2>1, <2>2
\* A push that stores: one free slot less, and at most one pusher less on
\* its way.  The signal it sends goes to a popper.
<1>9. ASSUME NEW t \in Threads, pc[t] \in {"enter", "woken"}, IsPush(t), ~Full, Store(t)
      PROVE  NoLostPushWakeup'
  <2>1. NotFullSleepers' = NotFullSleepers /\ nelts' = nelts + 1
    BY <1>9 DEF Store, SignalAndReturn, CountInv, TypeOK, NotFullSleepers, NotEmptySleepers,
                IsPush, IsPop
  <2>2. AwakePushers \ {t} \subseteq AwakePushers'
    BY <1>9 DEF Store, SignalAndReturn, CountInv, TypeOK, AwakePushers, NotEmptySleepers,
                IsPush, IsPop
  <2>3. Cardinality(AwakePushers) <= Cardinality(AwakePushers \ {t}) + 1
    BY <1>1, CardinalityRemove
  <2>4. /\ Cardinality(AwakePushers \ {t}) <= Cardinality(AwakePushers')
        /\ Cardinality(AwakePushers \ {t}) \in Nat /\ Cardinality(AwakePushers') \in Nat
    BY <1>1, <2>2, CardinalityMonotone
  <2>5. Cardinality(AwakePushers) \in Nat
    BY <1>1, CardinalityMonotone
  <2>6. QED
    BY <1>1, <2>1, <2>3, <2>4, <2>5
\* A call that returns or is about to: it was not counted on.
<1>10. ASSUME NEW t \in Threads, pc[t] \in {"enter", "woken"},
              pc[t] = "woken" /\ IsPush(t) => wake[t] = "timeup",
              \/ \E status \in {"RETRY", "TIMEUP"} : Decline(t, status)
              \/ Interrupted(t)
       PROVE  NoLostPushWakeup'
  BY <1>2, <1>10 DEF Decline, Answer, Interrupted, ring, CountInv, TypeOK,
                     NotFullSleepers, AwakePushers, IsPush
<1>11. ASSUME NEW t \in Threads, Full, nelts' = nelts PROVE NoLostPushWakeup'
  BY <1>1, <1>11, CardinalityMonotone DEF Full
<1>12. ASSUME NEW t \in Threads, PopEnter(t) PROVE NoLostPushWakeup'
  <2>1. ASSUME Sleep(t) PROVE NoLostPushWakeup'
    BY <1>2, <1>12, <2>1 DEF PopEnter, Sleep, ring, CountInv, TypeOK, NotFullSleepers,
                              AwakePushers, IsPush, IsPop
  <2>2. QED
    BY <1>8, <1>10, <1>12, <2>1 DEF PopEnter
<1>13. ASSUME NEW t \in Threads, PushEnter(t) PROVE NoLostPushWakeup'
  <2>1. ASSUME Full, Sleep(t) \/ Interrupted(t) PROVE NoLostPushWakeup'
    BY <1>11, <2>1 DEF Sleep, Interrupted, ring
  <2>2. QED
    BY <1>9, <1>10, <1>13, <2>1 DEF PushEnter
<1>14. ASSUME NEW t \in Threads, PopWoken(t) PROVE NoLostPushWakeup'
  <2>1. ~IsPush(t)
    BY <1>14 DEF PopWoken, IsPush, IsPop
  <2>2. QED
    BY <1>8, <1>10, <1>14, <2>1 DEF PopWoken
<1>15. ASSUME NEW t \in Threads, PushWoken(t) PROVE NoLostPushWakeup'
  <2>1. ASSUME Full, Interrupted(t) PROVE NoLostPushWakeup'
    BY <1>11, <2>1 DEF Interrupted, ring
  <2>2. QED
    BY <1>9, <1>10, <1>15, <2>1 DEF PushWoken
<1>16. CASE UNCHANGED vars
  BY <1>16, <1>2 DEF vars, NotFullSleepers, AwakePushers, IsPush
<1>17. QED
  BY <1>3, <1>4, <1>5, <1>6, <1>7, <1>12, <1>13, <1>14, <1>15, <1>16 DEF Next, Step

\* While a pusher sleeps, every free slot has a pusher on its way to it.
THEOREM NoPusherIsForgotten == Spec => []NoLostPushWakeup
<1>1. Init => NoLostPushWakeup
  BY DEF Init, NoLostPushWakeup, NotFullSleepers
<1>2. CountInv /\ NoLostPushWakeup /\ [Next]_vars => NoLostPushWakeup'
  BY PushWakeupStep
<1>3. QED
  BY <1>1, <1>2, CountInvariant, PTL DEF Spec

\* Sleeping pushers want a full queue and sleeping poppers an empty one, and
\* a queue of at least one slot cannot be both: pushers and poppers never
\* all wait for each other.
THEOREM NobodyWaitsForEachOther == Spec => []NoMutualSleep
<1>1. CountInv /\ NoLostPopWakeup /\ NoLostPushWakeup => NoMutualSleep
  <2> SUFFICES ASSUME CountInv, NoLostPopWakeup, NoLostPushWakeup,
                      NotFullSleepers # {}, NotEmptySleepers # {},
                      AwakePushers = {}, AwakePoppers = {}
               PROVE  FALSE
    BY DEF NoMutualSleep
  <2>1. nelts <= 0 /\ Capacity - nelts <= 0
    BY FS_EmptySet DEF NoLostPopWakeup, NoLostPushWakeup
  <2>2. QED
    BY <2>1, QueueAssumption DEF CountInv, TypeOK
<1>2. QED
  BY <1>1, CountInvariant, NoPopperIsForgotten, NoPusherIsForgotten, PTL

\* The ring's fields are sound and the waiter counts exact.
THEOREM QueueIsSound == Spec => []QueueSound
<1>1. TypeOK /\ WaitersCounted => QueueSound
  BY DEF QueueSound
<1>2. QED
  BY <1>1, TypeCorrect, WaitersAreCounted, PTL

\* No wake-up is lost, on either side.
THEOREM NoWakeupIsLost == Spec => []NoLostWakeup
<1>1. NoLostPopWakeup /\ NoLostPushWakeup /\ NoMutualSleep => NoLostWakeup
  BY DEF NoLostWakeup
<1>2. QED
  BY <1>1, NoPopperIsForgotten, NoPusherIsForgotten, NobodyWaitsForEachOther, PTL

-----------------------------------------------------------------------------
(* The refinement of BoundedFifo                                           *)

\* `in' is the slot after the newest item.
RingInv == in = IF out + nelts >= Capacity THEN out + nelts - Capacity ELSE out + nelts

\* Only a blocking call waits, and only a timed one times out.
BlockInv == \A t \in Threads :
  /\ pc[t] \in {"wait", "woken", "intr"} => call[t].timeout # "try"
  /\ pc[t] = "woken" /\ wake[t] = "timeup" => call[t].timeout = "timed"

FifoInv == CountInv /\ RingInv /\ BlockInv

Items == Data \cup {NoItem}

\* The array of the queue is a ring in the sense of ProofLemmas.
LEMMA DataIsRing == TypeOK => IsRing(Capacity, Items, data)
BY QueueAssumption DEF TypeOK, IsRing, Items

\* The items in the queue, in order, are a window of that ring.
LEMMA ContentsIsWindow ==
  /\ Contents = RingWindow(Capacity, data, nelts, out)
  /\ Contents' = RingWindow(Capacity, data', nelts', out')
BY DEF Contents, RingWindow, Slot, SlotFrom

\* The abstract steps, in terms of the queue's own state.
LEMMA StoreIsEnqueue ==
  ASSUME FifoInv, NEW t \in Threads, pc[t] \in {"enter", "woken"}, IsPush(t), ~Full, Store(t),
         terminated' = terminated
  PROVE  RingInv' /\ Fifo!Enqueue(t)
<1> USE DEF FifoInv, CountInv, TypeOK
<1>1. call[t].item \in Items
  BY CallFields DEF IsPush, Items
<1>2. in = SlotFrom(Capacity, out, nelts + 1) /\ nelts \in 0 .. Capacity - 1
  BY QueueAssumption DEF RingInv, SlotFrom, Full
<1>3. data \in [0 .. Capacity - 1 -> Items] /\ out \in 0 .. Capacity - 1
  BY DEF Items
<1>4. Contents' = Append(Contents, call[t].item)
  <2>1. /\ nelts' = nelts + 1 /\ out' = out
        /\ in = SlotFrom(Capacity, out, nelts')
        /\ IsRing(Capacity, Items, data) /\ IsRing(Capacity, Items, data')
        /\ data'[in] = call[t].item
        /\ \A i \in 0 .. Capacity - 1 : i # SlotFrom(Capacity, out, nelts') => data'[i] = data[i]
    BY <1>1, <1>2, DataIsRing DEF Store, IsRing
  <2> HIDE DEF FifoInv, CountInv, TypeOK
  <2>2. ASSUME NEW d, NEW e, NEW n, NEW m, NEW o,
               d = data, e = data', n = nelts, m = nelts', o = out
        PROVE  RingWindow(Capacity, e, m, o)
                 = Append(RingWindow(Capacity, d, n, o), e[SlotFrom(Capacity, o, m)])
    <3>1. /\ IsRing(Capacity, Items, d) /\ IsRing(Capacity, Items, e)
          /\ n \in 0 .. Capacity - 1 /\ m = n + 1 /\ o \in 0 .. Capacity - 1
          /\ \A i \in 0 .. Capacity - 1 : i # SlotFrom(Capacity, o, m) => e[i] = d[i]
      BY <1>2, <1>3, <2>1, <2>2
    <3>2. QED
      BY <3>1, WindowAppend
  <2>3. QED
    BY <2>1, <2>2, ContentsIsWindow
<1>5. Len(Contents) = nelts
  BY <1>3, WindowSeq, DataIsRing, ContentsIsWindow
<1>6. RingInv'
  BY QueueAssumption DEF RingInv, Store, Full, Advance
<1>7. Fifo!Answer(t, "OK", NoItem)
  BY DEF Store, SignalAndReturn, Fifo!Answer
<1>8. Len(Contents) < Capacity
  BY <1>2, <1>5, QueueAssumption
<1>9. QED
  BY <1>4, <1>6, <1>7, <1>8 DEF Fifo!Enqueue, IsPush

\* A pop that finds an item takes the oldest.
LEMMA LoadIsDequeue ==
  ASSUME FifoInv, NEW t \in Threads, pc[t] \in {"enter", "woken"}, IsPop(t), ~Empty, Load(t),
         terminated' = terminated
  PROVE  RingInv' /\ Fifo!Dequeue(t)
<1> USE DEF FifoInv, CountInv, TypeOK
<1>1. nelts \in 1 .. Capacity
  BY QueueAssumption DEF Empty
<1>2. data \in [0 .. Capacity - 1 -> Items] /\ out \in 0 .. Capacity - 1
  BY DEF Items
<1>3. Contents # << >> /\ Head(Contents) = data[out] /\ Contents' = Tail(Contents)
  <2>1. /\ RingWindow(Capacity, data, nelts, out) # << >>
        /\ Head(RingWindow(Capacity, data, nelts, out)) = data[out]
        /\ RingWindow(Capacity, data, nelts - 1, SlotAfter(Capacity, out))
             = Tail(RingWindow(Capacity, data, nelts, out))
    BY <1>1, <1>2, WindowTail, DataIsRing
  <2>2. data' = data /\ nelts' = nelts - 1 /\ out' = SlotAfter(Capacity, out)
    BY DEF Load, Advance, SlotAfter
  <2>3. QED
    BY <2>1, <2>2, ContentsIsWindow
<1>4. RingInv'
  BY <1>1, QueueAssumption DEF RingInv, Load, Advance
<1>5. Fifo!Answer(t, "OK", data[out])
  BY DEF Load, SignalAndReturn, Fifo!Answer
<1>6. QED
  BY <1>3, <1>4, <1>5 DEF Fifo!Dequeue, IsPop

\* While the ring stays, so do its contents.
LEMMA RingUnchanged ==
  ASSUME RingInv, UNCHANGED ring
  PROVE  RingInv' /\ Contents' = Contents
BY DEF RingInv, ring, Contents, Slot

\* A push is stuck when the queue is full, a pop when it is empty.
LEMMA StuckIsFullOrEmpty ==
  ASSUME TypeOK
  PROVE  (Full => Fifo!Stuck("push")) /\ (Empty => Fifo!Stuck("pop"))
<1>1. Len(Contents) = nelts /\ Contents \in Seq(Items)
  BY WindowSeq, DataIsRing, ContentsIsWindow DEF TypeOK, Items
<1>2. Empty => Contents = << >>
  BY <1>1, EmptySeq DEF Empty
<1>3. QED
  BY <1>1, <1>2 DEF Full, Fifo!Stuck

\* A step that touches neither the ring nor the calls in progress.
LEMMA InternalStep ==
  ASSUME RingInv, UNCHANGED <<ring, terminated, call, ret>>
  PROVE  RingInv' /\ UNCHANGED Fifo!vars
BY RingUnchanged DEF Fifo!vars

\* Every step of the queue is a step of the abstract one, or none.
LEMMA RefinementStep ==
  ASSUME FifoInv, [Next]_vars
  PROVE  RingInv' /\ [Fifo!Next]_(Fifo!vars)
<1> USE DEF FifoInv, CountInv
<1>1. ASSUME NEW t \in Threads, Invoke(t) PROVE RingInv' /\ Fifo!Invoke(t)
  BY <1>1, RingUnchanged DEF Invoke, Fifo!Invoke, CallsInPlace, NoRet, Calls, PushCalls,
                            PopCalls, Timeouts, Fifo!Calls, Fifo!Timeouts
<1>2. ASSUME NEW t \in Threads, InterruptAllCall(t) PROVE RingInv' /\ UNCHANGED Fifo!vars
  BY <1>2, InternalStep DEF InterruptAllCall
<1>3. ASSUME NEW t \in Threads, Term(t) PROVE RingInv' /\ Fifo!Terminate
  BY <1>3, RingUnchanged DEF Term, Fifo!Terminate
<1>4. ASSUME NEW t \in Threads, Check(t)
      PROVE  RingInv' /\ (Fifo!Decline(t) \/ UNCHANGED Fifo!vars)
  <2>1. CASE terminated /\ Decline(t, "DONE")
    BY <1>4, <2>1, RingUnchanged DEF Check, Decline, Answer, Fifo!Decline, Fifo!Answer, CallsInPlace
  <2>2. CASE UNCHANGED <<ring, call, wake, ret>>
    BY <1>4, <2>2, InternalStep DEF Check
  <2>3. QED
    BY <1>4, <2>1, <2>2 DEF Check
<1>5. ASSUME NEW t \in Threads, PushEnter(t)
      PROVE  RingInv' /\ (Fifo!Enqueue(t) \/ Fifo!Decline(t) \/ UNCHANGED Fifo!vars)
  <2>1. CASE ~Full /\ Store(t)
    BY <1>5, <2>1, StoreIsEnqueue DEF PushEnter
  <2>2. CASE Full /\ call[t].timeout = "try" /\ Decline(t, "RETRY")
    BY <1>5, <2>2, RingUnchanged, StuckIsFullOrEmpty DEF PushEnter, Decline, Answer,
         Fifo!Decline, Fifo!Answer, IsPush
  <2>3. CASE Sleep(t) \/ Interrupted(t)
    BY <1>5, <2>3, InternalStep DEF PushEnter, Sleep, Interrupted
  <2>4. QED
    BY <1>5, <2>1, <2>2, <2>3 DEF PushEnter
<1>6. ASSUME NEW t \in Threads, PopEnter(t)
      PROVE  RingInv' /\ (Fifo!Dequeue(t) \/ Fifo!Decline(t) \/ UNCHANGED Fifo!vars)
  <2>1. CASE ~Empty /\ Load(t)
    BY <1>6, <2>1, LoadIsDequeue DEF PopEnter
  <2>2. CASE Empty /\ call[t].timeout = "try" /\ Decline(t, "RETRY")
    BY <1>6, <2>2, RingUnchanged, StuckIsFullOrEmpty DEF PopEnter, Decline, Answer,
         Fifo!Decline, Fifo!Answer, IsPop
  <2>3. CASE Sleep(t) \/ Interrupted(t)
    BY <1>6, <2>3, InternalStep DEF PopEnter, Sleep, Interrupted
  <2>4. QED
    BY <1>6, <2>1, <2>2, <2>3 DEF PopEnter
<1>7. ASSUME NEW t \in Threads, PushWoken(t)
      PROVE  RingInv' /\ (Fifo!Enqueue(t) \/ Fifo!Decline(t) \/ UNCHANGED Fifo!vars)
  <2>1. CASE ~Full /\ Store(t)
    BY <1>7, <2>1, StoreIsEnqueue DEF PushWoken
  <2>2. CASE wake[t] = "timeup" /\ Decline(t, "TIMEUP")
    BY <1>7, <2>2, RingUnchanged DEF PushWoken, Decline, Answer, BlockInv,
         Fifo!Decline, Fifo!Answer, IsPush
  <2>3. CASE Interrupted(t)
    BY <1>7, <2>3, InternalStep DEF PushWoken, Interrupted
  <2>4. QED
    BY <1>7, <2>1, <2>2, <2>3 DEF PushWoken
<1>8. ASSUME NEW t \in Threads, PopWoken(t)
      PROVE  RingInv' /\ (Fifo!Dequeue(t) \/ Fifo!Decline(t) \/ UNCHANGED Fifo!vars)
  <2>1. CASE ~Empty /\ Load(t)
    BY <1>8, <2>1, LoadIsDequeue DEF PopWoken
  <2>2. CASE wake[t] = "timeup" /\ Decline(t, "TIMEUP")
    BY <1>8, <2>2, RingUnchanged DEF PopWoken, Decline, Answer, BlockInv,
         Fifo!Decline, Fifo!Answer, IsPop
  <2>3. CASE Interrupted(t)
    BY <1>8, <2>3, InternalStep DEF PopWoken, Interrupted
  <2>4. QED
    BY <1>8, <2>1, <2>2, <2>3 DEF PopWoken
<1>9. ASSUME NEW t \in Threads, AnswerInterrupted(t) PROVE RingInv' /\ Fifo!Decline(t)
  BY <1>9, RingUnchanged DEF AnswerInterrupted, Decline, Answer, BlockInv, CallsInPlace,
       Fifo!Decline, Fifo!Answer
<1>10. ASSUME NEW t \in Threads, InterruptAll(t) PROVE RingInv' /\ UNCHANGED Fifo!vars
  BY <1>10, InternalStep DEF InterruptAll
<1>11. ASSUME NEW t \in Threads, Timeout(t) \/ SpuriousWakeup(t)
       PROVE  RingInv' /\ UNCHANGED Fifo!vars
  BY <1>11, InternalStep DEF Timeout, SpuriousWakeup, WakeUp
<1>12. CASE UNCHANGED vars
  BY <1>12, InternalStep DEF vars, ring
<1>13. QED
  BY <1>1, <1>2, <1>3, <1>4, <1>5, <1>6, <1>7, <1>8, <1>9, <1>10, <1>11, <1>12
     DEF Next, Step, Fifo!Next

\* Who waits made a call that may block, after every step.
LEMMA BlockStep ==
  ASSUME CountInv, BlockInv, [Next]_vars
  PROVE  BlockInv'
<1> USE DEF CountInv, TypeOK, BlockInv
<1>1. ASSUME NEW t \in Threads, Invoke(t) PROVE BlockInv'
  BY <1>1 DEF Invoke
<1>2. ASSUME NEW t \in Threads, InterruptAllCall(t) \/ Term(t) PROVE BlockInv'
  BY <1>2 DEF InterruptAllCall, Term
<1>3. ASSUME NEW t \in Threads, Check(t) \/ AnswerInterrupted(t) PROVE BlockInv'
  BY <1>3 DEF Check, AnswerInterrupted, Decline, Answer
<1>4. ASSUME NEW t \in Threads, PushEnter(t) PROVE BlockInv'
  BY <1>4 DEF PushEnter, Store, SignalAndReturn, Decline, Answer, Sleep, Interrupted,
              NotEmptySleepers
<1>5. ASSUME NEW t \in Threads, PopEnter(t) PROVE BlockInv'
  BY <1>5 DEF PopEnter, Load, SignalAndReturn, Decline, Answer, Sleep, Interrupted,
              NotFullSleepers
<1>6. ASSUME NEW t \in Threads, PushWoken(t) PROVE BlockInv'
  BY <1>6 DEF PushWoken, Store, SignalAndReturn, Decline, Answer, Interrupted,
              NotEmptySleepers
<1>7. ASSUME NEW t \in Threads, PopWoken(t) PROVE BlockInv'
  BY <1>7 DEF PopWoken, Load, SignalAndReturn, Decline, Answer, Interrupted,
              NotFullSleepers
<1>8. ASSUME NEW t \in Threads, InterruptAll(t) PROVE BlockInv'
  BY <1>8 DEF InterruptAll
<1>9. ASSUME NEW t \in Threads, Timeout(t) \/ SpuriousWakeup(t) PROVE BlockInv'
  BY <1>9 DEF Timeout, SpuriousWakeup, WakeUp
<1>10. CASE UNCHANGED vars
  BY <1>10 DEF vars
<1>11. QED
  BY <1>1, <1>2, <1>3, <1>4, <1>5, <1>6, <1>7, <1>8, <1>9, <1>10 DEF Next, Step

\* The two start alike.
LEMMA InitRefinement == Init => FifoInv /\ Fifo!Init
<1> SUFFICES ASSUME Init PROVE FifoInv /\ Fifo!Init
  OBVIOUS
<1>1. RingInv /\ BlockInv
  BY QueueAssumption DEF Init, RingInv, BlockInv
<1>2. CountInv
  BY InitCount
<1>3. Contents = << >>
  BY <1>2, WindowSeq, DataIsRing, ContentsIsWindow, EmptySeq DEF Init, CountInv, TypeOK, Items
<1>4. QED
  BY <1>1, <1>2, <1>3 DEF FifoInv, Fifo!Init, Init, NoRet

\* The ring buffer with its waiting threads implements the bounded FIFO: each
\* call takes effect at one instant, nothing is lost, duplicated, reordered
\* or overwritten, and every refusal has the reason it states.
THEOREM QueueImplementsFifo == Spec => ImplementsFifo
<1>1. FifoInv /\ [Next]_vars => FifoInv' /\ [Fifo!Next]_(Fifo!vars)
  BY NextCount, RefinementStep, BlockStep DEF FifoInv
<1>2. QED
  BY <1>1, InitRefinement, PTL DEF Spec, Fifo!Spec, ImplementsFifo
=============================================================================
