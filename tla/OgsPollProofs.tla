---------------------------- MODULE OgsPollProofs ----------------------------
(***************************************************************************)
(* Theorems about src/core/ogs-poll.c with its epoll and select backends   *)
(* (OgsPoll) and with kqueue (OgsKqueue), for any number of descriptors    *)
(* and polls.                                                              *)
(***************************************************************************)
EXTENDS OgsPoll, OgsKqueue, ProofLemmas

-----------------------------------------------------------------------------
(* epoll and select                                                        *)

\* With epoll a descriptor has one poll, and the kernel's pointers are those of
\* polls in use.
OnePollEach ==
  /\ Epoll => \A p, q \in Used : rec[p].fd = rec[q].fd => p = q
  /\ \A fd \in Fds : ptr[fd] # NULL => Epoll /\ ptr[fd] \in Used /\ rec[ptr[fd]].fd = fd

\* What is left of epoll's answer is about polls in use, and about another
\* one than the handler's.
EpollBatch ==
  /\ \A i \in 1 .. Len(batch) : batch[i].poll \in Used /\ rec[batch[i].poll].asked \in batch[i].when
  /\ \A i, j \in 1 .. Len(batch) : batch[i].poll = batch[j].poll => i = j
  /\ pc = "handler" => \A i \in 1 .. Len(batch) : batch[i].poll # call.poll

\* When select's answer is about the descriptor of a poll, then about what the
\* poll asked for, or the descriptor was asked about for others too.  The walk's place is a poll in use, or one whose link leads to one.
SelectBatch ==
  /\ \A p \in Used : \A d \in Directions :
       <<rec[p].fd, d>> \in batch => <<rec[p].fd, rec[p].asked>> \in batch \/ Shared(p)
  /\ pc = "walk" => cursor \in Used \cup {NULL}
  /\ pc = "handler" => /\ cursor = call.poll
                       /\ cursor \notin Used => link[cursor] \in Used \cup {NULL}

\* Before a handler meddles, the walk is about polls in use.
WalkIsCurrent == ~meddled /\ pc \in {"walk", "handler"} => IF Epoll THEN EpollBatch ELSE SelectBatch

\* The fields of the walk keep their types.
WalkTypes ==
  /\ IF Epoll THEN batch \in Seq([poll : Polls, when : SUBSET Directions]) /\ list = << >>
     ELSE batch \subseteq Fds \X Directions
  /\ Epoll => late = {}
  /\ pc = "handler" /\ Select => cursor \in Polls

\* The inductive invariant.
PollInv == TypeOK /\ PollsAreRegistered /\ OnePollEach /\ WalkTypes /\ WalkIsCurrent

-----------------------------------------------------------------------------
(* The invariant in parts, and the pool of records                         *)

\* What the steps below use of the invariant.
LEMMA InvSays ==
  ASSUME PollInv
  PROVE  /\ backend \in {"epoll", "select"} /\ Epoll = ~Select
         /\ free \in Seq(Polls \ {NotifyPoll}) /\ IsInjective(free)
         /\ Used \subseteq Polls /\ NotifyPoll \in Used
         /\ rec \in [Polls -> PollRecords \cup {NULL}]
         /\ \A p \in Used : rec[p].fd \in Fds /\ rec[p].asked \in Directions
         /\ ptr \in [Fds -> Polls \cup {NULL}] /\ link \in [Polls -> Polls \cup {NULL}]
         /\ \A fd \in Fds : fd \in Nat
<1>1. /\ backend \in {"epoll", "select"}
      /\ free \in Seq(Polls \ {NotifyPoll}) /\ IsInjective(free)
      /\ rec \in [Polls -> PollRecords \cup {NULL}] /\ \A p \in Used : rec[p] \in PollRecords
      /\ ptr \in [Fds -> Polls \cup {NULL}] /\ link \in [Polls -> Polls \cup {NULL}]
  BY PollAssumption DEF PollInv, TypeOK
<1>2. Epoll = ~Select
  BY <1>1 DEF Epoll, Select
<1>3. Used \subseteq Polls /\ NotifyPoll \in Used
  <2>1. DOMAIN free = 1 .. Len(free) /\ \A i \in 1 .. Len(free) : free[i] \in Polls \ {NotifyPoll}
    BY <1>1, LenProperties, ElementOfSeq
  <2>2. QED
    BY <2>1, PollAssumption DEF Used, ToSet
<1>4. \A p \in Used : rec[p].fd \in Fds /\ rec[p].asked \in Directions
  BY <1>1 DEF PollRecords
<1>5. \A fd \in Fds : fd \in Nat
  BY PollAssumption
<1>6. QED
  BY <1>1, <1>2, <1>3, <1>4, <1>5

\* ogs_pool_alloc: the first free record comes into use.
LEMMA RecordTaken ==
  ASSUME PollInv, free # << >>, free' = Tail(free)
  PROVE  /\ free' \in Seq(Polls \ {NotifyPoll}) /\ IsInjective(free')
         /\ Head(free) \in Polls /\ Head(free) \notin Used
         /\ Used' = Used \cup {Head(free)}
<1>1. free \in Seq(Polls \ {NotifyPoll}) /\ IsInjective(free)
  BY InvSays
<1>2. /\ Tail(free) \in Seq(Polls \ {NotifyPoll}) /\ IsInjective(Tail(free))
      /\ Head(free) \in Polls \ {NotifyPoll} /\ Head(free) \in ToSet(free)
      /\ ToSet(Tail(free)) = ToSet(free) \ {Head(free)}
  BY <1>1, InjectiveTail
<1>3. QED
  BY <1>2 DEF Used

\* ogs_pool_free of a record in use.
LEMMA RecordReleased ==
  ASSUME PollInv, NEW p \in Used \ {NotifyPoll}, free' = Append(free, p)
  PROVE  /\ free' \in Seq(Polls \ {NotifyPoll}) /\ IsInjective(free')
         /\ Used' = Used \ {p}
<1>1. /\ free \in Seq(Polls \ {NotifyPoll}) /\ IsInjective(free)
      /\ p \in Polls \ {NotifyPoll} /\ p \notin ToSet(free)
  BY InvSays DEF Used
<1>2. /\ Append(free, p) \in Seq(Polls \ {NotifyPoll}) /\ IsInjective(Append(free, p))
      /\ ToSet(Append(free, p)) = ToSet(free) \cup {p}
  BY <1>1, InjectiveAppend
<1>3. QED
  BY <1>2 DEF Used

\* A record that is taken and put back at once.
LEMMA RecordReturned ==
  ASSUME PollInv, free # << >>, free' = Append(Tail(free), Head(free))
  PROVE  /\ free' \in Seq(Polls \ {NotifyPoll}) /\ IsInjective(free')
         /\ Head(free) \in Polls /\ Head(free) \notin Used
         /\ Used' = Used
<1> DEFINE t == Tail(free)
           h == Head(free)
<1>1. free \in Seq(Polls \ {NotifyPoll}) /\ IsInjective(free)
  BY InvSays
<1>2. /\ t \in Seq(Polls \ {NotifyPoll}) /\ IsInjective(t)
      /\ h \in Polls \ {NotifyPoll} /\ h \in ToSet(free)
      /\ ToSet(t) = ToSet(free) \ {h}
  BY <1>1, InjectiveTail
<1> HIDE DEF t, h
<1>3. /\ Append(t, h) \in Seq(Polls \ {NotifyPoll}) /\ IsInjective(Append(t, h))
      /\ ToSet(Append(t, h)) = ToSet(t) \cup {h}
  BY <1>2, InjectiveAppend
<1>4. free' = Append(t, h)
  BY DEF t, h
<1>5. QED
  BY <1>2, <1>3, <1>4 DEF Used, h

-----------------------------------------------------------------------------
(* ogs_pollset_add                                                         *)

\* epoll takes a descriptor it does not watch yet.
LEMMA EpollAddKeepsInv ==
  ASSUME PollInv, Epoll, free # << >>, NEW fd \in Fds, NEW d \in Directions, ptr[fd] = NULL,
         Filled(Head(free), fd, d), watch' = watch \cup {<<fd, d>>},
         ptr' = [ptr EXCEPT ![fd] = Head(free)], free' = Tail(free),
         UNCHANGED <<list, max_fd, history, link, backend, bytes, pc, walk, state>>
  PROVE  PollInv'
<1> DEFINE p == Head(free)
<1>1. /\ free' \in Seq(Polls \ {NotifyPoll}) /\ IsInjective(free')
      /\ p \in Polls /\ p \notin Used /\ Used' = Used \cup {p}
  BY RecordTaken
<1>2. rec' = [rec EXCEPT ![p] = [fd |-> fd, asked |-> d]] /\ ptr' = [ptr EXCEPT ![fd] = p]
  BY DEF Filled
<1> HIDE DEF p
<1>3. /\ rec' \in [Polls -> PollRecords \cup {NULL}]
      /\ rec'[p].fd = fd /\ rec'[p].asked = d /\ rec'[p] \in PollRecords
      /\ \A q \in Used : rec'[q] = rec[q] /\ q \in Polls
  BY <1>1, <1>2, InvSays DEF PollRecords
<1>4. /\ ptr' \in [Fds -> Polls \cup {NULL}] /\ ptr'[fd] = p
      /\ \A g \in Fds \ {fd} : ptr'[g] = ptr[g]
  BY <1>1, <1>2, InvSays
<1>5. \A q \in Used : rec[q].fd # fd
  <2>1. \A q \in Used : ptr[rec[q].fd] = q /\ q # NULL
    BY InvSays, PollAssumption DEF PollInv, PollsAreRegistered
  <2>2. QED
    BY <2>1
<1>6. TypeOK'
  BY <1>1, <1>3, <1>4 DEF PollInv, TypeOK, walk, history
<1>7. PollsAreRegistered'
  <2> cut = {} /\ cut' = {}
    BY InvSays DEF PollInv, PollsAreRegistered, history
  <2>1. watch' = {<<rec'[q].fd, rec'[q].asked>> : q \in Used' \ cut'}
    BY <1>1, <1>3 DEF PollInv, PollsAreRegistered
  <2>2. \A q \in Used' : ptr'[rec'[q].fd] = q
    BY <1>1, <1>3, <1>4, <1>5, InvSays DEF PollInv, PollsAreRegistered
  <2>3. Epoll' /\ ~Select'
    BY InvSays DEF Epoll, Select
  <2>4. QED
    BY <2>1, <2>2, <2>3 DEF PollsAreRegistered
<1>8. OnePollEach'
  BY <1>1, <1>3, <1>4, <1>5, InvSays DEF PollInv, OnePollEach, Epoll
<1>9. WalkTypes'
  BY InvSays DEF PollInv, WalkTypes, walk, history, Epoll, Select
<1>10. WalkIsCurrent'
  <2>1. Epoll'
    BY DEF Epoll
  <2>2. WalkIsCurrent => (~meddled /\ pc \in {"walk", "handler"} => EpollBatch')
    BY <1>1, <1>3 DEF WalkIsCurrent, EpollBatch, walk, history
  <2>3. QED
    BY <2>1, <2>2 DEF PollInv, WalkIsCurrent, history
<1>11. QED
  BY <1>6, <1>7, <1>8, <1>9, <1>10 DEF PollInv

\* epoll refuses a descriptor it has: the record goes back, maybe filled.
LEMMA EpollRefusalKeepsInv ==
  ASSUME PollInv, Epoll, free # << >>, NEW fd \in Fds, NEW d \in Directions,
         UNCHANGED rec \/ Filled(Head(free), fd, d),
         free' = Append(Tail(free), Head(free)),
         UNCHANGED <<watch, ptr, list, max_fd, history, link, backend, bytes, pc, walk, state>>
  PROVE  PollInv'
<1> DEFINE p == Head(free)
<1>1. /\ free' \in Seq(Polls \ {NotifyPoll}) /\ IsInjective(free')
      /\ p \in Polls /\ p \notin Used /\ Used' = Used
  BY RecordReturned
<1>2. UNCHANGED rec \/ rec' = [rec EXCEPT ![p] = [fd |-> fd, asked |-> d]]
  BY DEF Filled
<1> HIDE DEF p
<1>3. /\ rec' \in [Polls -> PollRecords \cup {NULL}]
      /\ \A q \in Used : rec'[q] = rec[q]
  <2>1. CASE UNCHANGED rec
    BY <2>1, InvSays
  <2>2. CASE rec' = [rec EXCEPT ![p] = [fd |-> fd, asked |-> d]]
    <3>1. [fd |-> fd, asked |-> d] \in PollRecords
      BY DEF PollRecords
    <3>2. QED
      BY <1>1, <2>2, <3>1, InvSays
  <2>3. QED
    BY <1>2, <2>1, <2>2
<1>4. TypeOK'
  BY <1>1, <1>3 DEF PollInv, TypeOK, walk, history
<1>5. PollsAreRegistered'
  <2> UNCHANGED cut
    BY DEF history
  <2>1. QED
    BY <1>1, <1>3 DEF PollInv, PollsAreRegistered, Epoll, Select
<1>6. OnePollEach'
  BY <1>1, <1>3 DEF PollInv, OnePollEach, Epoll
<1>7. WalkTypes'
  BY DEF PollInv, WalkTypes, walk, history, Epoll, Select
<1>8. WalkIsCurrent'
  <2>1. Epoll'
    BY DEF Epoll
  <2>2. WalkIsCurrent => (~meddled /\ pc \in {"walk", "handler"} => EpollBatch')
    BY <1>1, <1>3 DEF WalkIsCurrent, EpollBatch, walk, history
  <2>3. QED
    BY <2>1, <2>2 DEF PollInv, WalkIsCurrent, history
<1>9. QED
  BY <1>4, <1>5, <1>6, <1>7, <1>8 DEF PollInv

\* select takes any descriptor.
LEMMA SelectAddKeepsInv ==
  ASSUME PollInv, Select, free # << >>, NEW fd \in Fds, NEW d \in Directions,
         pc \in {"app", "handler"},
         SelectAdd(Head(free), fd, d),
         UNCHANGED <<ptr, link, backend, bytes, pc, walk, state>>
  PROVE  PollInv'
<1> DEFINE p == Head(free)
<1>1. /\ free' \in Seq(Polls \ {NotifyPoll}) /\ IsInjective(free')
      /\ p \in Polls /\ p \notin Used /\ Used' = Used \cup {p}
  BY RecordTaken DEF SelectAdd
<1>2. /\ rec' = [rec EXCEPT ![p] = [fd |-> fd, asked |-> d]]
      /\ watch' = watch \cup {<<fd, d>>} /\ list' = Append(list, p)
      /\ max_fd' = IF fd > max_fd THEN fd ELSE max_fd
      /\ cut' = {q \in cut : rec[q] # [fd |-> fd, asked |-> d]}
      /\ late' = (IF pc = "handler" THEN late \cup {p} ELSE late)
      /\ UNCHANGED meddled
  BY DEF SelectAdd, Filled
<1> HIDE DEF p
<1>3. /\ rec' \in [Polls -> PollRecords \cup {NULL}]
      /\ rec'[p].fd = fd /\ rec'[p].asked = d /\ rec'[p] \in PollRecords
      /\ \A q \in Used : rec'[q] = rec[q] /\ q \in Polls
  BY <1>1, <1>2, InvSays DEF PollRecords
<1>4. /\ cut \subseteq Used /\ late \subseteq Used
      /\ \A q \in Used : rec[q] = [fd |-> rec[q].fd, asked |-> rec[q].asked]
  BY DEF PollInv, TypeOK, PollRecords
<1>5. Select' /\ ~Epoll' /\ ~Epoll
  BY InvSays DEF Epoll, Select
<1>6. /\ list \in Seq(Polls) /\ IsInjective(list) /\ ToSet(list) = Used
      /\ max_fd = -1 \/ \E q \in Used : rec[q].fd = max_fd
  BY DEF PollInv, PollsAreRegistered, TypeOK
<1>7. list' \in Seq(Polls) /\ IsInjective(list') /\ ToSet(list') = Used \cup {p}
  BY <1>1, <1>2, <1>6, InjectiveAppend
<1>8. /\ max_fd' \in Fds \cup {-1} /\ meddled' \in BOOLEAN
      /\ cut' \subseteq Used' /\ late' \subseteq Used'
  <2>1. max_fd' \in Fds \cup {-1} /\ meddled' \in BOOLEAN
    BY <1>2 DEF PollInv, TypeOK
  <2>2. cut' \subseteq Used' /\ late' \subseteq Used'
    BY <1>1, <1>2, <1>4
  <2>3. QED
    BY <2>1, <2>2
<1>9. TypeOK'
  <2>1. /\ backend' \in Backends /\ bytes' \in 0 .. MaxBytes
        /\ state' \in [Sockets -> SUBSET (Directions \cup {"hup"})]
        /\ ptr' \in [Fds -> Polls \cup {NULL}] /\ link' \in [Polls -> Polls \cup {NULL}]
        /\ cursor' \in Polls \cup {NULL} /\ pc' \in {"app", "wait", "walk", "handler"}
    BY DEF PollInv, TypeOK, walk
  <2>2. \A q \in Used' : rec'[q] \in PollRecords
    BY <1>1, <1>3 DEF PollInv, TypeOK
  <2>3. watch' \subseteq Fds \X Directions
    BY <1>2 DEF PollInv, TypeOK
  <2>4. QED
    BY <1>1, <1>3, <1>7, <1>8, <2>1, <2>2, <2>3 DEF TypeOK
<1>10. PollsAreRegistered'
  <2>1. watch' = {<<rec'[q].fd, rec'[q].asked>> : q \in Used' \ cut'}
    <3> DEFINE pairs == {<<rec[q].fd, rec[q].asked>> : q \in Used \ cut}
    <3>1. watch = pairs
      BY DEF PollInv, PollsAreRegistered
    <3>2. watch' \subseteq {<<rec'[q].fd, rec'[q].asked>> : q \in Used' \ cut'}
      <4>1. p \in Used' \ cut' /\ <<fd, d>> = <<rec'[p].fd, rec'[p].asked>>
        BY <1>1, <1>2, <1>3, <1>4
      <4>2. \A q \in Used \ cut : q \in Used' \ cut' /\ rec'[q] = rec[q]
        BY <1>1, <1>2, <1>3
      <4>3. pairs \subseteq {<<rec'[q].fd, rec'[q].asked>> : q \in Used' \ cut'}
        BY <4>2
      <4>4. QED
        BY <1>2, <3>1, <4>1, <4>3
    <3>3. ASSUME NEW q \in Used' \ cut' PROVE <<rec'[q].fd, rec'[q].asked>> \in watch'
      <4>1. CASE q = p
        BY <1>2, <1>3, <4>1
      <4>2. CASE q \in Used \ cut
        BY <1>2, <1>3, <3>1, <4>2
      <4>3. CASE q \in cut
        <5>1. rec[q] = [fd |-> fd, asked |-> d] /\ rec'[q] = rec[q]
          BY <1>2, <1>3, <1>4, <3>3, <4>3
        <5>2. QED
          BY <1>2, <5>1
      <4>4. QED
        BY <1>1, <3>3, <4>1, <4>2, <4>3
    <3>4. QED
      BY <3>2, <3>3
  <2>2. max_fd' = -1 \/ \E q \in Used' : rec'[q].fd = max_fd'
    <3>1. CASE max_fd' = fd
      BY <1>1, <1>3, <3>1
    <3>2. CASE max_fd' = max_fd
      BY <1>1, <1>3, <1>6, <3>2
    <3>3. QED
      BY <1>2, <3>1, <3>2
  <2>3. QED
    BY <1>1, <1>5, <1>7, <2>1, <2>2 DEF PollsAreRegistered
<1>11. OnePollEach'
  BY <1>1, <1>5, InvSays DEF PollInv, OnePollEach
<1>12. WalkTypes'
  BY <1>5 DEF PollInv, WalkTypes, walk
<1>13. WalkIsCurrent'
  <2>1. ASSUME ~meddled', pc \in {"walk", "handler"} PROVE SelectBatch'
    <3>1. ~meddled /\ SelectBatch /\ pc = "handler"
      BY <1>2, <1>5, <2>1 DEF PollInv, WalkIsCurrent
    <3>2. p \in late'
      BY <1>2, <3>1
    <3>3. ASSUME NEW q \in Used, Shared(q) PROVE Shared(q)'
      <4>1. CASE q \in late
        BY <1>2, <1>5, <4>1 DEF Shared
      <4>2. CASE Sharing(q) # {}
        <5>1. PICK r \in Used \ {q} : rec[r].fd = rec[q].fd
          BY <4>2 DEF Sharing
        <5>2. r \in Used' \ {q} /\ rec'[r].fd = rec'[q].fd
          BY <1>1, <1>3, <5>1
        <5>3. QED
          BY <1>5, <5>2 DEF Shared, Sharing
      <4>3. CASE q \in cut /\ rec[q] # [fd |-> fd, asked |-> d]
        BY <1>2, <1>5, <4>3 DEF Shared
      <4>4. CASE rec[q] = [fd |-> fd, asked |-> d]
        <5>1. p \in Used' \ {q} /\ rec'[p].fd = rec'[q].fd
          BY <1>1, <1>3, <4>4
        <5>2. QED
          BY <1>5, <5>1 DEF Shared, Sharing
      <4>5. QED
        BY <3>3, <4>1, <4>2, <4>3, <4>4 DEF Shared
    <3>4. \A q \in Used' : \A e \in Directions :
            <<rec'[q].fd, e>> \in batch => <<rec'[q].fd, rec'[q].asked>> \in batch \/ Shared(q)'
      <4>1. ASSUME NEW q \in Used, NEW e \in Directions, <<rec'[q].fd, e>> \in batch
            PROVE  <<rec'[q].fd, rec'[q].asked>> \in batch \/ Shared(q)'
        BY <1>3, <3>1, <3>3, <4>1 DEF SelectBatch
      <4>2. ASSUME NEW q \in Used', q = p PROVE Shared(q)'
        BY <1>5, <3>2, <4>2 DEF Shared
      <4>3. QED
        BY <1>1, <4>1, <4>2
    <3>5. QED
      BY <1>1, <3>1, <3>4 DEF SelectBatch, walk
  <2>2. QED
    BY <1>5, <2>1 DEF WalkIsCurrent
<1>14. QED
  BY <1>9, <1>10, <1>11, <1>12, <1>13 DEF PollInv

-----------------------------------------------------------------------------
(* ogs_pollset_remove                                                      *)

\* What a removal leaves in the records, and in the history.
LEMMA RemovalLeaves ==
  ASSUME PollInv, NEW p \in Used \ {NotifyPoll}, PollRemove(p)
  PROVE  /\ free' \in Seq(Polls \ {NotifyPoll}) /\ IsInjective(free')
         /\ Used' = Used \ {p}
         /\ rec' \in [Polls -> PollRecords \cup {NULL}]
         /\ \A q \in Used \ {p} : rec'[q] = rec[q] /\ rec'[q] \in PollRecords
         /\ watch' = {w \in watch : w[1] # rec[p].fd}
         /\ watch' \subseteq Fds \X Directions
         /\ watch' = {<<rec'[q].fd, rec'[q].asked>> : q \in Used' \ cut'}
         /\ cut' \subseteq Used' /\ late' \subseteq Used' /\ (cut' # {} => Select)
         /\ \A q \in Used \ {p} : (q \in cut' <=> (q \in cut \/ rec[q].fd = rec[p].fd))
         /\ \A q \in Used \ {p} : (q \in late' <=> q \in late)
         /\ meddled' \in BOOLEAN
         /\ (~meddled' => ~meddled /\ (pc = "handler" => p = call.poll))
<1>1. /\ free' \in Seq(Polls \ {NotifyPoll}) /\ IsInjective(free') /\ Used' = Used \ {p}
  BY RecordReleased DEF PollRemove
<1>2. rec' = IF pc = "app" THEN [rec EXCEPT ![p] = NULL] ELSE rec
  BY DEF PollRemove
<1>3. p \in Polls /\ Used \subseteq Polls
  BY InvSays
<1>4. /\ rec' \in [Polls -> PollRecords \cup {NULL}]
      /\ \A q \in Used \ {p} : rec'[q] = rec[q] /\ rec'[q] \in PollRecords
  BY <1>2, <1>3, InvSays DEF PollInv, TypeOK
<1>5. watch' = {w \in watch : w[1] # rec[p].fd}
  BY DEF PollRemove, EpollRemove, SelectRemove
<1>6. watch' \subseteq Fds \X Directions
  BY <1>5 DEF PollInv, TypeOK
<1>7. /\ cut' \subseteq Used' /\ late' \subseteq Used' /\ (cut' # {} => Select)
      /\ \A q \in Used \ {p} : (q \in cut' <=> (q \in cut \/ rec[q].fd = rec[p].fd))
      /\ \A q \in Used \ {p} : (q \in late' <=> q \in late)
  <2>1. cut \subseteq Used /\ late \subseteq Used /\ (cut # {} => Select)
    BY DEF PollInv, TypeOK, PollsAreRegistered
  <2>2. CASE Select
    <3>1. cut' = (cut \ {p}) \cup Sharing(p) /\ late' = late \ {p}
      BY <2>2, InvSays DEF PollRemove, SelectRemove
    <3>2. QED
      BY <1>1, <2>1, <2>2, <3>1 DEF Sharing
  <2>3. CASE Epoll
    <3>1. cut = {} /\ UNCHANGED <<cut, late>>
      BY <2>1, <2>3, InvSays DEF PollRemove, EpollRemove
    <3>2. \A q \in Used \ {p} : rec[q].fd # rec[p].fd
      BY <2>3 DEF PollInv, OnePollEach
    <3>3. late = {}
      BY <2>3 DEF PollInv, WalkTypes
    <3>4. QED
      BY <3>1, <3>2, <3>3
  <2>4. QED
    BY <2>2, <2>3, InvSays
<1>8. watch' = {<<rec'[q].fd, rec'[q].asked>> : q \in Used' \ cut'}
  <2>1. watch = {<<rec[q].fd, rec[q].asked>> : q \in Used \ cut}
    BY DEF PollInv, PollsAreRegistered
  <2>2. \A q \in Used \ {p} : (q \notin cut' <=> (q \notin cut /\ rec[q].fd # rec[p].fd))
    BY <1>7
  <2>3. watch' \subseteq {<<rec'[q].fd, rec'[q].asked>> : q \in Used' \ cut'}
    <3>1. ASSUME NEW w \in watch, w[1] # rec[p].fd
          PROVE  \E q \in Used' \ cut' : w = <<rec'[q].fd, rec'[q].asked>>
      <4>1. PICK q \in Used \ cut : w = <<rec[q].fd, rec[q].asked>>
        BY <2>1
      <4>2. q # p /\ rec[q].fd # rec[p].fd
        BY <3>1, <4>1
      <4>3. q \in Used' \ cut' /\ rec'[q] = rec[q]
        BY <1>1, <1>4, <2>2, <4>2
      <4>4. QED
        BY <4>1, <4>3
    <3>2. QED
      BY <1>5, <3>1
  <2>4. ASSUME NEW q \in Used' \ cut' PROVE <<rec'[q].fd, rec'[q].asked>> \in watch'
    <3>1. q \in Used \ {p} /\ q \notin cut /\ rec[q].fd # rec[p].fd /\ rec'[q] = rec[q]
      BY <1>1, <1>4, <2>2, <2>4
    <3>2. <<rec[q].fd, rec[q].asked>> \in watch
      BY <2>1, <3>1
    <3>3. QED
      BY <1>5, <3>1, <3>2
  <2>5. QED
    BY <2>3, <2>4
<1>9. meddled' = (meddled \/ (pc = "handler" /\ p # call.poll))
  BY DEF PollRemove
<1>10. meddled' \in BOOLEAN
  BY <1>9, Zenon
<1>11. ~meddled' => ~meddled /\ (pc = "handler" => p = call.poll)
  BY <1>9
<1>12. QED
  BY <1>1, <1>4, <1>5, <1>6, <1>7, <1>10, <1>11, <1>8

\* Removing a poll keeps the invariant, on epoll ...
LEMMA EpollRemoveKeepsInv ==
  ASSUME PollInv, Epoll, pc \in {"app", "handler"}, NEW p \in Used \ {NotifyPoll}, PollRemove(p),
         UNCHANGED <<backend, bytes, pc, walk, state>>
  PROVE  PollInv'
<1>1. Epoll' /\ ~Select' /\ ~Select
  BY InvSays DEF Epoll, Select
<1>2. /\ ptr' = [ptr EXCEPT ![rec[p].fd] = NULL] /\ UNCHANGED <<list, link, max_fd, late>>
      /\ cut' = {}
  BY <1>1 DEF PollInv, PollsAreRegistered, PollRemove, EpollRemove
<1>3. /\ ptr' \in [Fds -> Polls \cup {NULL}] /\ ptr'[rec[p].fd] = NULL
      /\ \A g \in Fds : g # rec[p].fd => ptr'[g] = ptr[g]
  BY <1>2, InvSays
<1>4. TypeOK'
  BY <1>2, <1>3, RemovalLeaves DEF PollInv, TypeOK, walk
<1>5. PollsAreRegistered'
  <2>1. \A q \in Used \ {p} : ptr'[rec[q].fd] = q
    BY <1>1, <1>3, InvSays DEF PollInv, PollsAreRegistered, OnePollEach
  <2>2. \A q \in Used' : ptr'[rec'[q].fd] = q
    BY <2>1, RemovalLeaves
  <2>3. QED
    BY <1>1, <1>2, <2>2, RemovalLeaves DEF PollsAreRegistered
<1>6. OnePollEach'
  <2>1. /\ Used' = Used \ {p} /\ \A q \in Used \ {p} : rec'[q] = rec[q]
    BY RemovalLeaves
  <2>2. \A g \in Fds : ptr'[g] # NULL => ptr'[g] \in Used \ {p} /\ rec[ptr'[g]].fd = g
    BY <1>3 DEF PollInv, OnePollEach
  <2>3. QED
    BY <1>1, <2>1, <2>2 DEF PollInv, OnePollEach
<1>7. WalkTypes'
  BY <1>1, <1>2 DEF PollInv, WalkTypes, walk
<1>8. WalkIsCurrent'
  <2>1. ASSUME ~meddled', pc = "handler" PROVE EpollBatch'
    <3>1. /\ EpollBatch /\ p = call.poll /\ Used' = Used \ {p}
          /\ \A q \in Used \ {p} : rec'[q] = rec[q]
      BY <2>1, RemovalLeaves DEF PollInv, WalkIsCurrent
    <3>2. QED
      BY <2>1, <3>1 DEF EpollBatch, walk
  <2>2. QED
    BY <1>1, <2>1 DEF WalkIsCurrent
<1>9. QED
  BY <1>4, <1>5, <1>6, <1>7, <1>8 DEF PollInv

\* Where the walk goes on from a poll, in the list or not.
LEMMA NextIs ==
  ASSUME PollInv, Select, NEW p \in Polls
  PROVE  /\ NextOf(p) \in Polls \cup {NULL}
         /\ p \in Used => NextOf(p) \in (Used \ {p}) \cup {NULL}
         /\ p \notin Used => NextOf(p) = link[p]
<1>1. list \in Seq(Polls) /\ ToSet(list) = Used
  BY DEF PollInv, TypeOK, PollsAreRegistered
<1>2. Len(list) \in Nat /\ DOMAIN list = 1 .. Len(list)
  BY <1>1, LenProperties
<1>3. Contains(list, p) <=> p \in Used
  BY <1>1, <1>2 DEF Contains, ToSet
<1>4. CASE p \in Used
  <2>1. PlaceOf(p) \in DOMAIN list /\ list[PlaceOf(p)] = p
    BY <1>1, <1>4 DEF PlaceOf, ToSet
  <2>2. CASE PlaceOf(p) = Len(list)
    BY <1>3, <1>4, <2>2 DEF NextOf
  <2>3. CASE PlaceOf(p) # Len(list)
    <3>1. PlaceOf(p) + 1 \in DOMAIN list
      BY <1>2, <2>1, <2>3
    <3>2. list[PlaceOf(p) + 1] \in Used
      BY <1>1, <3>1 DEF ToSet
    <3>3. list[PlaceOf(p) + 1] # p
      <4>1. PlaceOf(p) + 1 # PlaceOf(p)
        BY <1>2, <2>1
      <4>2. QED
        BY <2>1, <3>1, <4>1 DEF PollInv, PollsAreRegistered, IsInjective
    <3>4. QED
      BY <1>3, <1>4, <2>3, <3>2, <3>3, InvSays DEF NextOf
  <2>4. QED
    BY <2>2, <2>3
<1>5. CASE p \notin Used
  BY <1>3, <1>5, InvSays DEF NextOf
<1>6. QED
  BY <1>4, <1>5

\* ... and on select, where it may be the one the walk goes to next.
LEMMA SelectRemoveKeepsInv ==
  ASSUME PollInv, Select, pc \in {"app", "handler"}, NEW p \in Used \ {NotifyPoll}, PollRemove(p),
         UNCHANGED <<backend, bytes, pc, walk, state>>
  PROVE  PollInv'
<1>1. Select' /\ ~Epoll' /\ ~Epoll
  BY InvSays DEF Epoll, Select
<1>2. /\ link' = [link EXCEPT ![p] = IF pc = "app" THEN NULL ELSE NextOf(p)]
      /\ list' = RemoveAt(list, PlaceOf(p))
      /\ max_fd' = IF max_fd = rec[p].fd THEN -1 ELSE max_fd
      /\ UNCHANGED ptr
  BY <1>1 DEF PollRemove, SelectRemove
<1>3. p \in Polls
  BY InvSays
<1>4. /\ link' \in [Polls -> Polls \cup {NULL}]
      /\ pc = "handler" => link'[p] = NextOf(p)
  BY <1>2, <1>3, InvSays, NextIs
<1>5. list' \in Seq(Polls) /\ IsInjective(list') /\ ToSet(list') = Used \ {p}
  <2>1. list \in Seq(Polls) /\ IsInjective(list) /\ ToSet(list) = Used
    BY DEF PollInv, TypeOK, PollsAreRegistered
  <2>2. PlaceOf(p) \in DOMAIN list /\ list[PlaceOf(p)] = p
    BY <2>1 DEF PlaceOf, ToSet
  <2>3. QED
    BY <1>2, <2>1, <2>2, InjectiveRemove
<1>6. max_fd' \in Fds \cup {-1}
  BY <1>2 DEF PollInv, TypeOK
<1>7. TypeOK'
  BY <1>2, <1>4, <1>5, <1>6, RemovalLeaves DEF PollInv, TypeOK, walk
<1>8. PollsAreRegistered'
  <2>1. max_fd' = -1 \/ \E q \in Used \ {p} : rec[q].fd = max_fd'
    BY <1>2 DEF PollInv, PollsAreRegistered
  <2>2. max_fd' = -1 \/ \E q \in Used' : rec'[q].fd = max_fd'
    BY <2>1, RemovalLeaves
  <2>3. QED
    BY <1>1, <1>5, <2>2, RemovalLeaves DEF PollsAreRegistered
<1>9. OnePollEach'
  <2>1. /\ Used' = Used \ {p} /\ \A q \in Used \ {p} : rec'[q] = rec[q]
    BY RemovalLeaves
  <2>2. \A g \in Fds : ptr'[g] = NULL
    BY <1>1, <1>2 DEF PollInv, OnePollEach
  <2>3. QED
    BY <1>1, <2>1, <2>2 DEF OnePollEach
<1>10. WalkTypes'
  BY <1>1 DEF PollInv, WalkTypes, walk
<1>11. WalkIsCurrent'
  <2>1. ASSUME ~meddled', pc = "handler" PROVE SelectBatch'
    <3>1. /\ SelectBatch /\ p = call.poll /\ Used' = Used \ {p}
          /\ \A q \in Used \ {p} : rec'[q] = rec[q]
          /\ \A q \in Used \ {p} : (q \in cut' <=> (q \in cut \/ rec[q].fd = rec[p].fd))
          /\ \A q \in Used \ {p} : (q \in late' <=> q \in late)
      BY <1>1, <2>1, RemovalLeaves DEF PollInv, WalkIsCurrent
    <3>2. cursor = p /\ link'[p] \in (Used \ {p}) \cup {NULL}
      <4>1. cursor = p
        BY <2>1, <3>1 DEF SelectBatch
      <4>2. QED
        BY <1>3, <1>4, <2>1, <4>1, NextIs
    <3>3. ASSUME NEW q \in Used \ {p}, Shared(q) PROVE Shared(q)'
      <4>1. CASE q \in cut \/ q \in late
        BY <1>1, <3>1, <4>1 DEF Shared
      <4>2. CASE Sharing(q) # {}
        <5>1. PICK r \in Used \ {q} : rec[r].fd = rec[q].fd
          BY <4>2 DEF Sharing
        <5>2. CASE r = p
          BY <1>1, <3>1, <5>1, <5>2 DEF Shared
        <5>3. CASE r # p
          <6>1. r \in Used' \ {q} /\ rec'[r].fd = rec'[q].fd
            BY <3>1, <5>1, <5>3
          <6>2. QED
            BY <1>1, <6>1 DEF Shared, Sharing
        <5>4. QED
          BY <5>2, <5>3
      <4>3. QED
        BY <3>3, <4>1, <4>2 DEF Shared
    <3>4. \A q \in Used' : \A e \in Directions :
            <<rec'[q].fd, e>> \in batch => <<rec'[q].fd, rec'[q].asked>> \in batch \/ Shared(q)'
      <4>1. ASSUME NEW q \in Used \ {p}, NEW e \in Directions, <<rec'[q].fd, e>> \in batch
            PROVE  <<rec'[q].fd, rec'[q].asked>> \in batch \/ Shared(q)'
        BY <3>1, <3>3, <4>1 DEF SelectBatch
      <4>2. QED
        BY <3>1, <4>1
    <3>5. QED
      BY <2>1, <3>1, <3>2, <3>4 DEF SelectBatch, walk
  <2>2. QED
    BY <1>1, <2>1 DEF WalkIsCurrent
<1>12. QED
  BY <1>7, <1>8, <1>9, <1>10, <1>11 DEF PollInv

-----------------------------------------------------------------------------
(* The kernel, the application and the loop                                *)

\* Steps that leave the records and the walk alone.
LEMMA OutsideKeepsInv ==
  ASSUME PollInv, UNCHANGED <<backend, registry, walk, history>>, pc' = pc \/ pc' = "app",
         bytes' \in 0 .. MaxBytes, state' \in [Sockets -> SUBSET (Directions \cup {"hup"})]
  PROVE  PollInv'
<1>1. UNCHANGED <<free, rec, watch, ptr, list, link, max_fd, batch, cursor, call, backend, meddled, cut, late>>
  BY DEF registry, walk, history
<1>2. Used' = Used /\ Epoll' = Epoll /\ Select' = Select
  BY <1>1 DEF Used, Epoll, Select
<1>3. TypeOK'
  BY <1>1, <1>2 DEF PollInv, TypeOK
<1>4. PollsAreRegistered' /\ OnePollEach'
  BY <1>1, <1>2 DEF PollInv, PollsAreRegistered, OnePollEach
<1>5. WalkTypes'
  BY <1>1, <1>2 DEF PollInv, WalkTypes
<1>6. WalkIsCurrent'
  BY <1>1, <1>2 DEF PollInv, WalkIsCurrent, EpollBatch, SelectBatch, Shared, Sharing
<1>7. QED
  BY <1>3, <1>4, <1>5, <1>6 DEF PollInv

\* What happens at a peer keeps the invariant.
LEMMA HappensKeepsInv ==
  ASSUME PollInv, NEW s \in Sockets, Happens(s)
  PROVE  PollInv'
<1>1. state \in [Sockets -> SUBSET (Directions \cup {"hup"})] /\ bytes \in 0 .. MaxBytes
  BY DEF PollInv, TypeOK
<1>2. Uses[s] \subseteq Directions
  BY PollAssumption
<1>3. state' \in [Sockets -> SUBSET (Directions \cup {"hup"})]
  BY <1>1, <1>2 DEF Happens
<1>4. QED
  BY <1>1, <1>3, OutsideKeepsInv DEF Happens

\* A notification keeps the invariant.
LEMMA NotifyKeepsInv ==
  ASSUME PollInv, Notify
  PROVE  PollInv'
<1>1. /\ state \in [Sockets -> SUBSET (Directions \cup {"hup"})]
      /\ bytes \in 0 .. MaxBytes /\ MaxBytes \in Nat
  BY PollAssumption DEF PollInv, TypeOK
<1>2. bytes' \in 0 .. MaxBytes
  BY <1>1 DEF Notify
<1>3. QED
  BY <1>1, <1>2, OutsideKeepsInv DEF Notify

\* A call of the application, from its loop or from a handler, keeps the
\* invariant.
LEMMA OperationKeepsInv ==
  ASSUME PollInv, Operation
  PROVE  PollInv'
<1>1. /\ pc \in {"app", "handler"} /\ UNCHANGED <<backend, bytes, pc, walk>>
      /\ state \in [Sockets -> SUBSET (Directions \cup {"hup"})] /\ bytes \in 0 .. MaxBytes
  BY DEF Operation, PollInv, TypeOK
<1>2. ASSUME NEW s \in Sockets, NEW d \in Uses[s], PollAdd(s, d), UNCHANGED state
      PROVE  PollInv'
  <2>1. s \in Fds /\ d \in Directions /\ free # << >> /\ UNCHANGED link
    BY <1>2, PollAssumption DEF Fds, PollAdd
  <2>2. CASE Epoll /\ EpollAdd(Head(free), s, d) /\ UNCHANGED <<list, max_fd, history>>
    <3>1. CASE ptr[s] = NULL
      BY <1>1, <1>2, <2>1, <2>2, <3>1, EpollAddKeepsInv DEF EpollAdd
    <3>2. CASE ptr[s] # NULL
      BY <1>1, <1>2, <2>1, <2>2, <3>2, EpollRefusalKeepsInv DEF EpollAdd
    <3>3. QED
      BY <3>1, <3>2
  <2>3. CASE Select /\ SelectAdd(Head(free), s, d) /\ UNCHANGED ptr
    BY <1>1, <1>2, <2>1, <2>3, SelectAddKeepsInv
  <2>4. QED
    BY <1>2, <2>2, <2>3 DEF PollAdd
<1>3. ASSUME NEW p \in Used \ {NotifyPoll}, PollRemove(p), UNCHANGED state
      PROVE  PollInv'
  BY <1>1, <1>3, EpollRemoveKeepsInv, SelectRemoveKeepsInv, InvSays
<1>4. ASSUME NEW s \in Sockets, UNCHANGED <<registry, history>>,
             \/ \E d \in state[s] \cap Directions : state' = [state EXCEPT ![s] = @ \ {d}]
             \/ state' = [state EXCEPT ![s] = {}]
      PROVE  PollInv'
  <2>1. state' \in [Sockets -> SUBSET (Directions \cup {"hup"})]
    BY <1>1, <1>4
  <2>2. QED
    BY <1>1, <1>4, <2>1, OutsideKeepsInv
<1>5. QED
  BY <1>2, <1>3, <1>4 DEF Operation

\* Poll finds select's greatest descriptor again.
LEMMA PollKeepsInv ==
  ASSUME PollInv, Poll
  PROVE  PollInv'
<1>1. /\ UNCHANGED <<free, rec, watch, ptr, list, link, batch, cursor, call, backend, meddled, cut, late, bytes, state>>
      /\ pc' = "wait" /\ max_fd' = IF Select /\ max_fd = -1 THEN Highest ELSE max_fd
  BY DEF Poll, walk, history
<1>2. Used' = Used /\ Epoll' = Epoll /\ Select' = Select
  BY <1>1 DEF Used, Epoll, Select
<1>3. ASSUME Select PROVE \E q \in Used : rec[q].fd = Highest
  <2>1. list \in Seq(Polls) /\ ToSet(list) = Used
    BY <1>3 DEF PollInv, TypeOK, PollsAreRegistered
  <2>2. Len(list) \in Nat /\ DOMAIN list = 1 .. Len(list)
    BY <2>1, LenProperties
  <2> DEFINE S == {rec[list[i]].fd : i \in DOMAIN list}
  <2>3. S = {rec[q].fd : q \in Used}
    BY <2>1 DEF ToSet
  <2>4. S # {} /\ S \subseteq Fds
    <3>1. rec[NotifyPoll].fd \in S
      BY <2>3, InvSays
    <3>2. \A q \in Used : rec[q].fd \in Fds
      BY InvSays
    <3>3. S \subseteq Fds
      BY <2>3, <3>2
    <3>4. QED
      BY <3>1, <3>3
  <2>5. list # << >>
    BY <2>4
  <2>6. IsFiniteSet(Fds)
    BY PollAssumption, FS_AddElement DEF Fds
  <2>7. S \subseteq Nat /\ IsFiniteSet(S)
    BY <2>4, <2>6, FS_Subset, PollAssumption
  <2>8. Highest = Max(S)
    BY <2>5 DEF Highest
  <2> HIDE DEF S
  <2>9. \E n \in S : \A m \in S : n >= m
    BY <2>4, <2>7, GreatestNumber
  <2>10. Max(S) \in S
    BY <2>9 DEF Max
  <2>11. QED
    BY <2>3, <2>8, <2>10
<1>4. max_fd' \in Fds \cup {-1}
  BY <1>1, <1>3, InvSays DEF PollInv, TypeOK
<1>5. TypeOK'
  BY <1>1, <1>2, <1>4 DEF PollInv, TypeOK
<1>6. PollsAreRegistered' /\ OnePollEach'
  <2>1. Select => max_fd' = -1 \/ \E q \in Used : rec[q].fd = max_fd'
    BY <1>1, <1>3 DEF PollInv, PollsAreRegistered
  <2>2. QED
    BY <1>1, <1>2, <2>1 DEF PollInv, PollsAreRegistered, OnePollEach
<1>7. WalkTypes' /\ WalkIsCurrent'
  BY <1>1, <1>2 DEF PollInv, WalkTypes, WalkIsCurrent
<1>8. QED
  BY <1>5, <1>6, <1>7 DEF PollInv

\* What epoll answers is what the polls in use asked for.
LEMMA EpollReturnsKeepsInv ==
  ASSUME PollInv, EpollReturns
  PROVE  PollInv'
<1>1. /\ UNCHANGED <<registry, free, rec, watch, ptr, list, link, max_fd, cursor, call, backend, meddled, cut, late, bytes, state>>
      /\ pc' = "walk" /\ Epoll
  BY DEF EpollReturns, registry, history
<1>2. PICK order \in SetToSeqs(EpollReady) :
        batch' = [i \in DOMAIN order |-> [poll |-> ptr[order[i]], when |-> EpollEvents(order[i])]]
  BY DEF EpollReturns
<1>3. Used' = Used /\ Epoll' /\ ~Select' /\ ~Select
  BY <1>1, InvSays DEF Used, Epoll, Select
<1> DEFINE n == Cardinality(EpollReady)
<1>4. n \in Nat
  <2>1. IsFiniteSet(Fds)
    BY PollAssumption, FS_AddElement DEF Fds
  <2>2. EpollReady \in SUBSET Fds
    BY DEF EpollReady
  <2>3. QED
    BY <2>1, <2>2, FS_Subset, FS_CardinalityType
<1>5. /\ order \in [1 .. n -> EpollReady]
      /\ \A i, j \in 1 .. n : order[i] = order[j] => i = j
  BY <1>2 DEF SetToSeqs
<1> HIDE DEF n
<1>6. ASSUME NEW fd \in EpollReady
      PROVE  /\ ptr[fd] \in Used /\ rec[ptr[fd]].fd = fd
             /\ EpollEvents(fd) \subseteq Directions
             /\ rec[ptr[fd]].asked \in EpollEvents(fd)
  <2>1. fd \in Fds /\ ptr[fd] # NULL /\ EpollEvents(fd) # {}
    BY DEF EpollReady
  <2>2. ptr[fd] \in Used /\ rec[ptr[fd]].fd = fd
    BY <2>1 DEF PollInv, OnePollEach
  <2>3. rec[ptr[fd]].asked \in Directions
    BY <2>2, InvSays
  <2>4. CASE EpollEvents(fd) = Directions
    BY <2>2, <2>3, <2>4
  <2>5. CASE EpollEvents(fd) = Ready(fd) \cap Watched(fd)
    <3>1. EpollEvents(fd) \subseteq Directions
      BY <2>5 DEF Watched
    <3>2. PICK d \in EpollEvents(fd) : <<fd, d>> \in watch
      BY <2>1, <2>5 DEF Watched
    <3>3. PICK q \in Used : <<fd, d>> = <<rec[q].fd, rec[q].asked>>
      BY <3>2 DEF PollInv, PollsAreRegistered
    <3>4. q = ptr[fd]
      BY <1>1, <2>2, <3>3 DEF PollInv, OnePollEach
    <3>5. QED
      BY <2>2, <3>1, <3>2, <3>3, <3>4
  <2>6. QED
    BY <2>4, <2>5 DEF EpollEvents
<1>7. /\ DOMAIN batch' = 1 .. n
      /\ \A i \in 1 .. n : batch'[i] = [poll |-> ptr[order[i]], when |-> EpollEvents(order[i])]
  BY <1>2, <1>5
<1> DEFINE Events == [poll : Polls, when : SUBSET Directions]
<1>8. batch' \in Seq(Events)
  <2>1. \A i \in 1 .. n : order[i] \in EpollReady /\ ptr[order[i]] \in Polls
    BY <1>5, <1>6, InvSays
  <2>2. \A i \in 1 .. n : [poll |-> ptr[order[i]], when |-> EpollEvents(order[i])] \in Events
    BY <1>6, <2>1
  <2>3. batch' = [i \in 1 .. n |-> [poll |-> ptr[order[i]], when |-> EpollEvents(order[i])]]
    BY <1>2, <1>5
  <2> HIDE DEF Events
  <2>4. batch' \in [1 .. n -> Events]
    BY <2>2, <2>3
  <2>5. QED
    BY <1>4, <2>4, SeqDef
<1>9. Len(batch') = n
  BY <1>4, <1>7, <1>8, LenProperties
<1>10. EpollBatch'
  <2>1. \A i \in 1 .. n : /\ batch'[i].poll = ptr[order[i]] /\ order[i] \in EpollReady
                           /\ batch'[i].when = EpollEvents(order[i])
    BY <1>5, <1>7
  <2>2. \A i \in 1 .. n : batch'[i].poll \in Used /\ rec[batch'[i].poll].asked \in batch'[i].when
                           /\ rec[batch'[i].poll].fd = order[i]
    BY <1>6, <2>1
  <2>3. \A i, j \in 1 .. n : batch'[i].poll = batch'[j].poll => i = j
    BY <1>5, <2>2
  <2>4. QED
    BY <1>1, <1>3, <1>9, <2>2, <2>3 DEF EpollBatch
<1>11. TypeOK'
  BY <1>1, <1>3 DEF PollInv, TypeOK
<1>12. PollsAreRegistered' /\ OnePollEach'
  BY <1>1, <1>3 DEF PollInv, PollsAreRegistered, OnePollEach
<1>13. WalkTypes' /\ WalkIsCurrent'
  BY <1>1, <1>3, <1>8, <1>10 DEF PollInv, WalkTypes, WalkIsCurrent
<1>14. QED
  BY <1>11, <1>12, <1>13 DEF PollInv

\* The return of select keeps the invariant.
LEMMA SelectReturnsKeepsInv ==
  ASSUME PollInv, SelectReturns
  PROVE  PollInv'
<1>1. /\ UNCHANGED <<free, rec, watch, ptr, list, link, max_fd, call, backend, meddled, cut, late, bytes, state>>
      /\ pc' = "walk" /\ Select /\ batch' = SelectReady /\ cursor' = Head(list)
  BY DEF SelectReturns, registry, history
<1>2. Used' = Used /\ ~Epoll' /\ Select' /\ ~Epoll
  BY <1>1, InvSays DEF Used, Epoll, Select
<1>3. SelectReady \subseteq watch /\ watch \subseteq Fds \X Directions
  BY DEF SelectReady, PollInv, TypeOK
<1>4. Head(list) \in Used
  <2>1. list \in Seq(Polls) /\ ToSet(list) = Used /\ IsInjective(list)
    BY <1>1 DEF PollInv, TypeOK, PollsAreRegistered
  <2>2. list # << >>
    <3>1. PICK i \in DOMAIN list : list[i] = NotifyPoll
      BY <2>1, InvSays DEF ToSet
    <3>2. QED
      BY <3>1
  <2>3. QED
    BY <2>1, <2>2, InjectiveTail
<1>5. SelectBatch'
  <2>1. ASSUME NEW p \in Used, NEW d \in Directions, <<rec[p].fd, d>> \in SelectReady
        PROVE  <<rec[p].fd, rec[p].asked>> \in SelectReady \/ Shared(p)
    <3>1. PICK q \in Used : <<rec[p].fd, d>> = <<rec[q].fd, rec[q].asked>>
      BY <1>3, <2>1 DEF PollInv, PollsAreRegistered
    <3>2. CASE q = p
      BY <2>1, <3>1, <3>2
    <3>3. CASE q # p
      BY <1>1, <3>1, <3>3 DEF Shared, Sharing
    <3>4. QED
      BY <3>2, <3>3
  <2>2. \A p \in Used : Shared(p)' = Shared(p)
    BY <1>1, <1>2 DEF Shared, Sharing
  <2>3. QED
    BY <1>1, <1>2, <1>4, <2>1, <2>2 DEF SelectBatch
<1>6. TypeOK'
  BY <1>1, <1>2, <1>4, InvSays DEF PollInv, TypeOK
<1>7. PollsAreRegistered' /\ OnePollEach'
  BY <1>1, <1>2 DEF PollInv, PollsAreRegistered, OnePollEach
<1>8. WalkTypes' /\ WalkIsCurrent'
  BY <1>1, <1>2, <1>3, <1>5 DEF PollInv, WalkTypes, WalkIsCurrent
<1>9. QED
  BY <1>6, <1>7, <1>8 DEF PollInv

\* A call of the walk is one that was asked for, unless a handler meddled.
LEMMA EpollWalkKeepsInv ==
  ASSUME PollInv, EpollWalk
  PROVE  PollInv' /\ (~meddled => call'.poll \in Used /\ rec[call'.poll].asked \in call'.when)
<1>1. /\ UNCHANGED <<free, rec, watch, ptr, list, link, max_fd, cursor, backend, meddled, cut, late, bytes, state>>
      /\ pc = "walk" /\ pc' = "handler" /\ Epoll /\ batch # << >> /\ batch' = Tail(batch)
      /\ call' = [poll |-> Head(batch).poll, when |-> Head(batch).when]
  BY DEF EpollWalk, Call, registry, history
<1>2. Used' = Used /\ Epoll' /\ ~Select' /\ ~Select
  BY <1>1, InvSays DEF Used, Epoll, Select
<1> DEFINE Events == [poll : Polls, when : SUBSET Directions]
<1>3. batch \in Seq(Events) /\ Len(batch) \in Nat /\ Len(batch) # 0 /\ Head(batch) = batch[1]
  BY <1>1, EmptySeq, LenProperties, HeadTailProperties DEF PollInv, WalkTypes
<1>4. /\ batch' \in Seq(Events) /\ Len(batch') = Len(batch) - 1
      /\ \A i \in 1 .. Len(batch') : batch'[i] = batch[i + 1]
  BY <1>1, <1>3, HeadTailProperties
<1>5. ASSUME ~meddled
      PROVE  EpollBatch' /\ call'.poll \in Used /\ rec[call'.poll].asked \in call'.when
  <2>1. EpollBatch
    BY <1>1, <1>5 DEF PollInv, WalkIsCurrent
  <2>2. /\ 1 \in 1 .. Len(batch)
        /\ \A i \in 1 .. Len(batch') : i + 1 \in 1 .. Len(batch) /\ i + 1 # 1
    BY <1>3, <1>4
  <2>3. call'.poll = batch[1].poll /\ call'.when = batch[1].when
    BY <1>1, <1>3
  <2>4. \A i, j \in 1 .. Len(batch') : i + 1 = j + 1 => i = j
    BY <1>3, <1>4
  <2>5. QED
    BY <1>1, <1>2, <1>4, <2>1, <2>2, <2>3, <2>4 DEF EpollBatch
<1>6. TypeOK'
  BY <1>1, <1>2 DEF PollInv, TypeOK
<1>7. PollsAreRegistered' /\ OnePollEach'
  BY <1>1, <1>2 DEF PollInv, PollsAreRegistered, OnePollEach
<1>8. WalkTypes' /\ WalkIsCurrent'
  BY <1>1, <1>2, <1>4, <1>5 DEF PollInv, WalkTypes, WalkIsCurrent
<1>9. QED
  BY <1>5, <1>6, <1>7, <1>8 DEF PollInv

\* A step of the walk over the list keeps the invariant, and the handler called
\* is that of a registered poll.
LEMMA SelectWalkKeepsInv ==
  ASSUME PollInv, SelectWalk
  PROVE  PollInv' /\ (pc' = "handler" /\ ~meddled =>
                         /\ call'.poll \in Used
                         /\ rec[call'.poll].asked \in call'.when \/ Shared(call'.poll))
<1>1. /\ UNCHANGED <<free, rec, watch, ptr, list, link, max_fd, batch, backend, meddled, cut, late, bytes, state>>
      /\ pc = "walk" /\ Select /\ cursor # NULL
      /\ \/ cursor' = NextOf(cursor) /\ UNCHANGED <<pc, call>>
         \/ /\ Answered(cursor) # {} /\ pc' = "handler" /\ UNCHANGED cursor
            /\ call' = [poll |-> cursor, when |-> Answered(cursor)]
  BY DEF SelectWalk, Call, registry, history
<1>2. Used' = Used /\ ~Epoll' /\ Select' /\ ~Epoll
  BY <1>1, InvSays DEF Used, Epoll, Select
<1>3. cursor \in Polls
  BY <1>1 DEF PollInv, TypeOK
<1>4. cursor' \in Polls \cup {NULL}
  BY <1>1, <1>3, NextIs
<1>5. ASSUME ~meddled
      PROVE  /\ SelectBatch'
             /\ pc' = "handler" => /\ call'.poll \in Used
                                   /\ rec[call'.poll].asked \in call'.when \/ Shared(call'.poll)
  <2>1. /\ SelectBatch /\ cursor \in Used /\ rec[cursor].asked \in Directions
        /\ \A p \in Used : Shared(p)' = Shared(p)
    <3>1. \A p \in Used : Shared(p)' = Shared(p)
      BY <1>1, <1>2 DEF Shared, Sharing
    <3>2. SelectBatch /\ cursor \in Used
      BY <1>1, <1>2, <1>5 DEF PollInv, WalkIsCurrent, SelectBatch
    <3>3. QED
      BY <3>1, <3>2, InvSays
  <2>2. CASE cursor' = NextOf(cursor) /\ UNCHANGED <<pc, call>>
    BY <1>1, <1>2, <1>3, <2>1, <2>2, NextIs DEF SelectBatch
  <2>3. CASE /\ Answered(cursor) # {} /\ pc' = "handler" /\ UNCHANGED cursor
             /\ call' = [poll |-> cursor, when |-> Answered(cursor)]
    <3>1. rec[cursor].asked \in Answered(cursor) \/ Shared(cursor)
      BY <2>1, <2>3 DEF SelectBatch, Answered
    <3>2. QED
      BY <1>1, <1>2, <2>1, <2>3, <3>1 DEF SelectBatch
  <2>4. QED
    BY <1>1, <2>2, <2>3
<1>6. TypeOK'
  BY <1>1, <1>2, <1>4 DEF PollInv, TypeOK
<1>7. PollsAreRegistered' /\ OnePollEach'
  BY <1>1, <1>2 DEF PollInv, PollsAreRegistered, OnePollEach
<1>8. WalkTypes' /\ WalkIsCurrent'
  BY <1>1, <1>2, <1>3, <1>5 DEF PollInv, WalkTypes, WalkIsCurrent
<1>9. QED
  BY <1>5, <1>6, <1>7, <1>8 DEF PollInv

-----------------------------------------------------------------------------
(* The end of the walk                                                     *)

\* At the end of the walk only what is in use is remembered.
LEMMA WalkEndsKeepsInv ==
  ASSUME PollInv, WalkEnds
  PROVE  PollInv'
<1>1. /\ UNCHANGED <<free, watch, ptr, list, max_fd, cursor, call, backend, bytes, state>>
      /\ pc' = "app" /\ ~meddled' /\ meddled' = FALSE /\ late' = {} /\ UNCHANGED cut
      /\ batch' = IF Epoll THEN << >> ELSE {}
      /\ rec' = [p \in Polls |-> IF p \in Used THEN rec[p] ELSE NULL]
      /\ link' = [p \in Polls |-> NULL]
  BY DEF WalkEnds
<1>2. Used' = Used /\ Epoll' = Epoll /\ Select' = Select
  BY <1>1 DEF Used, Epoll, Select
<1>3. /\ rec' \in [Polls -> PollRecords \cup {NULL}] /\ link' \in [Polls -> Polls \cup {NULL}]
      /\ \A p \in Used : rec'[p] = rec[p]
  BY <1>1, InvSays
<1>4. TypeOK'
  BY <1>1, <1>2, <1>3 DEF PollInv, TypeOK
<1>5. PollsAreRegistered' /\ OnePollEach'
  <2>1. {<<rec'[p].fd, rec'[p].asked>> : p \in Used \ cut} = {<<rec[p].fd, rec[p].asked>> : p \in Used \ cut}
    BY <1>3
  <2>2. PollsAreRegistered'
    BY <1>1, <1>2, <1>3, <2>1 DEF PollInv, PollsAreRegistered
  <2>3. OnePollEach'
    BY <1>1, <1>2, <1>3 DEF PollInv, OnePollEach
  <2>4. QED
    BY <2>2, <2>3
<1>6. WalkTypes'
  <2>1. << >> \in Seq([poll : Polls, when : SUBSET Directions])
    BY EmptySeq
  <2>2. QED
    BY <1>1, <1>2, <2>1 DEF PollInv, WalkTypes
<1>7. WalkIsCurrent'
  BY <1>1 DEF WalkIsCurrent
<1>8. QED
  BY <1>4, <1>5, <1>6, <1>7 DEF PollInv

\* The walk goes on behind the poll whose handler is back.
LEMMA ReturnKeepsInv ==
  ASSUME PollInv, Return
  PROVE  PollInv'
<1>1. /\ UNCHANGED <<free, rec, watch, ptr, list, link, max_fd, batch, backend, meddled, cut, late, state>>
      /\ pc = "handler" /\ pc' = "walk"
      /\ cursor' = IF Select THEN NextOf(cursor) ELSE cursor
      /\ bytes' = IF ~InDrain THEN bytes ELSE IF bytes > DrainSize THEN bytes - DrainSize ELSE 0
  BY DEF Return, registry, history
<1>2. Used' = Used /\ Epoll' = Epoll /\ Select' = Select
  BY <1>1 DEF Used, Epoll, Select
<1>3. bytes' \in 0 .. MaxBytes
  <2>1. bytes \in 0 .. MaxBytes /\ MaxBytes \in Nat /\ DrainSize \in Nat
    BY PollAssumption DEF PollInv, TypeOK
  <2>2. QED
    BY <1>1, <2>1
<1>4. ASSUME Select PROVE cursor \in Polls
  BY <1>1, <1>4 DEF PollInv, WalkTypes
<1>5. cursor' \in Polls \cup {NULL}
  BY <1>1, <1>4, NextIs DEF PollInv, TypeOK
<1>6. ASSUME Select, ~meddled PROVE SelectBatch'
  <2>1. SelectBatch
    BY <1>1, <1>6, InvSays DEF PollInv, WalkIsCurrent
  <2>2. cursor' \in Used \cup {NULL}
    BY <1>1, <1>4, <1>6, <2>1, NextIs DEF SelectBatch
  <2>3. \A p \in Used : Shared(p)' = Shared(p)
    BY <1>1, <1>2 DEF Shared, Sharing
  <2>4. QED
    BY <1>1, <1>2, <2>1, <2>2, <2>3 DEF SelectBatch
<1>7. ASSUME Epoll, ~meddled PROVE EpollBatch'
  BY <1>1, <1>2, <1>7 DEF PollInv, WalkIsCurrent, EpollBatch
<1>8. TypeOK'
  BY <1>1, <1>2, <1>3, <1>5 DEF PollInv, TypeOK
<1>9. PollsAreRegistered' /\ OnePollEach'
  BY <1>1, <1>2 DEF PollInv, PollsAreRegistered, OnePollEach
<1>10. WalkTypes' /\ WalkIsCurrent'
  BY <1>1, <1>2, <1>6, <1>7, InvSays DEF PollInv, WalkTypes, WalkIsCurrent
<1>11. QED
  BY <1>8, <1>9, <1>10 DEF PollInv

-----------------------------------------------------------------------------
(* The invariant of the specification                                      *)

\* ogs_pollset_create establishes the invariant.
LEMMA PollInvInit == Init => PollInv
<1> SUFFICES ASSUME Init PROVE PollInv
  OBVIOUS
<1>1. /\ backend \in Backends /\ state = [s \in Sockets |-> {}] /\ bytes = 0
      /\ free = SetToSeq(Polls \ {NotifyPoll})
      /\ rec = [p \in Polls |-> IF p = NotifyPoll THEN [fd |-> NotifyFd, asked |-> "in"] ELSE NULL]
      /\ watch = {<<NotifyFd, "in">>}
      /\ ptr = [fd \in Fds |-> IF Epoll /\ fd = NotifyFd THEN NotifyPoll ELSE NULL]
      /\ list = IF Select THEN <<NotifyPoll>> ELSE << >>
      /\ link = [p \in Polls |-> NULL]
      /\ max_fd = IF Select THEN NotifyFd ELSE -1
      /\ pc = "app" /\ batch = (IF Epoll THEN << >> ELSE {})
      /\ cursor = NULL /\ meddled = FALSE /\ cut = {} /\ late = {}
  BY DEF Init
<1>2. Epoll = ~Select
  BY <1>1, PollAssumption DEF Epoll, Select
<1>3. free \in Seq(Polls \ {NotifyPoll}) /\ IsInjective(free) /\ ToSet(free) = Polls \ {NotifyPoll}
  <2>1. IsFiniteSet(Polls \ {NotifyPoll})
    BY PollAssumption, FS_Subset, Polls \ {NotifyPoll} \in SUBSET Polls
  <2>2. QED
    BY <1>1, <2>1, SetToSeqIs
<1>4. Used = {NotifyPoll}
  BY <1>3, PollAssumption DEF Used
<1>5. NotifyFd \in Fds /\ "in" \in Directions
  BY DEF Fds, Directions
<1>6. /\ rec[NotifyPoll].fd = NotifyFd /\ rec[NotifyPoll].asked = "in" /\ rec[NotifyPoll] \in PollRecords
      /\ rec \in [Polls -> PollRecords \cup {NULL}]
  BY <1>1, <1>5, PollAssumption DEF PollRecords
<1>7. /\ list \in Seq(Polls) /\ IsInjective(list)
      /\ Select => ToSet(list) = {NotifyPoll}
      /\ Epoll => list = << >>
  <2>1. << >> \in Seq(Polls) /\ IsInjective(<< >>) /\ ToSet(<< >>) = {}
    BY EmptySeq DEF IsInjective, ToSet
  <2> DEFINE e == << >>
  <2>2. Append(e, NotifyPoll) = <<NotifyPoll>>
    OBVIOUS
  <2>3. e \in Seq(Polls) /\ IsInjective(e) /\ ToSet(e) = {} /\ NotifyPoll \in Polls
    BY <2>1, PollAssumption
  <2> HIDE DEF e
  <2>4. /\ Append(e, NotifyPoll) \in Seq(Polls) /\ IsInjective(Append(e, NotifyPoll))
        /\ ToSet(Append(e, NotifyPoll)) = {NotifyPoll}
    BY <2>3, InjectiveAppend
  <2>5. QED
    BY <1>1, <1>2, <2>1, <2>2, <2>4
<1>8. TypeOK
  <2>1. bytes \in 0 .. MaxBytes
    BY <1>1, PollAssumption
  <2>2. /\ state \in [Sockets -> SUBSET (Directions \cup {"hup"})]
        /\ ptr \in [Fds -> Polls \cup {NULL}] /\ link \in [Polls -> Polls \cup {NULL}]
        /\ max_fd \in Fds \cup {-1}
    BY <1>1, <1>5, PollAssumption
  <2>3. watch \subseteq Fds \X Directions
    BY <1>1, <1>5
  <2>4. QED
    BY <1>1, <1>3, <1>4, <1>6, <1>7, <2>1, <2>2, <2>3 DEF TypeOK
<1>9. PollsAreRegistered
  <2>1. watch = {<<rec[p].fd, rec[p].asked>> : p \in Used \ cut} /\ cut = {}
    BY <1>1, <1>4, <1>6
  <2>2. Epoll => \A p \in Used : ptr[rec[p].fd] = p
    BY <1>1, <1>4, <1>5, <1>6
  <2>3. Select => max_fd = -1 \/ \E p \in Used : rec[p].fd = max_fd
    BY <1>1, <1>4, <1>6
  <2>4. QED
    BY <1>4, <1>7, <2>1, <2>2, <2>3 DEF PollsAreRegistered
<1>10. OnePollEach
  BY <1>1, <1>4, <1>6 DEF OnePollEach
<1>11. WalkTypes
  <2>1. << >> \in Seq([poll : Polls, when : SUBSET Directions])
    BY EmptySeq
  <2>2. QED
    BY <1>1, <1>7, <2>1 DEF WalkTypes
<1>12. WalkIsCurrent
  BY <1>1 DEF WalkIsCurrent
<1>13. QED
  BY <1>8, <1>9, <1>10, <1>11, <1>12 DEF PollInv

\* Every step of the kernel, of the application and of the loop keeps it.
LEMMA PollInvStep == PollInv /\ [Next]_vars => PollInv'
<1> SUFFICES ASSUME PollInv, [Next]_vars PROVE PollInv'
  OBVIOUS
<1>1. ASSUME NEW s \in Sockets, Happens(s) PROVE PollInv'
  BY <1>1, HappensKeepsInv
<1>2. CASE Notify
  BY <1>2, NotifyKeepsInv
<1>3. CASE Operation
  BY <1>3, OperationKeepsInv
<1>4. CASE Loop
  BY <1>4, PollKeepsInv, EpollReturnsKeepsInv, SelectReturnsKeepsInv, EpollWalkKeepsInv,
     SelectWalkKeepsInv, WalkEndsKeepsInv, ReturnKeepsInv DEF Loop
<1>5. CASE WaitEnds
  BY <1>5, OutsideKeepsInv DEF WaitEnds, PollInv, TypeOK
<1>6. CASE UNCHANGED vars
  BY <1>6, OutsideKeepsInv DEF vars, history, PollInv, TypeOK
<1>7. QED
  BY <1>1, <1>2, <1>3, <1>4, <1>5, <1>6 DEF Next

\* The invariant holds in every state the specification reaches.
LEMMA PollInvAlways == Spec => []PollInv
<1>1. QED
  BY PollInvInit, PollInvStep, PTL DEF Spec

\* For any number of sockets and polls, with either backend: the records in
\* use are those the backend watches, each with its own descriptor and
\* direction, whatever is added, refused and removed, in handlers too; but
\* for select's polls of a descriptor that has lost another poll, which are
\* watched no more until one of their direction is added.
THEOREM PollsetIsSound == Spec => []PollSound
<1>1. PollInv => PollSound
  BY DEF PollInv, PollSound
<1>2. QED
  BY <1>1, PollInvAlways, PTL

\* epoll's wait reports every poll in use that has something to do.
THEOREM EpollReportsReady == Spec => []EpollSeesReady
<1>1. ASSUME PollInv PROVE EpollSeesReady
  <2>1. ASSUME Epoll, NEW p \in Used \ cut, Pending(p)
        PROVE  \E fd \in EpollReady : ptr[fd] = p
    <3>1. /\ rec[p].fd \in Fds /\ rec[p].asked \in Directions /\ rec[p].asked \in Ready(rec[p].fd)
          /\ ptr[rec[p].fd] = p /\ p # NULL
      BY <1>1, <2>1, InvSays, PollAssumption DEF PollInv, PollsAreRegistered, Pending
    <3>2. rec[p].asked \in Watched(rec[p].fd)
      BY <1>1, <3>1 DEF PollInv, PollsAreRegistered, Watched
    <3>3. EpollEvents(rec[p].fd) # {}
      BY <3>1, <3>2 DEF EpollEvents
    <3>4. QED
      BY <3>1, <3>3 DEF EpollReady
  <2>2. QED
    BY <2>1 DEF EpollSeesReady, ReadyIsSeen
<1>2. QED
  BY <1>1, PollInvAlways, PTL

\* Unless a handler of the same walk removed another poll, a handler is called
\* for a poll in use and for the direction it asked for; with select the
\* direction may be that of another poll of the descriptor, there now or at
\* the time of the answer.
THEOREM CallsWereAskedFor == Spec => CallsAreAskedFor
<1>1. ASSUME PollInv, [Next]_vars
      PROVE  [pc = "walk" /\ pc' = "handler" =>
                 \/ meddled
                 \/ /\ call'.poll \in Used
                    /\ rec[call'.poll].asked \in call'.when \/ Shared(call'.poll)]_vars
  <2> SUFFICES ASSUME pc = "walk", pc' = "handler", ~meddled
               PROVE  /\ call'.poll \in Used
                      /\ rec[call'.poll].asked \in call'.when \/ Shared(call'.poll)
    OBVIOUS
  <2>1. CASE EpollWalk
    BY <1>1, <2>1, EpollWalkKeepsInv
  <2>2. CASE SelectWalk
    BY <1>1, <2>2, SelectWalkKeepsInv
  <2>3. EpollWalk \/ SelectWalk
    BY <1>1 DEF Next, vars, history, Happens, Notify, Operation, Loop, Poll, EpollReturns, SelectReturns,
                WalkEnds, Return, WaitEnds
  <2>4. QED
    BY <2>1, <2>2, <2>3
<1>2. QED
  BY <1>1, PollInvAlways, PTL DEF Spec, CallsAreAskedFor

-----------------------------------------------------------------------------
(* kqueue                                                                  *)

KqSpec == KqInit /\ [][KqNext]_kqvars

KqRecords == ToSet(KqPolls)
KqDirections == {w[2] : w \in KqUses}
Change == [fd : KqFds, filter : KqDirections, udata : KqRecords]
KqContents == [fd : KqFds, asked : KqDirections, index : Nat]

KqTypes ==
  /\ kqfree \in Seq(KqRecords) /\ IsInjective(kqfree)
  /\ changes \in Seq(Change) /\ events \in Seq(Change)
  /\ kqpoll \in [KqRecords -> KqContents \cup {NoPoll}]
  /\ \A p \in InUse : kqpoll[p] \in KqContents /\ Pair(p) \in KqUses
  /\ DOMAIN knotes \subseteq KqUses /\ \A w \in DOMAIN knotes : knotes[w] \in KqRecords
  /\ kqpc \in {"app", "wait", "walk", "handler"}

\* The changes are those of the polls in use, each at its index.
ChangesAgree ==
  /\ \A p \in InUse : /\ kqpoll[p].index \in DOMAIN changes
                       /\ changes[kqpoll[p].index] = [fd |-> kqpoll[p].fd, filter |-> kqpoll[p].asked, udata |-> p]
  /\ \A i \in DOMAIN changes : changes[i].udata \in InUse /\ kqpoll[changes[i].udata].index = i

\* What the kernel watches, but for what it was left with, is asked for by the
\* poll it knows; in the wait, all that is asked for is watched.
KnotesAgree ==
  /\ \A w \in DOMAIN knotes \ left : knotes[w] \in InUse /\ Pair(knotes[w]) = w
  /\ kqpc = "wait" => \A p \in InUse : Pair(p) \in DOMAIN knotes \ left

\* What is left of kevent's answer is about polls in use, but for orphans.
EventsAreCurrent ==
  kqpc \in {"walk", "handler"} =>
    \A i \in DOMAIN events :
      EventPair(i) \in orphans \/ (events[i].udata \in InUse /\ Pair(events[i].udata) = EventPair(i))

\* The inductive invariant.
KqInv == KqTypes /\ ChangesAgree /\ KnotesAgree /\ EventsAreCurrent

\* A use is a pair of a descriptor and a direction.
LEMMA UsesArePairs ==
  ASSUME NEW w \in KqUses
  PROVE  w = <<w[1], w[2]>> /\ w[1] \in KqFds /\ w[2] \in KqDirections
  BY KqAssumption DEF KqFds, KqDirections

\* kqueue_add.
LEMMA KqAddKeepsInv ==
  ASSUME KqInv, NEW w \in KqUses, KqAdd(w[1], w[2])
  PROVE  KqInv'
<1> DEFINE p == Head(kqfree)
           c == [fd |-> w[1], filter |-> w[2], udata |-> p]
           n == Len(changes)
           new == [fd |-> w[1], asked |-> w[2], index |-> n + 1]
<1>1. /\ kqpc \in {"app", "handler"} /\ kqfree # << >>
      /\ kqfree' = Tail(kqfree) /\ kqpoll' = [kqpoll EXCEPT ![p] = new] /\ changes' = Append(changes, c)
      /\ UNCHANGED <<knotes, kqpc, events, kqcall, left, orphans>>
  BY DEF KqAdd, Working, kqhistory
<1>2. w = <<w[1], w[2]>> /\ w[1] \in KqFds /\ w[2] \in KqDirections
  BY UsesArePairs
<1>3. /\ kqfree' \in Seq(KqRecords) /\ IsInjective(kqfree')
      /\ p \in KqRecords /\ p \notin InUse /\ InUse' = InUse \cup {p}
  <2>1. kqfree \in Seq(KqRecords) /\ IsInjective(kqfree)
    BY DEF KqInv, KqTypes
  <2>2. /\ Tail(kqfree) \in Seq(KqRecords) /\ IsInjective(Tail(kqfree))
        /\ p \in KqRecords /\ p \in ToSet(kqfree) /\ ToSet(Tail(kqfree)) = ToSet(kqfree) \ {p}
    BY <1>1, <2>1, InjectiveTail
  <2> HIDE DEF p
  <2>3. QED
    BY <1>1, <2>2 DEF InUse, KqRecords
<1> HIDE DEF p
<1>4. /\ changes \in Seq(Change) /\ n \in Nat /\ DOMAIN changes = 1 .. n
  BY LenProperties DEF KqInv, KqTypes
<1>5. c \in Change /\ new \in KqContents
  BY <1>2, <1>3, <1>4 DEF Change, KqContents
<1>6. new.fd = w[1] /\ new.asked = w[2] /\ new.index = n + 1 /\ c.udata = p
  OBVIOUS
<1> HIDE DEF n, c
<1>7. /\ changes' \in Seq(Change) /\ DOMAIN changes' = 1 .. (n + 1) /\ changes'[n + 1] = c
      /\ \A i \in 1 .. n : changes'[i] = changes[i]
  <2>1. /\ changes' \in Seq(Change) /\ Len(changes') = n + 1
        /\ \A i \in 1 .. n : changes'[i] = changes[i] /\ changes'[n + 1] = c
    BY <1>1, <1>4, <1>5, AppendProperties DEF n
  <2>2. changes'[n + 1] = c
    BY <1>1, <1>4, <1>5, AppendProperties DEF n
  <2>3. QED
    BY <1>4, <2>1, <2>2, LenProperties
<1> HIDE DEF new
<1>8. /\ kqpoll' \in [KqRecords -> KqContents \cup {NoPoll}]
      /\ kqpoll'[p] = new /\ \A q \in InUse : kqpoll'[q] = kqpoll[q] /\ q # p
  <2>1. InUse \subseteq KqRecords
    BY DEF InUse, KqRecords
  <2>2. QED
    BY <1>1, <1>3, <1>5, <2>1 DEF KqInv, KqTypes
<1>9. <<kqpoll'[p].fd, kqpoll'[p].asked>> = w /\ \A q \in InUse : Pair(q)' = Pair(q)
  BY <1>2, <1>6, <1>8 DEF Pair
<1>10. KqTypes'
  <2>1. ASSUME NEW q \in InUse' PROVE kqpoll'[q] \in KqContents /\ Pair(q)' \in KqUses
    <3>1. CASE q = p
      BY <1>5, <1>8, <1>9, <3>1 DEF Pair
    <3>2. CASE q \in InUse
      BY <1>8, <1>9, <3>2 DEF KqInv, KqTypes
    <3>3. QED
      BY <1>3, <3>1, <3>2
  <2>2. QED
    BY <1>1, <1>3, <1>7, <1>8, <2>1 DEF KqInv, KqTypes
<1>11. ChangesAgree'
  <2>1. ASSUME NEW q \in InUse'
        PROVE  /\ kqpoll'[q].index \in DOMAIN changes'
               /\ changes'[kqpoll'[q].index] = [fd |-> kqpoll'[q].fd, filter |-> kqpoll'[q].asked, udata |-> q]
    <3>1. CASE q = p
      BY <1>4, <1>6, <1>7, <1>8, <3>1 DEF c
    <3>2. CASE q \in InUse
      <4>1. /\ kqpoll[q].index \in 1 .. n
            /\ changes[kqpoll[q].index] = [fd |-> kqpoll[q].fd, filter |-> kqpoll[q].asked, udata |-> q]
        BY <1>4, <3>2 DEF KqInv, ChangesAgree
      <4>2. kqpoll'[q] = kqpoll[q] /\ kqpoll[q].index \in 1 .. (n + 1)
        BY <1>4, <1>8, <3>2, <4>1
      <4>3. QED
        BY <1>7, <4>1, <4>2
    <3>3. QED
      BY <1>3, <3>1, <3>2
  <2>2. ASSUME NEW i \in DOMAIN changes'
        PROVE  changes'[i].udata \in InUse' /\ kqpoll'[changes'[i].udata].index = i
    <3>1. CASE i = n + 1
      BY <1>3, <1>6, <1>7, <1>8, <3>1
    <3>2. CASE i \in 1 .. n
      BY <1>3, <1>4, <1>7, <1>8, <3>2 DEF KqInv, ChangesAgree
    <3>3. QED
      BY <1>4, <1>7, <3>1, <3>2
  <2>3. QED
    BY <2>1, <2>2 DEF ChangesAgree
<1>12. KnotesAgree'
  BY <1>1, <1>3, <1>9 DEF KqInv, KnotesAgree
<1>13. EventsAreCurrent'
  BY <1>1, <1>3, <1>9 DEF KqInv, EventsAreCurrent, EventPair
<1>14. QED
  BY <1>10, <1>11, <1>12, <1>13 DEF KqInv

\* The last change in the place of one that is dropped.
LEMMA ChangeDropped ==
  ASSUME NEW S, NEW s \in Seq(S), NEW hole \in 1 .. Len(s)
  PROVE  LET t == Front([s EXCEPT ![hole] = Last(s)])
         IN  /\ t \in Seq(S) /\ Len(t) = Len(s) - 1 /\ DOMAIN t = 1 .. (Len(s) - 1)
             /\ \A i \in 1 .. (Len(s) - 1) : t[i] = IF i = hole THEN s[Len(s)] ELSE s[i]
<1> DEFINE n == Len(s)
           u == [s EXCEPT ![hole] = s[n]]
           t == SubSeq(u, 1, n - 1)
<1>1. n \in Nat /\ DOMAIN s = 1 .. n /\ s \in [1 .. n -> S] /\ n \in 1 .. n
  BY LenProperties, SeqDef
<1>2. u \in [1 .. n -> S] /\ \A i \in 1 .. n : u[i] = IF i = hole THEN s[n] ELSE s[i]
  BY <1>1
<1> HIDE DEF u
<1>3. u \in Seq(S) /\ Len(u) = n
  <2>1. u \in Seq(S)
    BY <1>1, <1>2, SeqDef
  <2>2. QED
    BY <1>1, <1>2, <2>1, LenProperties
<1>4. Front([s EXCEPT ![hole] = Last(s)]) = t
  BY <1>3 DEF Front, Last, u
<1>5. t \in Seq(S) /\ Len(t) = n - 1 /\ \A i \in 1 .. (n - 1) : t[i] = u[i]
  BY <1>1, <1>3, SubSeqProperties
<1> HIDE DEF t, n
<1>6. DOMAIN t = 1 .. (n - 1)
  BY <1>5, LenProperties
<1>7. \A i \in 1 .. (n - 1) : t[i] = IF i = hole THEN s[n] ELSE s[i]
  BY <1>1, <1>2, <1>5
<1>8. QED
  BY <1>4, <1>5, <1>6, <1>7 DEF n

\* kqueue_remove.
LEMMA KqRemoveKeepsInv ==
  ASSUME KqInv, NEW p \in InUse, KqRemove(p)
  PROVE  KqInv'
<1> DEFINE hole == kqpoll[p].index
           n == Len(changes)
           mover == Last(changes).udata
           told == [kqpoll EXCEPT ![mover].index = hole]
<1>1. /\ kqpc \in {"app", "handler"}
      /\ changes' = Front([changes EXCEPT ![hole] = Last(changes)])
      /\ kqpoll' = IF kqpc = "app" THEN [told EXCEPT ![p] = NoPoll] ELSE told
      /\ kqfree' = Append(kqfree, p)
      /\ left' = left \cup ({Pair(p)} \cap DOMAIN knotes)
      /\ orphans' = orphans \cup {EventPair(i) : i \in {j \in DOMAIN events : events[j].udata = p}}
      /\ UNCHANGED <<knotes, kqpc, events, kqcall>>
  BY DEF KqRemove, Remembered, Working
<1>2. /\ changes \in Seq(Change) /\ n \in Nat /\ DOMAIN changes = 1 .. n
      /\ hole \in 1 .. n /\ Last(changes) = changes[n] /\ n \in 1 .. n
  <2>1. changes \in Seq(Change) /\ n \in Nat /\ DOMAIN changes = 1 .. n
    BY LenProperties DEF KqInv, KqTypes
  <2>2. hole \in 1 .. n
    BY <2>1 DEF KqInv, ChangesAgree
  <2>3. QED
    BY <2>1, <2>2 DEF Last
<1> HIDE DEF n
<1>3. /\ mover \in InUse /\ kqpoll[mover].index = n /\ InUse \subseteq KqRecords
      /\ changes[hole].udata = p
  <2>1. mover \in InUse /\ kqpoll[mover].index = n
    BY <1>2 DEF KqInv, ChangesAgree
  <2>2. changes[hole] = [fd |-> kqpoll[p].fd, filter |-> kqpoll[p].asked, udata |-> p]
    BY DEF KqInv, ChangesAgree
  <2>3. QED
    BY <2>1, <2>2 DEF InUse, KqRecords
<1>4. /\ changes' \in Seq(Change) /\ DOMAIN changes' = 1 .. (n - 1)
      /\ \A i \in 1 .. (n - 1) : changes'[i] = IF i = hole THEN changes[n] ELSE changes[i]
  <2>1. Len(changes) = n
    BY DEF n
  <2>2. QED
    BY <1>1, <1>2, <2>1, ChangeDropped
<1>5. /\ kqfree' \in Seq(KqRecords) /\ IsInjective(kqfree') /\ InUse' = InUse \ {p}
  <2>1. kqfree \in Seq(KqRecords) /\ IsInjective(kqfree) /\ p \in KqRecords /\ p \notin ToSet(kqfree)
    BY <1>3 DEF KqInv, KqTypes, InUse
  <2>2. /\ kqfree' \in Seq(KqRecords) /\ IsInjective(kqfree') /\ ToSet(kqfree') = ToSet(kqfree) \cup {p}
    BY <1>1, <2>1, InjectiveAppend
  <2>3. QED
    BY <2>2 DEF InUse
<1>6. /\ kqpoll \in [KqRecords -> KqContents \cup {NoPoll}]
      /\ \A q \in InUse : kqpoll[q] \in KqContents /\ Pair(q) \in KqUses
  BY DEF KqInv, KqTypes
<1> HIDE DEF mover
<1>7. /\ told \in [KqRecords -> KqContents \cup {NoPoll}]
      /\ \A q \in InUse : /\ told[q] \in KqContents /\ told[q].fd = kqpoll[q].fd
                          /\ told[q].asked = kqpoll[q].asked
                          /\ told[q].index = IF q = mover THEN hole ELSE kqpoll[q].index
  <2> DEFINE moved == [kqpoll[mover] EXCEPT !.index = hole]
  <2>1. kqpoll[mover] \in KqContents /\ hole \in Nat
    BY <1>2, <1>3, <1>6
  <2>2. /\ moved \in KqContents /\ moved.fd = kqpoll[mover].fd /\ moved.asked = kqpoll[mover].asked
        /\ moved.index = hole
    BY <2>1 DEF KqContents
  <2>3. told = [kqpoll EXCEPT ![mover] = moved]
    OBVIOUS
  <2> HIDE DEF moved, told, hole
  <2>4. /\ told \in [KqRecords -> KqContents \cup {NoPoll}]
        /\ told[mover] = moved /\ \A q \in KqRecords \ {mover} : told[q] = kqpoll[q]
    BY <1>3, <1>6, <2>2, <2>3
  <2>5. QED
    BY <1>3, <1>6, <2>2, <2>4
<1> HIDE DEF told, hole
<1>8. /\ kqpoll' \in [KqRecords -> KqContents \cup {NoPoll}]
      /\ \A q \in InUse \ {p} :
           /\ kqpoll'[q] \in KqContents
           /\ kqpoll'[q].fd = kqpoll[q].fd /\ kqpoll'[q].asked = kqpoll[q].asked
           /\ kqpoll'[q].index = IF q = mover THEN hole ELSE kqpoll[q].index
           /\ Pair(q)' = Pair(q)
  <2>1. /\ kqpoll' \in [KqRecords -> KqContents \cup {NoPoll}]
        /\ \A q \in InUse \ {p} : kqpoll'[q] = told[q]
    BY <1>1, <1>3, <1>7
  <2>2. QED
    BY <1>7, <2>1 DEF Pair
<1>10. KqTypes'
  <2>1. \A q \in InUse' : kqpoll'[q] \in KqContents /\ Pair(q)' \in KqUses
    BY <1>5, <1>6, <1>8
  <2>2. QED
    BY <1>1, <1>4, <1>5, <1>8, <2>1 DEF KqInv, KqTypes
<1>11. \A q \in InUse : /\ kqpoll[q].index \in 1 .. n
                         /\ changes[kqpoll[q].index].udata = q
                         /\ changes[kqpoll[q].index] = [fd |-> kqpoll[q].fd, filter |-> kqpoll[q].asked, udata |-> q]
  BY <1>2 DEF KqInv, ChangesAgree
<1>12. kqpoll[p].index = hole
  BY DEF hole
<1>13. ChangesAgree'
  <2>1. ASSUME NEW q \in InUse \ {p}
        PROVE  /\ kqpoll'[q].index \in DOMAIN changes'
               /\ changes'[kqpoll'[q].index] = changes[kqpoll[q].index]
    <3>1. CASE q = mover
      <4>1. kqpoll'[q].index = hole /\ kqpoll[q].index = n
        BY <1>3, <1>8, <3>1
      <4>2. hole # n
        BY <1>11, <1>12, <4>1
      <4>3. hole \in 1 .. (n - 1)
        BY <1>2, <4>2
      <4>4. QED
        BY <1>4, <4>1, <4>3
    <3>2. CASE q # mover
      <4>1. kqpoll'[q].index = kqpoll[q].index /\ kqpoll[q].index \in 1 .. n
        BY <1>8, <1>11, <3>2
      <4>2. kqpoll[q].index # hole /\ kqpoll[q].index # n
        <5>1. changes[kqpoll[q].index].udata = q
          BY <1>11
        <5>2. changes[n].udata = mover
          BY <1>3, <1>11
        <5>3. QED
          BY <1>3, <3>2, <5>1, <5>2
      <4>3. kqpoll[q].index \in 1 .. (n - 1)
        BY <1>2, <4>1, <4>2
      <4>4. QED
        BY <1>4, <4>1, <4>2, <4>3
    <3>3. QED
      BY <3>1, <3>2
  <2>2. ASSUME NEW i \in 1 .. (n - 1)
        PROVE  changes'[i].udata \in InUse \ {p} /\ kqpoll'[changes'[i].udata].index = i
    <3>1. i \in 1 .. n /\ i # n
      BY <1>2
    <3>2. CASE i = hole
      <4>1. changes'[i].udata = mover
        BY <1>2, <1>4, <3>2 DEF mover
      <4>2. mover # p
        BY <1>3, <1>12, <3>1, <3>2
      <4>3. QED
        BY <1>3, <1>8, <3>2, <4>1, <4>2
    <3>3. CASE i # hole
      <4>1. changes'[i].udata = changes[i].udata
        BY <1>4, <3>3
      <4>2. changes[i].udata \in InUse /\ kqpoll[changes[i].udata].index = i
        BY <1>2, <3>1 DEF KqInv, ChangesAgree
      <4>3. changes[i].udata # p /\ changes[i].udata # mover
        BY <1>3, <1>12, <3>1, <3>3, <4>2
      <4>4. QED
        BY <1>8, <4>1, <4>2, <4>3
    <3>4. QED
      BY <3>2, <3>3
  <2>3. \A q \in InUse' : /\ kqpoll'[q].index \in DOMAIN changes'
                          /\ changes'[kqpoll'[q].index] = [fd |-> kqpoll'[q].fd, filter |-> kqpoll'[q].asked, udata |-> q]
    BY <1>5, <1>8, <1>11, <2>1
  <2>4. QED
    BY <1>4, <1>5, <2>2, <2>3 DEF ChangesAgree
<1>14. KnotesAgree'
  <2>1. ASSUME NEW w \in DOMAIN knotes, w \notin left'
        PROVE  knotes[w] \in InUse \ {p} /\ Pair(knotes[w])' = w
    <3>1. knotes[w] \in InUse /\ Pair(knotes[w]) = w /\ w # Pair(p)
      BY <1>1, <2>1 DEF KqInv, KnotesAgree
    <3>2. knotes[w] # p /\ knotes' = knotes
      BY <1>1, <3>1
    <3>3. QED
      BY <1>8, <3>1, <3>2 DEF Pair
  <2>2. knotes' = knotes /\ kqpc' # "wait"
    BY <1>1
  <2>3. QED
    BY <1>5, <2>1, <2>2 DEF KnotesAgree, Pair
<1>15. EventsAreCurrent'
  <2>1. ASSUME NEW i \in DOMAIN events, kqpc = "handler", EventPair(i) \notin orphans'
        PROVE  events[i].udata \in InUse \ {p} /\ Pair(events[i].udata) = EventPair(i)
    <3>1. EventPair(i) \notin orphans /\ events[i].udata # p
      BY <1>1, <2>1
    <3>2. QED
      BY <2>1, <3>1 DEF KqInv, EventsAreCurrent
  <2>2. /\ events' = events /\ kqpc' = kqpc /\ kqpc # "walk"
        /\ \A i \in DOMAIN events : EventPair(i)' = EventPair(i)
    BY <1>1 DEF EventPair
  <2>3. ASSUME NEW i \in DOMAIN events, kqpc = "handler", EventPair(i)' \notin orphans'
        PROVE  events[i].udata \in InUse' /\ Pair(events[i].udata)' = EventPair(i)'
    BY <1>5, <1>8, <2>1, <2>2, <2>3
  <2>4. QED
    BY <2>2, <2>3 DEF EventsAreCurrent, Pair
<1>16. QED
  BY <1>10, <1>13, <1>14, <1>15 DEF KqInv

\* Steps that leave the records and the changes alone keep what is said of
\* them.
LEMMA RegistryKept ==
  ASSUME KqInv, UNCHANGED kqregistry
  PROVE  /\ InUse' = InUse /\ \A p \in InUse : Pair(p)' = Pair(p)
         /\ ChangesAgree'
<1>1. UNCHANGED <<kqfree, kqpoll, changes>>
  BY DEF kqregistry
<1>2. InUse' = InUse /\ \A p \in InUse : Pair(p)' = Pair(p)
  BY <1>1 DEF InUse, Pair
<1>3. ChangesAgree'
  BY <1>1, <1>2 DEF KqInv, ChangesAgree
<1>4. QED
  BY <1>2, <1>3

\* A descriptor without polls is closed.
LEMMA KqCloseKeepsInv ==
  ASSUME KqInv, NEW fd \in KqFds, KqClose(fd)
  PROVE  KqInv'
<1>1. /\ kqpc \in {"app", "handler"}
      /\ knotes' = [w \in {v \in DOMAIN knotes : v[1] # fd} |-> knotes[w]]
      /\ left' = {w \in left : w[1] # fd}
      /\ UNCHANGED <<kqfree, kqpoll, changes, kqregistry, kqpc, events, kqcall, orphans>>
  BY DEF KqClose, Working, kqregistry
<1>2. /\ InUse' = InUse /\ \A p \in InUse : Pair(p)' = Pair(p)
      /\ ChangesAgree'
  BY <1>1, RegistryKept
<1>3. KqTypes'
  BY <1>1, <1>2 DEF KqInv, KqTypes
<1>4. KnotesAgree'
  <2>1. ASSUME NEW w \in DOMAIN knotes', w \notin left'
        PROVE  knotes'[w] \in InUse /\ Pair(knotes'[w]) = w
    <3>1. w \in DOMAIN knotes /\ w \notin left /\ knotes'[w] = knotes[w]
      BY <1>1, <2>1
    <3>2. QED
      BY <3>1 DEF KqInv, KnotesAgree
  <2>2. ASSUME NEW w \in DOMAIN knotes', w \notin left'
        PROVE  (knotes[w] \in InUse /\ Pair(knotes[w]) = w)'
    BY <1>1, <1>2, <2>1, <2>2 DEF Pair
  <2>3. QED
    BY <1>1, <2>2 DEF KnotesAgree
<1>5. EventsAreCurrent'
  BY <1>1, <1>2 DEF KqInv, EventsAreCurrent, EventPair
<1>6. QED
  BY <1>2, <1>3, <1>4, <1>5 DEF KqInv

\* After kevent has made the changes the kernel watches what the polls in use
\* ask for, and what it was left with before.
LEMMA KqWaitKeepsInv ==
  ASSUME KqInv, KqWait
  PROVE  KqInv'
<1> DEFINE pairs == {PairAt(i) : i \in DOMAIN changes}
<1>1. /\ kqpc' = "wait" /\ left' = left \ pairs
      /\ knotes' = [w \in DOMAIN knotes \cup pairs |->
                      IF ChangesOf(w) = {} THEN knotes[w] ELSE changes[Max(ChangesOf(w))].udata]
      /\ UNCHANGED <<kqfree, kqpoll, changes, kqregistry, events, kqcall, orphans>>
  BY DEF KqWait, kqregistry
<1>2. /\ InUse' = InUse /\ \A p \in InUse : Pair(p)' = Pair(p)
      /\ ChangesAgree'
  BY <1>1, RegistryKept
<1>3. ASSUME NEW i \in DOMAIN changes
      PROVE  changes[i].udata \in InUse /\ PairAt(i) = Pair(changes[i].udata)
  <2>1. changes[i].udata \in InUse /\ kqpoll[changes[i].udata].index = i
    BY DEF KqInv, ChangesAgree
  <2>2. changes[i] = [fd |-> kqpoll[changes[i].udata].fd, filter |-> kqpoll[changes[i].udata].asked,
                      udata |-> changes[i].udata]
    BY <2>1 DEF KqInv, ChangesAgree
  <2>3. changes[i].fd = kqpoll[changes[i].udata].fd /\ changes[i].filter = kqpoll[changes[i].udata].asked
    BY <2>2
  <2>4. QED
    BY <2>1, <2>3 DEF PairAt, Pair
<1>4. ASSUME NEW p \in InUse PROVE Pair(p) \in pairs
  <2>1. /\ kqpoll[p].index \in DOMAIN changes
        /\ changes[kqpoll[p].index] = [fd |-> kqpoll[p].fd, filter |-> kqpoll[p].asked, udata |-> p]
    BY DEF KqInv, ChangesAgree
  <2>2. PairAt(kqpoll[p].index) = Pair(p)
    BY <2>1 DEF PairAt, Pair
  <2>3. QED
    BY <2>1, <2>2
<1>5. ASSUME NEW w \in DOMAIN knotes'
      PROVE  /\ w \in KqUses /\ knotes'[w] \in KqRecords
             /\ w \notin left' => knotes'[w] \in InUse /\ Pair(knotes'[w]) = w
  <2>1. CASE ChangesOf(w) = {}
    <3>1. w \in DOMAIN knotes /\ w \notin pairs /\ knotes'[w] = knotes[w]
      BY <1>1, <1>5, <2>1 DEF ChangesOf
    <3>2. w \notin left' => w \notin left
      BY <1>1, <3>1
    <3>3. w \in KqUses /\ knotes[w] \in KqRecords
      BY <3>1 DEF KqInv, KqTypes
    <3>4. w \notin left => knotes[w] \in InUse /\ Pair(knotes[w]) = w
      BY <3>1 DEF KqInv, KnotesAgree
    <3>5. QED
      BY <3>1, <3>2, <3>3, <3>4
  <2>2. CASE ChangesOf(w) # {}
    <3>1. changes \in Seq(Change)
      BY DEF KqInv, KqTypes
    <3>2. ChangesOf(w) \subseteq 1 .. Len(changes) /\ Len(changes) \in Nat
      BY <3>1, LenProperties DEF ChangesOf
    <3>3. IsFiniteSet(ChangesOf(w)) /\ ChangesOf(w) \subseteq Nat
      <4> DEFINE C == ChangesOf(w)
                 D == 1 .. Len(changes)
      <4>1. IsFiniteSet(D) /\ C \in SUBSET D /\ D \subseteq Nat
        BY <3>2, FS_Interval
      <4> HIDE DEF C, D
      <4>2. IsFiniteSet(C)
        BY <4>1, FS_Subset
      <4>3. QED
        BY <4>1, <4>2 DEF C
    <3>4. \E m \in ChangesOf(w) : \A k \in ChangesOf(w) : m >= k
      BY <2>2, <3>3, GreatestNumber
    <3>5. Max(ChangesOf(w)) \in ChangesOf(w)
      BY <3>4 DEF Max
    <3>6. PICK i \in DOMAIN changes : PairAt(i) = w /\ knotes'[w] = changes[i].udata
      BY <1>1, <1>5, <2>2, <3>5 DEF ChangesOf
    <3>7. knotes'[w] \in InUse /\ Pair(knotes'[w]) = w
      BY <1>3, <3>6
    <3>8. QED
      BY <3>7 DEF KqInv, KqTypes, InUse, KqRecords
  <2>3. QED
    BY <2>1, <2>2
<1>6. \A p \in InUse : Pair(p) \in DOMAIN knotes' /\ Pair(p) \notin left'
  BY <1>1, <1>4
<1>7. KnotesAgree'
  <2>1. ASSUME NEW w \in DOMAIN knotes', w \notin left'
        PROVE  (knotes[w] \in InUse /\ Pair(knotes[w]) = w)'
    BY <1>1, <1>2, <1>5, <2>1 DEF Pair
  <2>2. ASSUME NEW p \in InUse' PROVE (Pair(p) \in DOMAIN knotes \ left)'
    BY <1>2, <1>6
  <2>3. QED
    BY <2>1, <2>2 DEF KnotesAgree
<1>8. KqTypes'
  BY <1>1, <1>2, <1>5 DEF KqInv, KqTypes
<1>9. EventsAreCurrent'
  BY <1>1 DEF EventsAreCurrent
<1>10. QED
  BY <1>2, <1>7, <1>8, <1>9 DEF KqInv

\* kevent's answer is about polls in use and what the kernel was left with.
LEMMA KqReturnsKeepsInv ==
  ASSUME KqInv, KqReturns
  PROVE  KqInv'
<1>1. /\ kqpc = "wait" /\ kqpc' = "walk"
      /\ UNCHANGED <<kqfree, kqpoll, changes, kqregistry, knotes, kqcall, left>>
  BY DEF KqReturns, kqregistry
<1>2. /\ InUse' = InUse /\ \A p \in InUse : Pair(p)' = Pair(p)
      /\ ChangesAgree'
  BY <1>1, RegistryKept
<1>3. PICK ready \in SUBSET DOMAIN knotes : \E order \in SetToSeqs(ready) :
        /\ events' = [i \in DOMAIN order |-> [fd |-> order[i][1], filter |-> order[i][2], udata |-> knotes[order[i]]]]
        /\ orphans' = ready \cap left
  BY DEF KqReturns
<1>4. PICK order \in SetToSeqs(ready) :
        /\ events' = [i \in DOMAIN order |-> [fd |-> order[i][1], filter |-> order[i][2], udata |-> knotes[order[i]]]]
        /\ orphans' = ready \cap left
  BY <1>3
<1> DEFINE n == Cardinality(ready)
<1>5. n \in Nat
  <2>1. ready \in SUBSET KqUses
    BY DEF KqInv, KqTypes
  <2>2. QED
    BY <2>1, KqAssumption, FS_Subset, FS_CardinalityType
<1>6. order \in [1 .. n -> ready] /\ \A i, j \in 1 .. n : order[i] = order[j] => i = j
  BY <1>4 DEF SetToSeqs
<1> HIDE DEF n
<1>7. ASSUME NEW w \in ready
      PROVE  /\ w = <<w[1], w[2]>> /\ w[1] \in KqFds /\ w[2] \in KqDirections
             /\ knotes[w] \in KqRecords
             /\ w \in orphans' \/ (knotes[w] \in InUse /\ Pair(knotes[w]) = w)
  <2>1. w \in KqUses /\ w \in DOMAIN knotes /\ knotes[w] \in KqRecords
    BY DEF KqInv, KqTypes
  <2>2. w \in left => w \in orphans'
    BY <1>4
  <2>3. w \notin left => knotes[w] \in InUse /\ Pair(knotes[w]) = w
    BY <2>1 DEF KqInv, KnotesAgree
  <2>4. w = <<w[1], w[2]>> /\ w[1] \in KqFds /\ w[2] \in KqDirections
    BY <2>1, UsesArePairs
  <2>5. QED
    BY <2>1, <2>2, <2>3, <2>4
<1> DEFINE event(i) == [fd |-> order[i][1], filter |-> order[i][2], udata |-> knotes[order[i]]]
<1>9. \A i \in 1 .. n : event(i) \in Change
  <2>1. \A i \in 1 .. n : /\ order[i][1] \in KqFds /\ order[i][2] \in KqDirections
                          /\ knotes[order[i]] \in KqRecords
    BY <1>6, <1>7
  <2>2. QED
    BY <2>1 DEF Change
<1>10. \A i \in 1 .. n : event(i).fd = order[i][1] /\ event(i).filter = order[i][2] /\ event(i).udata = knotes[order[i]]
  OBVIOUS
<1>11. events' = [i \in 1 .. n |-> event(i)]
  BY <1>4, <1>6
<1> HIDE DEF event
<1>12. events' \in Seq(Change) /\ DOMAIN events' = 1 .. n /\ \A i \in 1 .. n : events'[i] = event(i)
  <2>1. events' \in [1 .. n -> Change]
    BY <1>9, <1>11
  <2>2. events' \in Seq(Change)
    BY <1>5, <2>1, SeqDef
  <2>3. QED
    BY <1>11, <2>1, <2>2
<1>13. EventsAreCurrent'
  <2>1. \A i \in 1 .. n : /\ events'[i].udata = knotes[order[i]] /\ order[i] \in ready
                          /\ events'[i].fd = order[i][1] /\ events'[i].filter = order[i][2]
    BY <1>6, <1>10, <1>12
  <2>2. ASSUME NEW i \in 1 .. n
        PROVE  /\ EventPair(i)' = order[i]
               /\ order[i] \in orphans' \/ (events'[i].udata \in InUse /\ Pair(events'[i].udata) = order[i])
    BY <1>7, <2>1 DEF EventPair
  <2>3. \A i \in 1 .. n : /\ EventPair(i)' = order[i]
                          /\ \/ order[i] \in orphans'
                             \/ /\ events'[i].udata \in InUse'
                                /\ <<kqpoll'[events'[i].udata].fd, kqpoll'[events'[i].udata].asked>> = order[i]
    BY <1>1, <1>2, <2>2 DEF Pair
  <2>4. QED
    BY <1>12, <2>3 DEF EventsAreCurrent, Pair
<1>14. KqTypes'
  BY <1>1, <1>2, <1>12 DEF KqInv, KqTypes
<1>15. KnotesAgree'
  <2>1. ASSUME NEW w \in DOMAIN knotes, w \notin left
        PROVE  (knotes[w] \in InUse /\ Pair(knotes[w]) = w)'
    BY <1>1, <1>2, <2>1 DEF KqInv, KnotesAgree, Pair
  <2>2. QED
    BY <1>1, <2>1 DEF KnotesAgree
<1>16. QED
  BY <1>2, <1>13, <1>14, <1>15 DEF KqInv

\* The walk's steps.
LEMMA KqWalkKeepsInv ==
  ASSUME KqInv, KqWalk \/ KqHandled
  PROVE  KqInv'
<1>1. /\ kqpc \in {"walk", "handler"}
      /\ UNCHANGED <<kqfree, kqpoll, changes, kqregistry, knotes, left, orphans>>
  BY DEF KqWalk, KqHandled, kqregistry, kqhistory
<1>2. /\ InUse' = InUse /\ \A p \in InUse : Pair(p)' = Pair(p)
      /\ ChangesAgree'
  BY <1>1, RegistryKept
<1>3. events \in Seq(Change) /\ Len(events) \in Nat /\ DOMAIN events = 1 .. Len(events)
  BY LenProperties DEF KqInv, KqTypes
<1>4. KnotesAgree'
  <2>1. ASSUME NEW w \in DOMAIN knotes, w \notin left
        PROVE  (knotes[w] \in InUse /\ Pair(knotes[w]) = w)'
    BY <1>1, <1>2, <2>1 DEF KqInv, KnotesAgree, Pair
  <2>2. QED
    BY <1>1, <2>1 DEF KnotesAgree, KqWalk, KqHandled
<1>5. CASE KqWalk
  <2>1. /\ kqpc = "walk" /\ kqpc' = "handler" /\ events # << >>
        /\ kqcall' = Head(events) /\ events' = Tail(events)
    BY <1>5 DEF KqWalk
  <2>2. Len(events) # 0 /\ Head(events) = events[1]
    BY <1>3, <2>1, EmptySeq, HeadTailProperties
  <2>3. /\ events' \in Seq(Change) /\ Len(events') = Len(events) - 1
        /\ \A i \in 1 .. Len(events') : events'[i] = events[i + 1]
    BY <1>3, <2>1, HeadTailProperties
  <2>4. DOMAIN events' = 1 .. (Len(events) - 1)
    BY <2>3, LenProperties
  <2>5. \A i \in DOMAIN events' : i + 1 \in DOMAIN events /\ events'[i] = events[i + 1]
    BY <1>3, <2>2, <2>3, <2>4
  <2>6. ASSUME NEW i \in DOMAIN events'
        PROVE  EventPair(i)' \in orphans \/ (events'[i].udata \in InUse /\ Pair(events'[i].udata) = EventPair(i)')
    BY <2>1, <2>5 DEF KqInv, EventsAreCurrent, EventPair
  <2>7. EventsAreCurrent'
    BY <1>1, <1>2, <2>6 DEF EventsAreCurrent, Pair
  <2>8. KqTypes'
    BY <1>1, <1>2, <2>1, <2>3 DEF KqInv, KqTypes
  <2>9. QED
    BY <1>2, <1>4, <2>7, <2>8 DEF KqInv
<1>6. CASE KqHandled
  <2>1. kqpc = "handler" /\ kqpc' = "walk" /\ UNCHANGED events
    BY <1>6 DEF KqHandled
  <2>2. EventsAreCurrent'
    BY <1>1, <1>2, <2>1 DEF KqInv, EventsAreCurrent, EventPair
  <2>3. KqTypes'
    BY <1>1, <1>2, <2>1 DEF KqInv, KqTypes
  <2>4. QED
    BY <1>2, <1>4, <2>2, <2>3 DEF KqInv
<1>7. QED
  BY <1>5, <1>6

\* At the end of the walk the records of polls not in use are forgotten.
LEMMA KqWalkEndsKeepsInv ==
  ASSUME KqInv, KqWalkEnds
  PROVE  KqInv'
<1>1. /\ kqpc = "walk" /\ kqpc' = "app"
      /\ kqpoll' = [p \in DOMAIN kqpoll |-> IF p \in InUse THEN kqpoll[p] ELSE NoPoll]
      /\ UNCHANGED <<kqfree, changes, knotes, events, kqcall, left>>
  BY DEF KqWalkEnds
<1>2. kqpoll \in [KqRecords -> KqContents \cup {NoPoll}] /\ InUse \subseteq KqRecords /\ InUse' = InUse
  BY <1>1 DEF KqInv, KqTypes, InUse, KqRecords
<1>3. /\ kqpoll' \in [KqRecords -> KqContents \cup {NoPoll}]
      /\ \A p \in InUse : kqpoll'[p] = kqpoll[p]
  BY <1>1, <1>2
<1>4. \A p \in InUse : Pair(p)' = Pair(p)
  BY <1>3 DEF Pair
<1>5. KqTypes'
  BY <1>1, <1>2, <1>3, <1>4 DEF KqInv, KqTypes
<1>6. ChangesAgree'
  BY <1>1, <1>2, <1>3 DEF KqInv, ChangesAgree
<1>7. KnotesAgree'
  <2>1. ASSUME NEW w \in DOMAIN knotes, w \notin left
        PROVE  (knotes[w] \in InUse /\ Pair(knotes[w]) = w)'
    <3>1. knotes[w] \in InUse /\ Pair(knotes[w]) = w /\ knotes' = knotes
      BY <1>1, <2>1 DEF KqInv, KnotesAgree
    <3>2. QED
      BY <1>2, <1>3, <3>1 DEF Pair
  <2>2. QED
    BY <1>1, <2>1 DEF KnotesAgree
<1>8. EventsAreCurrent'
  BY <1>1 DEF EventsAreCurrent
<1>9. QED
  BY <1>5, <1>6, <1>7, <1>8 DEF KqInv

\* kqueue_init.
LEMMA KqInvInit == KqInit => KqInv
<1> SUFFICES ASSUME KqInit PROVE KqInv
  OBVIOUS
<1>1. /\ kqfree = KqPolls /\ kqpoll = [p \in ToSet(KqPolls) |-> NoPoll]
      /\ changes = << >> /\ knotes = << >> /\ kqpc = "app" /\ events = << >>
  BY DEF KqInit
<1>2. InUse = {} /\ DOMAIN changes = {} /\ DOMAIN knotes = {}
  BY <1>1 DEF InUse
<1>3. << >> \in Seq(Change)
  BY EmptySeq
<1>4. KqTypes
  BY <1>1, <1>2, <1>3, KqAssumption DEF KqTypes, KqRecords
<1>5. ChangesAgree /\ KnotesAgree /\ EventsAreCurrent
  BY <1>1, <1>2 DEF ChangesAgree, KnotesAgree, EventsAreCurrent
<1>6. QED
  BY <1>4, <1>5 DEF KqInv

\* Every step keeps the invariant.
LEMMA KqInvStep == KqInv /\ [KqNext]_kqvars => KqInv'
<1> SUFFICES ASSUME KqInv, [KqNext]_kqvars PROVE KqInv'
  OBVIOUS
<1>1. CASE UNCHANGED kqvars
  <2>1. UNCHANGED <<kqfree, kqpoll, changes, kqregistry, knotes, kqpc, events, kqcall, left, orphans>>
    BY <1>1 DEF kqvars, kqregistry, kqhistory
  <2>2. InUse' = InUse
    BY <2>1 DEF InUse
  <2>3. QED
    BY <2>1, <2>2 DEF KqInv, KqTypes, ChangesAgree, KnotesAgree, EventsAreCurrent, Pair, EventPair
<1>2. QED
  BY <1>1, KqAddKeepsInv, KqRemoveKeepsInv, KqCloseKeepsInv, KqWaitKeepsInv, KqReturnsKeepsInv,
     KqWalkKeepsInv, KqWalkEndsKeepsInv DEF KqNext

\* Sets between which there is a one-to-one mapping onto have the same size.
LEMMA SameSize ==
  ASSUME NEW S, IsFiniteSet(S), NEW T, NEW f \in [S -> T],
         \A x, y \in S : f[x] = f[y] => x = y, \A t \in T : \E x \in S : f[x] = t
  PROVE  Cardinality(T) = Cardinality(S)
<1>1. f \in Surjection(S, T)
  BY DEF Surjection
<1>2. IsInjective(f)
  BY DEF IsInjective
<1>3. f \in Injection(S, T)
  BY <1>2 DEF Injection
<1>4. QED
  BY <1>1, <1>3, FS_Surjection

\* For any number of polls and descriptors, with the kqueue backend, whatever
\* is polled twice, removed without being closed, or removed by a handler: the
\* list of changes has one change for each poll in use, at the index that the
\* poll knows; in the wait the kernel watches what the polls in use ask for,
\* and of the rest only what a removed poll asked of a descriptor that is
\* still open; and an event is about a poll in use and what it asked, or about
\* such a remainder.
THEOREM KqueueIsSound == KqSpec => []KqueueSound
<1>1. ASSUME KqInv PROVE KqueueSound
  <2>1. InUse \subseteq KqRecords /\ IsFiniteSet(InUse)
    BY KqAssumption, ElementsAreFinite, FS_Subset DEF InUse, KqRecords
  <2>2. changes \in Seq(Change) /\ DOMAIN changes = 1 .. Len(changes) /\ Len(changes) \in Nat
    BY <1>1, LenProperties DEF KqInv, KqTypes
  <2>3. Len(changes) = Cardinality(InUse)
    <3> DEFINE f == [p \in InUse |-> kqpoll[p].index]
               D == DOMAIN changes
    <3>1. f \in [InUse -> D] /\ \A p \in InUse : f[p] = kqpoll[p].index
      BY <1>1 DEF KqInv, ChangesAgree
    <3>2. ASSUME NEW p \in InUse PROVE changes[f[p]].udata = p
      <4>1. changes[kqpoll[p].index] = [fd |-> kqpoll[p].fd, filter |-> kqpoll[p].asked, udata |-> p]
        BY <1>1 DEF KqInv, ChangesAgree
      <4>2. f[p] = kqpoll[p].index
        BY <3>1
      <4> HIDE DEF f
      <4>3. QED
        BY <4>1, <4>2
    <3>3. ASSUME NEW i \in D PROVE \E p \in InUse : f[p] = i
      BY <1>1, <3>1 DEF KqInv, ChangesAgree
    <3> HIDE DEF f, D
    <3>4. \A p, q \in InUse : f[p] = f[q] => p = q
      BY <3>2
    <3>5. Cardinality(D) = Cardinality(InUse)
      BY <2>1, <3>1, <3>3, <3>4, SameSize
    <3>6. Cardinality(D) = Len(changes)
      BY <2>2, FS_Interval DEF D
    <3>7. QED
      BY <3>5, <3>6
  <2>4. ASSUME kqpc = "wait"
        PROVE  /\ {Pair(p) : p \in InUse} = DOMAIN knotes \ left
               /\ \A w \in DOMAIN knotes \ left : knotes[w] \in InUse /\ Pair(knotes[w]) = w
    BY <1>1, <2>4 DEF KqInv, KnotesAgree
  <2>5. ASSUME kqpc = "walk", NEW i \in DOMAIN events
        PROVE  EventPair(i) \in orphans \/ (events[i].udata \in InUse /\ Pair(events[i].udata) = EventPair(i))
    BY <1>1, <2>5 DEF KqInv, EventsAreCurrent
  <2>6. \A p \in InUse :
          /\ kqpoll[p].index \in DOMAIN changes
          /\ changes[kqpoll[p].index] = [fd |-> kqpoll[p].fd, filter |-> kqpoll[p].asked, udata |-> p]
    BY <1>1 DEF KqInv, ChangesAgree
  <2>7. QED
    BY <2>3, <2>4, <2>5, <2>6 DEF KqueueSound
<1>2. QED
  BY <1>1, KqInvInit, KqInvStep, PTL DEF KqSpec
=============================================================================
