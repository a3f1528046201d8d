------------------------------ MODULE OgsPoll ------------------------------
(***************************************************************************)
(* src/core/ogs-poll.c with its epoll and select backends, and             *)
(* ogs-notify.c: one thread polls a set of descriptors and runs their      *)
(* handlers, other threads wake it with ogs_pollset_notify.                *)
(*                                                                         *)
(* The kernel answers a wait with a batch: epoll a list of record          *)
(* addresses, select two sets of descriptors, through which the walk goes  *)
(* along the linked list of the polls.  Handlers run during the walk, and  *)
(* may remove and add polls, those of the batch included: what the walk    *)
(* still reads then is what is left in the records.  ogs_pool_free does    *)
(* not clear a record and ogs_list_remove does not clear its links.        *)
(*                                                                         *)
(* The notification channel is a socket pair (configure.ac never defines   *)
(* HAVE_EVENTFD); `bytes' are those its reading end holds.                 *)
(***************************************************************************)
EXTENDS Integers, Sequences, FiniteSets, SequencesExt

CONSTANTS Backends,     \* the backends this build may have chosen
          Sockets,      \* the descriptors of the application's sockets
          Uses,         \* the directions each of them is used in
          NotifyFd,     \* notify.fd[0]
          Polls,        \* the records of pollset->pool
          NotifyPoll,   \* the record ogs_notify_init got
          MaxBytes,     \* what the socket pair can hold
          DrainSize,    \* what the drain handler reads at most
          NULL

Fds == Sockets \cup {NotifyFd}
Directions == {"in", "out"}    \* OGS_POLLIN, OGS_POLLOUT

ASSUME PollAssumption ==
  /\ Backends \subseteq {"epoll", "select"}
  /\ IsFiniteSet(Sockets) /\ Fds \subseteq Nat /\ NotifyFd \notin Sockets
  /\ Uses \in [Sockets -> SUBSET Directions]
  /\ IsFiniteSet(Polls) /\ NotifyPoll \in Polls /\ NULL \notin Polls
  /\ MaxBytes \in Nat \ {0} /\ DrainSize \in Nat \ {0}

VARIABLES backend,
          state,    \* the sockets: readable, writable, hung up
          bytes,
          free,     \* the free records, in the order of their reuse
          rec,      \* the records: fd, the direction asked for
          watch,    \* what the backend watches: pairs of fd and direction
          ptr,      \* epoll: the record registered with each fd
          list,     \* select: context->list
          link,     \* select: where the next pointer of a record that is not
                    \* in the list was left
          max_fd,   \* select: context->max_fd
          pc,       \* the thread is in the application, waits, walks the
                    \* batch, or is in a handler of the walk
          batch,    \* epoll: the rest of event_list; select: the work sets
          cursor,   \* select: the walk's place in the list
          call,     \* the handler that runs: its record and its `when'
          meddled,  \* history: a handler of this walk has removed another poll
          cut,      \* history: select's polls in use that are watched no more,
                    \* another poll of their descriptor having been removed
          late      \* history: polls that handlers of this walk added to select

registry == <<free, rec, watch, ptr, list, link, max_fd>>
walk == <<batch, cursor, call>>
history == <<meddled, cut, late>>
vars == <<backend, state, bytes, registry, pc, walk, history>>

PollRecords == [fd : Fds, asked : Directions]

Used == Polls \ ToSet(free)
Epoll == backend = "epoll"
Select == backend = "select"

\* ogs_pollset_create, which registers the notification channel.
Init == /\ backend \in Backends
        /\ state = [s \in Sockets |-> {}]
        /\ bytes = 0
        /\ free \in {SetToSeq(Polls \ {NotifyPoll})}
        /\ rec = [p \in Polls |-> IF p = NotifyPoll THEN [fd |-> NotifyFd, asked |-> "in"] ELSE NULL]
        /\ watch = {<<NotifyFd, "in">>}
        /\ ptr = [fd \in Fds |-> IF Epoll /\ fd = NotifyFd THEN NotifyPoll ELSE NULL]
        /\ list = IF Select THEN <<NotifyPoll>> ELSE << >>
        /\ link = [p \in Polls |-> NULL]
        /\ max_fd = IF Select THEN NotifyFd ELSE -1
        /\ pc = "app"
        /\ batch = IF Epoll THEN << >> ELSE {}
        /\ cursor = NULL
        /\ call = NULL
        /\ meddled = FALSE /\ cut = {} /\ late = {}

-----------------------------------------------------------------------------
(* The kernel                                                              *)

\* A hung-up socket is ready in both directions, whatever was asked.
Ready(fd) == IF fd = NotifyFd THEN IF bytes > 0 THEN {"in"} ELSE {}
             ELSE IF "hup" \in state[fd] THEN Directions ELSE state[fd]

Watched(fd) == {d \in Directions : <<fd, d>> \in watch}

\* epoll reports a hang-up even for a descriptor watched for nothing;
\* epoll_process turns it into both directions.
EpollEvents(fd) ==
  IF fd # NotifyFd /\ "hup" \in state[fd] THEN Directions ELSE Ready(fd) \cap Watched(fd)

EpollReady == {fd \in Fds : ptr[fd] # NULL /\ EpollEvents(fd) # {}}

\* select looks at the descriptors below nfds only.
SelectReady == {w \in watch : w[1] <= max_fd /\ w[2] \in Ready(w[1])}

\* A hang-up is for good.
Happens(s) == /\ "hup" \notin state[s]
              /\ \/ \E d \in Uses[s] \ state[s] : state' = [state EXCEPT ![s] = @ \cup {d}]
                 \/ state' = [state EXCEPT ![s] = {"hup"}]
              /\ UNCHANGED <<backend, bytes, registry, pc, walk, history>>

\* ogs_notify_pollset, by any thread; the send blocks while the pair is full.
Notify == /\ bytes < MaxBytes
          /\ bytes' = bytes + 1
          /\ UNCHANGED <<backend, state, registry, pc, walk, history>>

-----------------------------------------------------------------------------
(* ogs_pollset_add and ogs_pollset_remove                                  *)

PlaceOf(p) == CHOOSE i \in DOMAIN list : list[i] = p

\* The link of a node of the list, or what is left of it.
NextOf(p) == IF ~Contains(list, p) THEN link[p]
             ELSE IF PlaceOf(p) = Len(list) THEN NULL ELSE list[PlaceOf(p) + 1]

Filled(p, fd, d) == rec' = [rec EXCEPT ![p] = [fd |-> fd, asked |-> d]]

\* (seeded fault: every descriptor is watched for input)
EpollAddInput(p, fd, d) ==
  /\ ptr[fd] = NULL
  /\ Filled(p, fd, d)
  /\ watch' = watch \cup {<<fd, "in">>}
  /\ ptr' = [ptr EXCEPT ![fd] = p]
  /\ free' = Tail(free)

\* (seeded fault: the record of a refused descriptor does not go back)
EpollAddLeaks(p, fd, d) ==
  \/ /\ ptr[fd] = NULL
     /\ Filled(p, fd, d)
     /\ watch' = watch \cup {<<fd, d>>}
     /\ ptr' = [ptr EXCEPT ![fd] = p]
     /\ free' = Tail(free)
  \/ /\ ptr[fd] # NULL
     /\ Filled(p, fd, d)
     /\ free' = Tail(free)
     /\ UNCHANGED <<watch, ptr>>

\* epoll_ctl refuses a descriptor it already has; the record goes back.
EpollAdd(p, fd, d) ==
  \/ /\ ptr[fd] = NULL
     /\ Filled(p, fd, d)
     /\ watch' = watch \cup {<<fd, d>>}
     /\ ptr' = [ptr EXCEPT ![fd] = p]
     /\ free' = Tail(free)
  \/ /\ ptr[fd] # NULL
     /\ IF pc = "app" THEN UNCHANGED rec ELSE Filled(p, fd, d)
     /\ free' = Append(Tail(free), p)
     /\ UNCHANGED <<watch, ptr>>

\* A descriptor may have several polls, in one direction or in both.
SelectAdd(p, fd, d) ==
  /\ Filled(p, fd, d)
  /\ watch' = watch \cup {<<fd, d>>}
  /\ list' = Append(list, p)
  /\ max_fd' = IF fd > max_fd THEN fd ELSE max_fd
  /\ free' = Tail(free)
  /\ cut' = {q \in cut : rec[q] # [fd |-> fd, asked |-> d]}
  /\ late' = IF pc = "handler" THEN late \cup {p} ELSE late
  /\ UNCHANGED meddled

\* The assertion on the pool's answer ends the process.
PollAdd(fd, d) ==
  /\ free # << >>
  /\ \/ Epoll /\ EpollAdd(Head(free), fd, d) /\ UNCHANGED <<list, max_fd, history>>
     \/ Select /\ SelectAdd(Head(free), fd, d) /\ UNCHANGED ptr
  /\ UNCHANGED link

\* The other polls in use of a poll's descriptor.
Sharing(p) == {q \in Used \ {p} : rec[q].fd = rec[p].fd}

\* (seeded fault: the kernel keeps the registration)
EpollRemoveNothing(p) == UNCHANGED <<watch, ptr, list, link, max_fd, cut, late>>

EpollRemove(p) == /\ watch' = {w \in watch : w[1] # rec[p].fd}
                  /\ ptr' = [ptr EXCEPT ![rec[p].fd] = NULL]
                  /\ UNCHANGED <<list, link, max_fd, cut, late>>

\* (seeded fault: max_fd is not reset)
SelectRemoveKeepsMax(p) == /\ watch' = {w \in watch : w[1] # rec[p].fd}
                           /\ link' = [link EXCEPT ![p] = IF pc = "app" THEN NULL ELSE NextOf(p)]
                           /\ list' = RemoveAt(list, PlaceOf(p))
                           /\ cut' = (cut \ {p}) \cup Sharing(p)
                           /\ late' = late \ {p}
                           /\ UNCHANGED <<ptr, max_fd>>

\* Both sets lose the descriptor, whatever the direction of the poll and
\* whoever else polls it.
SelectRemove(p) == /\ watch' = {w \in watch : w[1] # rec[p].fd}
                   /\ link' = [link EXCEPT ![p] = IF pc = "app" THEN NULL ELSE NextOf(p)]
                   /\ list' = RemoveAt(list, PlaceOf(p))
                   /\ max_fd' = IF max_fd = rec[p].fd THEN -1 ELSE max_fd
                   /\ cut' = (cut \ {p}) \cup Sharing(p)
                   /\ late' = late \ {p}
                   /\ UNCHANGED ptr

PollRemove(p) ==
  /\ \/ Epoll /\ EpollRemove(p)
     \/ Select /\ SelectRemove(p)
  /\ free' = Append(free, p)
  /\ meddled' = (meddled \/ (pc = "handler" /\ p # call.poll))
  /\ rec' = IF pc = "app" THEN [rec EXCEPT ![p] = NULL] ELSE rec

InDrain == pc = "handler" /\ rec[call.poll].fd = NotifyFd

\* What the application and its handlers do with the pollset and sockets.
Operation ==
  /\ pc = "app" \/ (pc = "handler" /\ ~InDrain)
  /\ \/ /\ \/ \E s \in Sockets : \E d \in Uses[s] : PollAdd(s, d)
           \/ \E p \in Used \ {NotifyPoll} : PollRemove(p)
        /\ UNCHANGED state
     \* recv and send until they would block; closing a socket that has no
     \* poll and opening another one, which gets its number
     \/ /\ \E s \in Sockets : \/ \E d \in state[s] \cap Directions : state' = [state EXCEPT ![s] = @ \ {d}]
                              \/ /\ \A p \in Used : rec[p].fd # s
                                 /\ state' = [state EXCEPT ![s] = {}]
        /\ UNCHANGED <<registry, history>>
  /\ UNCHANGED <<backend, bytes, pc, walk>>

-----------------------------------------------------------------------------
(* ogs_pollset_poll                                                        *)

Highest == IF list = << >> THEN -1 ELSE Max({rec[list[i]].fd : i \in DOMAIN list})

Poll == /\ pc = "app"
        /\ pc' = "wait"
        /\ max_fd' = IF Select /\ max_fd = -1 THEN Highest ELSE max_fd
        /\ UNCHANGED <<backend, state, bytes, free, rec, watch, ptr, list, link, walk, history>>

Nothing == IF Epoll THEN EpollReady = {} ELSE SelectReady = {}

\* OGS_TIMEUP, or OGS_ERROR after a signal, which an endless wait may get too.
WaitEnds == /\ pc = "wait" /\ Nothing
            /\ pc' = "app"
            /\ UNCHANGED <<backend, state, bytes, registry, walk, history>>

EpollReturns ==
  /\ pc = "wait" /\ Epoll /\ ~Nothing
  /\ \E order \in SetToSeqs(EpollReady) :
       batch' = [i \in DOMAIN order |-> [poll |-> ptr[order[i]], when |-> EpollEvents(order[i])]]
  /\ pc' = "walk"
  /\ UNCHANGED <<backend, state, bytes, registry, cursor, call, history>>

SelectReturns == /\ pc = "wait" /\ Select /\ ~Nothing
                 /\ batch' = SelectReady
                 /\ cursor' = Head(list)
                 /\ pc' = "walk"
                 /\ UNCHANGED <<backend, state, bytes, registry, call, history>>

\* The record's handler is called, whoever the record belongs to now.
Call(p, when) == /\ call' = [poll |-> p, when |-> when]
                 /\ pc' = "handler"

\* (seeded fault: only the first event of the batch is served)
EpollWalkFirst == /\ pc = "walk" /\ Epoll /\ batch # << >>
                  /\ Call(Head(batch).poll, Head(batch).when)
                  /\ batch' = << >>
                  /\ UNCHANGED <<backend, state, bytes, registry, cursor, history>>

EpollWalk == /\ pc = "walk" /\ Epoll /\ batch # << >>
             /\ Call(Head(batch).poll, Head(batch).when)
             /\ batch' = Tail(batch)
             /\ UNCHANGED <<backend, state, bytes, registry, cursor, history>>

Answered(p) == {d \in Directions : <<rec[p].fd, d>> \in batch}

\* (seeded fault: the handler is called without looking at `when')
SelectWalkAll == /\ pc = "walk" /\ Select /\ cursor # NULL
                 /\ Call(cursor, Answered(cursor))
                 /\ UNCHANGED cursor
                 /\ UNCHANGED <<backend, state, bytes, registry, batch, history>>

SelectWalk == /\ pc = "walk" /\ Select /\ cursor # NULL
              /\ \/ /\ Answered(cursor) = {}
                    /\ cursor' = NextOf(cursor)
                    /\ UNCHANGED <<pc, call>>
                 \/ /\ Answered(cursor) # {}
                    /\ Call(cursor, Answered(cursor))
                    /\ UNCHANGED cursor
              /\ UNCHANGED <<backend, state, bytes, registry, batch, history>>

\* From here on nobody reads a record that is not in use: the model forgets
\* what is left in it.
WalkEnds == /\ pc = "walk"
            /\ IF Epoll THEN batch = << >> ELSE cursor = NULL
            /\ pc' = "app"
            /\ batch' = IF Epoll THEN << >> ELSE {}
            /\ meddled' = FALSE /\ late' = {}
            /\ rec' = [p \in Polls |-> IF p \in Used THEN rec[p] ELSE NULL]
            /\ link' = [p \in Polls |-> NULL]
            /\ UNCHANGED <<backend, state, bytes, free, watch, ptr, list, max_fd, cursor, call, cut>>

\* The handler is back; the walk reads the link of the poll it served only
\* now.  ogs_drain_pollset reads what its buffer holds.
Return == /\ pc = "handler"
          /\ pc' = "walk"
          /\ bytes' = IF ~InDrain THEN bytes ELSE IF bytes > DrainSize THEN bytes - DrainSize ELSE 0
          /\ cursor' = IF Select THEN NextOf(cursor) ELSE cursor
          /\ call' = NULL
          /\ UNCHANGED <<backend, state, registry, batch, history>>

-----------------------------------------------------------------------------
Loop == Poll \/ EpollReturns \/ SelectReturns \/ EpollWalk \/ SelectWalk \/ WalkEnds \/ Return

Next == \/ \E s \in Sockets : Happens(s)
        \/ Notify
        \/ Operation
        \/ Loop
        \/ WaitEnds

Spec == Init /\ [][Next]_vars

\* The application polls again and again, its handlers return, and the
\* kernel ends a wait once something is ready.
FairSpec == Spec /\ WF_vars(Loop)

-----------------------------------------------------------------------------
(* Properties                                                              *)

Pending(p) == rec[p].asked \in Ready(rec[p].fd)

TypeOK ==
  /\ backend \in Backends /\ bytes \in 0 .. MaxBytes
  /\ state \in [Sockets -> SUBSET (Directions \cup {"hup"})]
  /\ free \in Seq(Polls \ {NotifyPoll}) /\ IsInjective(free)
  /\ rec \in [Polls -> PollRecords \cup {NULL}] /\ \A p \in Used : rec[p] \in PollRecords
  /\ watch \subseteq Fds \X Directions
  /\ ptr \in [Fds -> Polls \cup {NULL}]
  /\ list \in Seq(Polls) /\ link \in [Polls -> Polls \cup {NULL}] /\ max_fd \in Fds \cup {-1}
  /\ cursor \in Polls \cup {NULL}
  /\ pc \in {"app", "wait", "walk", "handler"}
  /\ meddled \in BOOLEAN /\ cut \subseteq Used /\ late \subseteq Used

\* The records in use are those the backend knows, each with its descriptor
\* and direction, through any sequence of additions, refusals and removals.
\* With select there are exceptions, and no others: the removal of a poll
\* takes the other polls of its descriptor out of the sets, until one with
\* the same direction is added.  Select's max_fd belongs to one of the
\* polls, or is to be found again.
PollsAreRegistered ==
  /\ watch = {<<rec[p].fd, rec[p].asked>> : p \in Used \ cut}
  /\ cut # {} => Select
  /\ Epoll => \A p \in Used : ptr[rec[p].fd] = p
  /\ Select => /\ ToSet(list) = Used /\ IsInjective(list)
               /\ max_fd = -1 \/ \E p \in Used : rec[p].fd = max_fd

\* The pollset's records and the backend's registrations agree.
PollSound == TypeOK /\ PollsAreRegistered

\* A thread asleep in the wait is about to be woken by every poll that has
\* something to do and is watched: the wait reports it.
ReadyIsSeen ==
  pc = "wait" => \A p \in Used \ cut : Pending(p) =>
                    IF Epoll THEN \E fd \in EpollReady : ptr[fd] = p
                    ELSE <<rec[p].fd, rec[p].asked>> \in SelectReady

\* (For the epoll backend; select's max_fd is a finding.)
EpollSeesReady == Epoll => ReadyIsSeen

\* With select the answer is about a descriptor and not about its polls: one
\* that was not asked about may be called for what another was.
Shared(p) == Select /\ (Sharing(p) # {} \/ p \in cut \/ p \in late)

\* Unless a handler of the same walk removed another poll, a handler is
\* called only for a poll in use, and for the direction it asked for.  With
\* select the second half has three exceptions: a poll whose descriptor has
\* other polls, one that has lost its registration because there were others,
\* and one that a handler of the same walk added.
CallsAreAskedFor ==
  [][pc = "walk" /\ pc' = "handler" =>
       \/ meddled
       \/ /\ call'.poll \in Used
          /\ rec[call'.poll].asked \in call'.when \/ Shared(call'.poll)]_vars

\* With epoll, a notification is heard: the drain handler runs, however the
\* application's handlers change the set meanwhile.
NotifyIsHeard == Epoll /\ bytes > 0 ~> pc = "handler" /\ call.poll = NotifyPoll
=============================================================================
