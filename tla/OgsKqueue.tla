------------------------------ MODULE OgsKqueue ------------------------------
(***************************************************************************)
(* src/core/ogs-kqueue.c under src/core/ogs-poll.c: the backend of the BSD *)
(* systems.  A list of changes, one for each poll, is handed to kevent on  *)
(* every wait; a poll that is removed leaves the list, but the kernel is   *)
(* never told (no EV_DELETE): it goes on watching for the record until the *)
(* descriptor is closed, or its direction is registered for another one.   *)
(*                                                                         *)
(* An index starts at 0 in the code and at 1 here.                         *)
(***************************************************************************)
EXTENDS Naturals, FiniteSets, SequencesExt

CONSTANTS KqUses,    \* the descriptors of the application, with the directions
                     \* it polls them in: a set of pairs
          KqPolls,   \* the records of pollset->pool, in order
          NoPoll

ASSUME KqAssumption ==
  /\ IsFiniteSet(KqUses) /\ \A w \in KqUses : w = <<w[1], w[2]>>
  /\ KqPolls \in Seq(ToSet(KqPolls)) /\ IsInjective(KqPolls)

VARIABLES kqfree,    \* the free records, in the order of their reuse
          kqpoll,    \* the records: fd, direction, place in the list of changes
          changes,   \* change_list, up to nchanges
          knotes,    \* what the kernel watches: <<fd, direction>> to a record
          kqpc,      \* "app", "wait", "walk" or "handler"
          events,    \* the rest of event_list
          kqcall,    \* the event whose handler runs
          left,      \* history: what the kernel still watches for removed
                     \* polls of open descriptors, until a wait registers it
          orphans    \* history: those this batch answers for a removed poll

kqregistry == <<kqfree, kqpoll, changes>>
kqhistory == <<left, orphans>>
kqvars == <<kqregistry, knotes, kqpc, events, kqcall, kqhistory>>

KqFds == {w[1] : w \in KqUses}
InUse == ToSet(KqPolls) \ ToSet(kqfree)

KqInit == /\ kqfree = KqPolls
          /\ kqpoll = [p \in ToSet(KqPolls) |-> NoPoll]
          /\ changes = <<>> /\ knotes = <<>>
          /\ kqpc = "app" /\ events = <<>> /\ kqcall = NoPoll
          /\ left = {} /\ orphans = {}

-----------------------------------------------------------------------------
\* What a poll asks of the kernel, and what an event tells of.
Pair(p) == <<kqpoll[p].fd, kqpoll[p].asked>>
EventPair(i) == <<events[i].fd, events[i].filter>>

Working == kqpc \in {"app", "handler"}

\* kqueue_add.
KqAdd(fd, d) ==
  LET p == Head(kqfree)
  IN  /\ Working /\ kqfree # <<>>
      /\ kqfree' = Tail(kqfree)
      /\ kqpoll' = [kqpoll EXCEPT ![p] = [fd |-> fd, asked |-> d, index |-> Len(changes) + 1]]
      /\ changes' = Append(changes, [fd |-> fd, filter |-> d, udata |-> p])
      /\ UNCHANGED <<knotes, kqpc, events, kqcall, kqhistory>>

\* What a removal means for the history.
Remembered(p) == /\ left' = left \cup ({Pair(p)} \cap DOMAIN knotes)
                 /\ orphans' = orphans \cup {EventPair(i) : i \in {j \in DOMAIN events : events[j].udata = p}}

\* (seeded fault: the change that is moved keeps its old index in its poll)
KqRemoveKeepsIndex(p) ==
  LET hole == kqpoll[p].index
      moved == Last(changes)
  IN  /\ Working
      /\ hole <= Len(changes)
      /\ changes' = Front([changes EXCEPT ![hole] = moved])
      /\ kqpoll' = IF kqpc = "app" THEN [kqpoll EXCEPT ![p] = NoPoll] ELSE kqpoll
      /\ kqfree' = Append(kqfree, p)
      /\ Remembered(p)
      /\ UNCHANGED <<knotes, kqpc, events, kqcall>>

\* kqueue_remove: the last change takes the place of the poll's, and its
\* record learns the place.  The record of the poll keeps its content while
\* the walk may still read it.
KqRemove(p) ==
  LET hole == kqpoll[p].index
      moved == Last(changes)
      told == [kqpoll EXCEPT ![moved.udata].index = hole]
  IN  /\ Working
      /\ hole <= Len(changes)
      /\ changes' = Front([changes EXCEPT ![hole] = moved])
      /\ kqpoll' = IF kqpc = "app" THEN [told EXCEPT ![p] = NoPoll] ELSE told
      /\ kqfree' = Append(kqfree, p)
      /\ Remembered(p)
      /\ UNCHANGED <<knotes, kqpc, events, kqcall>>

\* Closing a descriptor without polls; the kernel forgets it.
KqClose(fd) ==
  /\ Working
  /\ \A p \in InUse : kqpoll[p].fd # fd
  /\ knotes' = [w \in {v \in DOMAIN knotes : v[1] # fd} |-> knotes[w]]
  /\ left' = {w \in left : w[1] # fd}
  /\ UNCHANGED <<kqregistry, kqpc, events, kqcall, orphans>>

-----------------------------------------------------------------------------
(* kqueue_process                                                          *)

PairAt(i) == <<changes[i].fd, changes[i].filter>>
ChangesOf(w) == {i \in DOMAIN changes : PairAt(i) = w}

\* kevent makes the changes in their order, the last one of a pair standing,
\* and sleeps.
KqWait == /\ kqpc = "app"
          /\ knotes' = [w \in DOMAIN knotes \cup {PairAt(i) : i \in DOMAIN changes} |->
                          IF ChangesOf(w) = {} THEN knotes[w] ELSE changes[Max(ChangesOf(w))].udata]
          /\ kqpc' = "wait"
          /\ left' = left \ {PairAt(i) : i \in DOMAIN changes}
          /\ UNCHANGED <<kqregistry, events, kqcall, orphans>>

\* The wait ends with what is ready among the watched, in any order; with
\* nothing after a timeout, a signal, or kqueue_notify_pollset, whose user
\* event has no direction and is passed over.
KqReturns ==
  /\ kqpc = "wait"
  /\ \E ready \in SUBSET DOMAIN knotes : \E order \in SetToSeqs(ready) :
       /\ events' = [i \in DOMAIN order |-> [fd |-> order[i][1], filter |-> order[i][2],
                                             udata |-> knotes[order[i]]]]
       /\ orphans' = ready \cap left
  /\ kqpc' = "walk"
  /\ UNCHANGED <<kqregistry, knotes, kqcall, left>>

KqWalk == /\ kqpc = "walk" /\ events # <<>>
          /\ kqcall' = Head(events)
          /\ events' = Tail(events)
          /\ kqpc' = "handler"
          /\ UNCHANGED <<kqregistry, knotes, kqhistory>>

KqHandled == /\ kqpc = "handler"
             /\ kqpc' = "walk" /\ kqcall' = NoPoll
             /\ UNCHANGED <<kqregistry, knotes, events, kqhistory>>

KqWalkEnds == /\ kqpc = "walk" /\ events = <<>>
              /\ kqpc' = "app" /\ orphans' = {}
              /\ kqpoll' = [p \in DOMAIN kqpoll |-> IF p \in InUse THEN kqpoll[p] ELSE NoPoll]
              /\ UNCHANGED <<kqfree, changes, knotes, events, kqcall, left>>

KqNext == \/ \E fd \in KqFds : KqClose(fd)
          \/ \E w \in KqUses : KqAdd(w[1], w[2])
          \/ \E p \in InUse : KqRemove(p)
          \/ KqWait \/ KqReturns \/ KqWalk \/ KqHandled \/ KqWalkEnds

-----------------------------------------------------------------------------
(* Properties                                                              *)

\* Each poll in use finds its own change at its index, whatever was removed
\* before.  While the thread waits the kernel watches what the polls in use
\* ask for, each direction of a descriptor for one of its polls, and of the
\* rest only what a poll, since removed, asked of a descriptor that is still
\* open.  A handler is called for a poll in use and for what it asked, unless
\* the event tells of such a remainder, or its poll was removed by a handler
\* of the same walk.
KqueueSound ==
  /\ Len(changes) = Cardinality(InUse)
  /\ \A p \in InUse :
       /\ kqpoll[p].index \in DOMAIN changes
       /\ changes[kqpoll[p].index] = [fd |-> kqpoll[p].fd, filter |-> kqpoll[p].asked, udata |-> p]
  /\ kqpc = "wait" =>
       /\ {Pair(p) : p \in InUse} = DOMAIN knotes \ left
       /\ \A w \in DOMAIN knotes \ left : knotes[w] \in InUse /\ Pair(knotes[w]) = w
  /\ kqpc = "walk" =>
       \A i \in DOMAIN events :
         EventPair(i) \in orphans \/ (events[i].udata \in InUse /\ Pair(events[i].udata) = EventPair(i))
=============================================================================
