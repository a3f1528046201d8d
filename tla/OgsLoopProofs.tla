---------------------------- MODULE OgsLoopProofs ----------------------------
(***************************************************************************)
(* Theorems about the timers of src/core/ogs-timer.c and the loop that     *)
(* drives them, for any number of timers and any durations, and about the  *)
(* threads of ogs-thread.c, for any number of them and any deadline.       *)
(***************************************************************************)
EXTENDS OgsTimer, OgsThread, ProofLemmas

Entries == [timer : Timers, timeout : Nat]

\* A tree has an entry for each timer of runs, and one only.
HasEach(tr, runs) ==
  /\ \A t \in Timers : runs[t] <=> \E i \in 1 .. Len(tr) : tr[i].timer = t
  /\ \A i, j \in 1 .. Len(tr) : tr[i].timer = tr[j].timer => i = j

\* No entry is behind a later one.
Sorted(tr) == \A i, j \in 1 .. Len(tr) : i < j => tr[i].timeout <= tr[j].timeout

\* Only a walk has a list, and a callback is made for its first timer.
ListIsOfWalk == /\ phase \in {"app", "poll"} => expired = << >>
                /\ phase = "callback" => expired # << >>

\* How many timers of the list have been served.
Served == IF phase = "callback" THEN 1 ELSE 0

\* The first n entries of a tree are those of the timers after the first s of
\* a list, and due at time c.
Leads(n, s, l, tr, c) ==
  \A i \in 1 .. n : i <= Len(tr) /\ tr[i].timer = l[i + s] /\ tr[i].timeout <= c

\* As long as the callbacks leave them alone, the timers still to be served are
\* the first ones of the tree, and due.
ListLeadsTree ==
  ~touched /\ phase \in {"walk", "callback"} =>
    Leads(Len(expired) - Served, Served, expired, tree, now)

\* The inductive invariant.
TimerInv == TimerTypes /\ RunningIsInTree /\ Sorted(tree) /\ ListIsOfWalk /\ ListLeadsTree
              /\ PollWakesForFirstTimer
-----------------------------------------------------------------------------
(* The tree                                                                *)

\* A tree without the entry of a timer.
LEMMA WithoutIs ==
  ASSUME NEW t \in Timers, tree \in Seq(Entries), running \in [Timers -> BOOLEAN],
         HasEach(tree, running), Sorted(tree), running[t]
  PROVE  /\ Without(t) \in Seq(Entries)
         /\ Sorted(Without(t))
         /\ HasEach(Without(t), [running EXCEPT ![t] = FALSE])
         /\ \A n, s \in Nat : \A l : \A c \in Nat :
              Leads(n, s, l, tree, c) /\ (\A i \in 1 .. n : l[i + s] # t) => Leads(n, s, l, Without(t), c)
<1>1. Len(tree) \in Nat /\ DOMAIN tree = 1 .. Len(tree)
  BY LenProperties
<1>2. PICK k \in 1 .. Len(tree) : tree[k].timer = t /\ Without(t) = RemoveAt(tree, k)
  BY <1>1 DEF Without, HasEach
<1> DEFINE w == Without(t)
<1>3. /\ w \in Seq(Entries) /\ Len(w) = Len(tree) - 1
      /\ \A i \in 1 .. (Len(tree) - 1) : w[i] = IF i < k THEN tree[i] ELSE tree[i + 1]
  <2> DEFINE v == RemoveAt(tree, k)
  <2>1. /\ v \in Seq(Entries) /\ Len(v) = Len(tree) - 1
        /\ \A i \in 1 .. (Len(tree) - 1) : v[i] = IF i < k THEN tree[i] ELSE tree[i + 1]
    BY RemovedAt
  <2> HIDE DEF v
  <2>2. w = v
    BY <1>2 DEF v
  <2>3. QED
    BY <2>1, <2>2
<1> HIDE DEF w
<1> DEFINE At(i) == IF i < k THEN i ELSE i + 1
<1>4. \A i \in 1 .. Len(w) : At(i) \in 1 .. Len(tree) /\ w[i] = tree[At(i)]
  BY <1>1, <1>3
<1>5. \A i, j \in 1 .. Len(w) : (i < j => At(i) < At(j)) /\ (At(i) = At(j) => i = j)
  BY <1>1, <1>3
<1> HIDE DEF At
<1>6. \A i \in 1 .. Len(tree) : tree[i].timeout \in Nat /\ tree[i].timer \in Timers
  <2>1. \A i \in 1 .. Len(tree) : tree[i] \in Entries
    BY <1>1, ElementOfSeq
  <2>2. QED
    BY <2>1 DEF Entries
<1>7. Sorted(w)
  BY <1>4, <1>5, <1>6 DEF Sorted
<1>8. ASSUME NEW i \in 1 .. Len(w), NEW j \in 1 .. Len(w), w[i].timer = w[j].timer PROVE i = j
  <2>1. /\ At(i) \in 1 .. Len(tree) /\ At(j) \in 1 .. Len(tree)
        /\ tree[At(i)].timer = tree[At(j)].timer
    BY <1>4, <1>8
  <2>2. At(i) = At(j)
    BY <2>1 DEF HasEach
  <2>3. QED
    BY <1>5, <2>2
<1>9. ASSUME NEW r \in Timers
      PROVE  [running EXCEPT ![t] = FALSE][r] <=> \E i \in 1 .. Len(w) : w[i].timer = r
  <2>1. CASE r = t
    <3>1. ~[running EXCEPT ![t] = FALSE][r]
      BY <2>1
    <3>2. ASSUME NEW i \in 1 .. Len(w), w[i].timer = t PROVE FALSE
      <4>1. (IF i < k THEN i ELSE i + 1) = k
        BY <1>1, <1>2, <1>3, <3>2 DEF HasEach
      <4>2. QED
        BY <4>1
    <3>3. QED
      BY <2>1, <3>1, <3>2
  <2>2. CASE r # t
    <3>1. ASSUME NEW i \in 1 .. Len(tree), tree[i].timer = r
          PROVE  \E j \in 1 .. Len(w) : w[j].timer = r
      <4>1. i # k
        BY <1>2, <2>2, <3>1
      <4>2. CASE i < k
        <5>1. i \in 1 .. Len(w) /\ w[i] = tree[i]
          BY <1>1, <1>3, <4>2
        <5>2. QED
          BY <3>1, <5>1
      <4>3. CASE k < i
        <5>1. i - 1 \in 1 .. Len(w) /\ w[i - 1] = tree[i]
          BY <1>1, <1>3, <4>3
        <5>2. QED
          BY <3>1, <5>1
      <4>4. QED
        BY <4>1, <4>2, <4>3
    <3>2. ASSUME NEW i \in 1 .. Len(w), w[i].timer = r
          PROVE  \E j \in 1 .. Len(tree) : tree[j].timer = r
      BY <1>1, <1>3, <3>2
    <3>3. [running EXCEPT ![t] = FALSE][r] = running[r]
      BY <2>2
    <3>4. QED
      BY <3>1, <3>2, <3>3 DEF HasEach
  <2>3. QED
    BY <2>1, <2>2
<1>10. HasEach(w, [running EXCEPT ![t] = FALSE])
  BY <1>8, <1>9 DEF HasEach
<1>11. ASSUME NEW n \in Nat, NEW s \in Nat, NEW l, NEW c \in Nat, Leads(n, s, l, tree, c),
             \A i \in 1 .. n : l[i + s] # t
      PROVE  Leads(n, s, l, w, c)
  <2>1. ASSUME NEW i \in 1 .. n
        PROVE  i <= Len(w) /\ w[i].timer = l[i + s] /\ w[i].timeout <= c
    <3>1. i <= Len(tree) /\ tree[i].timer = l[i + s] /\ tree[i].timeout <= c
      BY <1>11 DEF Leads
    <3>2. ~(k <= i)
      <4>1. k <= i => k \in 1 .. n /\ tree[k].timer = l[k + s]
        BY <1>11 DEF Leads
      <4>2. QED
        BY <1>2, <1>11, <4>1
    <3>3. w[i] = tree[i] /\ i <= Len(w)
      BY <1>1, <1>3, <3>1, <3>2
    <3>4. QED
      BY <3>1, <3>3
  <2>2. QED
    BY <2>1 DEF Leads
<1>12. QED
  BY <1>3, <1>7, <1>10, <1>11 DEF w

\* A tree with one more entry.
LEMMA InsertedIs ==
  ASSUME NEW t \in Timers, NEW at \in Nat, NEW runs \in [Timers -> BOOLEAN], ~runs[t],
         NEW tr \in Seq(Entries), HasEach(tr, runs), Sorted(tr),
         NEW e, e = [timer |-> t, timeout |-> at]
  PROVE  /\ Inserted(tr, e) \in Seq(Entries)
         /\ Sorted(Inserted(tr, e))
         /\ HasEach(Inserted(tr, e), [runs EXCEPT ![t] = TRUE])
         /\ \A n, s \in Nat : \A l : \A c \in Nat :
              Leads(n, s, l, tr, c) /\ c < at => Leads(n, s, l, Inserted(tr, e), c)
<1> DEFINE early == {i \in DOMAIN tr : \A j \in 1 .. i : tr[j].timeout <= e.timeout}
           k == 1 + Cardinality(early)
           w == Inserted(tr, e)
           At(i) == IF i < k THEN i ELSE i + 1
<1>1. Len(tr) \in Nat /\ DOMAIN tr = 1 .. Len(tr)
  BY LenProperties
<1>2. e \in Entries /\ e.timer = t /\ e.timeout = at
  BY DEF Entries
<1>3. \A i \in 1 .. Len(tr) : tr[i].timeout \in Nat /\ tr[i].timer \in Timers
  <2>1. \A i \in 1 .. Len(tr) : tr[i] \in Entries
    BY <1>1, ElementOfSeq
  <2>2. QED
    BY <2>1 DEF Entries
<1>4. Cardinality(early) \in 0 .. Len(tr) /\ early = 1 .. Cardinality(early)
  <2>1. early \in SUBSET (1 .. Len(tr)) /\ \A i \in early : \A j \in 1 .. i : j \in early
    BY <1>1
  <2> HIDE DEF early
  <2>2. QED
    BY <1>1, <2>1, LeadingNumbers
<1>5. k \in 1 .. (Len(tr) + 1) /\ \A i \in 1 .. (k - 1) : i \in early
  <2> DEFINE m == Cardinality(early)
  <2>1. m \in 0 .. Len(tr) /\ early = 1 .. m /\ k = 1 + m
    BY <1>4
  <2> HIDE DEF early, m, k
  <2>2. QED
    BY <1>1, <2>1
<1>6. \A i \in 1 .. (k - 1) : i \in 1 .. Len(tr) /\ tr[i].timeout <= at
  BY <1>1, <1>2, <1>5
<1>7. ASSUME NEW i \in k .. Len(tr) PROVE at < tr[i].timeout
  <2>1. k \in 1 .. Len(tr) /\ k \notin early
    BY <1>1, <1>4, <1>5
  <2>2. PICK j \in 1 .. k : ~(tr[j].timeout <= at)
    BY <1>1, <1>2, <2>1
  <2>3. j = k
    BY <1>5, <1>6, <2>2
  <2>4. tr[k].timeout <= tr[i].timeout
    BY <1>1, <1>3, <1>5 DEF Sorted
  <2>5. QED
    BY <1>1, <1>3, <1>5, <2>1, <2>2, <2>3, <2>4
<1>8. w = InsertAt(tr, k, e)
  BY DEF Inserted
<1> HIDE DEF early, w, k
<1>9. /\ w \in Seq(Entries) /\ Len(w) = Len(tr) + 1 /\ w[k] = e
      /\ \A i \in 1 .. Len(tr) : w[At(i)] = tr[i]
  <2> DEFINE v == InsertAt(tr, k, e)
  <2>1. /\ v \in Seq(Entries) /\ Len(v) = Len(tr) + 1 /\ v[k] = e
        /\ \A i \in 1 .. Len(tr) : v[At(i)] = tr[i]
    BY <1>2, <1>5, InsertedAt
  <2> HIDE DEF v
  <2>2. QED
    BY <1>8, <2>1 DEF v
<1> DEFINE From(i) == IF i < k THEN i ELSE i - 1
<1>10. \A i \in 1 .. Len(w) : i # k => From(i) \in 1 .. Len(tr) /\ w[i] = tr[From(i)]
  <2>1. ASSUME NEW i \in 1 .. Len(w), i # k
        PROVE  From(i) \in 1 .. Len(tr) /\ At(From(i)) = i
    BY <1>1, <1>5, <1>9, <2>1
  <2>2. QED
    BY <1>9, <2>1
<1>11. \A i, j \in 1 .. Len(w) : i # k /\ j # k =>
          (i < j => From(i) < From(j)) /\ (From(i) = From(j) => i = j)
  BY <1>1, <1>5, <1>9
<1>12. \A i \in 1 .. Len(w) : (i < k => From(i) \in 1 .. (k - 1)) /\ (k < i => From(i) \in k .. Len(tr))
  BY <1>1, <1>5, <1>9
<1>13. \A i \in 1 .. Len(tr) : At(i) \in 1 .. Len(w)
  BY <1>1, <1>5, <1>9
<1>14. k \in 1 .. Len(w) /\ k \in Int /\ Len(w) \in Int
  BY <1>1, <1>5, <1>9
<1>15. \A i \in 1 .. Len(tr) : tr[i].timer # t
  BY DEF HasEach
<1>16. ASSUME NEW n \in Nat, NEW s \in Nat, NEW l, NEW c \in Nat, Leads(n, s, l, tr, c), c < at
       PROVE  Leads(n, s, l, w, c)
  <2>1. ASSUME NEW i \in 1 .. n
        PROVE  i <= Len(w) /\ w[i].timer = l[i + s] /\ w[i].timeout <= c
    <3>1. i <= Len(tr) /\ tr[i].timer = l[i + s] /\ tr[i].timeout <= c
      BY <1>16 DEF Leads
    <3>2. i \in 1 .. Len(tr) /\ ~(i \in k .. Len(tr))
      BY <1>1, <1>3, <1>7, <1>16, <3>1
    <3>3. At(i) = i
      BY <1>1, <1>14, <3>2
    <3>4. w[i] = tr[i] /\ i <= Len(w)
      BY <1>1, <1>9, <3>2, <3>3
    <3>5. QED
      BY <3>1, <3>4
  <2>2. QED
    BY <2>1 DEF Leads
<1> HIDE DEF From, At
<1>17. Sorted(w)
  <2>1. ASSUME NEW i \in 1 .. Len(w), NEW j \in 1 .. Len(w), i < j
        PROVE  w[i].timeout <= w[j].timeout
    <3>1. CASE i = k
      BY <1>2, <1>7, <1>9, <1>10, <1>12, <1>3, <2>1, <3>1
    <3>2. CASE j = k
      BY <1>2, <1>6, <1>9, <1>10, <1>12, <1>3, <2>1, <3>2
    <3>3. CASE i # k /\ j # k
      BY <1>10, <1>11, <2>1, <3>3 DEF Sorted
    <3>4. QED
      BY <3>1, <3>2, <3>3
  <2>2. QED
    BY <2>1 DEF Sorted
<1>18. HasEach(w, [runs EXCEPT ![t] = TRUE])
  <2>1. ASSUME NEW i \in 1 .. Len(w), NEW j \in 1 .. Len(w), w[i].timer = w[j].timer PROVE i = j
    <3>1. CASE i = k
      BY <1>2, <1>9, <1>10, <1>15, <2>1, <3>1
    <3>2. CASE j = k
      BY <1>2, <1>9, <1>10, <1>15, <2>1, <3>2
    <3>3. CASE i # k /\ j # k
      <4>1. /\ From(i) \in 1 .. Len(tr) /\ From(j) \in 1 .. Len(tr)
            /\ tr[From(i)].timer = tr[From(j)].timer
        BY <1>10, <2>1, <3>3
      <4>2. From(i) = From(j)
        BY <4>1 DEF HasEach
      <4>3. QED
        BY <1>11, <3>3, <4>2
    <3>4. QED
      BY <3>1, <3>2, <3>3
  <2>2. ASSUME NEW r \in Timers
        PROVE  [runs EXCEPT ![t] = TRUE][r] <=> \E i \in 1 .. Len(w) : w[i].timer = r
    <3>1. CASE r = t
      BY <1>2, <1>9, <1>14, <3>1
    <3>2. CASE r # t
      <4>1. runs[r] => \E i \in 1 .. Len(w) : w[i].timer = r
        BY <1>9, <1>13 DEF HasEach
      <4>2. ASSUME NEW i \in 1 .. Len(w), w[i].timer = r PROVE runs[r]
        <5>1. i # k
          BY <1>2, <1>9, <3>2, <4>2
        <5>2. From(i) \in 1 .. Len(tr) /\ tr[From(i)].timer = r
          BY <1>10, <4>2, <5>1
        <5>3. QED
          BY <5>2 DEF HasEach
      <4>3. [runs EXCEPT ![t] = TRUE][r] = runs[r]
        BY <3>2
      <4>4. QED
        BY <4>1, <4>2, <4>3
    <3>3. QED
      BY <3>1, <3>2
  <2>3. QED
    BY <2>1, <2>2 DEF HasEach
<1>19. QED
  BY <1>9, <1>16, <1>17, <1>18 DEF w

-----------------------------------------------------------------------------
(* The operations on one timer                                             *)

\* The tree and the records, in the terms of the lemmas above.
LEMMA RunningHasEach ==
  ASSUME tree \in Seq(Entries)
  PROVE  RunningIsInTree <=> HasEach(tree, running) /\ \A t \in Timers : running[t] => t \in UsedTimers
<1>1. DOMAIN tree = 1 .. Len(tree)
  BY LenProperties
<1>2. QED
  BY <1>1 DEF RunningIsInTree, HasEach, InTree

\* What RunningIsInTree says of the next state, in terms of HasEach.
LEMMA RunningHasEachNext ==
  ASSUME tree' \in Seq(Entries)
  PROVE  RunningIsInTree' <=> HasEach(tree', running') /\ \A t \in Timers : running'[t] => t \in UsedTimers'
<1>1. DOMAIN tree' = 1 .. Len(tree')
  BY LenProperties
<1>2. QED
  BY <1>1 DEF RunningIsInTree, HasEach, InTree

\* What the invariant says of the state, for use by name.
LEMMA InvSays ==
  ASSUME TimerInv
  PROVE  /\ now \in 0 .. MaxNow /\ now \in Nat
         /\ freeTimers \in Seq(Timers) /\ DOMAIN freeTimers = 1 .. Len(freeTimers) /\ Len(freeTimers) \in Nat
         /\ running \in [Timers -> BOOLEAN]
         /\ tree \in Seq(Entries) /\ Len(tree) \in Nat /\ DOMAIN tree = 1 .. Len(tree)
         /\ \A i \in 1 .. Len(tree) : tree[i].timer \in Timers /\ tree[i].timeout \in Nat
         /\ expired \in Seq(Timers) /\ Len(expired) \in Nat /\ DOMAIN expired = 1 .. Len(expired)
         /\ HasEach(tree, running) /\ Sorted(tree)
<1>1. /\ now \in 0 .. MaxNow /\ now \in Nat
      /\ freeTimers \in Seq(Timers) /\ running \in [Timers -> BOOLEAN]
      /\ tree \in Seq(Entries) /\ expired \in Seq(Timers) /\ Sorted(tree)
  BY TimerAssumption DEF TimerInv, TimerTypes, Entries
<1>2. HasEach(tree, running)
  BY <1>1, RunningHasEach DEF TimerInv
<1>3. \A i \in 1 .. Len(tree) : tree[i].timer \in Timers /\ tree[i].timeout \in Nat
  <2>1. \A i \in 1 .. Len(tree) : tree[i] \in Entries
    BY <1>1, ElementOfSeq
  <2>2. QED
    BY <2>1 DEF Entries
<1>4. /\ DOMAIN freeTimers = 1 .. Len(freeTimers) /\ Len(freeTimers) \in Nat
      /\ DOMAIN tree = 1 .. Len(tree) /\ Len(tree) \in Nat
      /\ DOMAIN expired = 1 .. Len(expired) /\ Len(expired) \in Nat
  BY <1>1, LenProperties
<1>5. QED
  BY <1>1, <1>2, <1>3, <1>4

\* Putting a node back at the end of the pool.
LEMMA PutBack ==
  ASSUME TimerInv, NEW t \in UsedTimers, freeTimers' = Append(freeTimers, t)
  PROVE  /\ freeTimers' \in Seq(Timers) /\ IsInjective(freeTimers')
         /\ UsedTimers' = UsedTimers \ {t}
<1>1. freeTimers \in Seq(Timers) /\ IsInjective(freeTimers) /\ t \in Timers /\ t \notin ToSet(freeTimers)
  BY DEF TimerInv, TimerTypes, UsedTimers
<1>2. /\ freeTimers' \in Seq(Timers) /\ IsInjective(freeTimers')
      /\ ToSet(freeTimers') = ToSet(freeTimers) \cup {t}
  BY <1>1, InjectiveAppend
<1>3. QED
  BY <1>2 DEF UsedTimers

\* A call that changes one timer, its entry and no other.
LEMMA OperationKeepsInv ==
  ASSUME TimerInv, phase \in {"app", "callback"}, NEW t \in UsedTimers,
         UNCHANGED <<now, expired, phase, wakeAt>>,
         \/ running' \in [Timers -> BOOLEAN] /\ UNCHANGED freeTimers
         \/ running' = [running EXCEPT ![t] = FALSE] /\ freeTimers' = Append(freeTimers, t),
         \A r \in Timers \ {t} : running'[r] = running[r],
         tree' \in Seq(Entries), Sorted(tree'), HasEach(tree', running'),
         touched' = (touched \/ (expired # << >> /\ t \in ToSet(Tail(expired)))),
         \A n, s \in Nat : \A l : Leads(n, s, l, tree, now) /\ (\A i \in 1 .. n : l[i + s] # t)
                                     => Leads(n, s, l, tree', now)
  PROVE  TimerInv'
<1>1. /\ running' \in [Timers -> BOOLEAN] /\ freeTimers' \in Seq(Timers) /\ IsInjective(freeTimers')
      /\ \A r \in Timers : running'[r] => r \in UsedTimers'
  <2>1. \A r \in Timers : running[r] => r \in UsedTimers
    BY InvSays, RunningHasEach DEF TimerInv
  <2>2. CASE running' \in [Timers -> BOOLEAN] /\ UNCHANGED freeTimers
    BY <2>1, <2>2 DEF UsedTimers, TimerInv, TimerTypes
  <2>3. CASE running' = [running EXCEPT ![t] = FALSE] /\ freeTimers' = Append(freeTimers, t)
    <3>1. t \in Timers
      BY DEF UsedTimers
    <3>2. running' \in [Timers -> BOOLEAN] /\ ~running'[t]
      BY <2>3, <3>1, InvSays
    <3>3. QED
      BY <2>1, <2>3, <3>2, PutBack
  <2>4. QED
    BY <2>2, <2>3
<1>2. TimerTypes'
  BY <1>1 DEF TimerInv, TimerTypes, Entries
<1>3. RunningIsInTree'
  BY <1>1, RunningHasEachNext
<1>4. ListIsOfWalk' /\ PollWakesForFirstTimer'
  BY DEF TimerInv, ListIsOfWalk, PollWakesForFirstTimer
<1>5. ListLeadsTree'
  <2>1. CASE touched' \/ phase = "app"
    BY <2>1 DEF ListLeadsTree
  <2>2. CASE ~touched' /\ phase = "callback"
    <3>1. /\ expired \in Seq(Timers) /\ expired # << >>
          /\ Len(expired) \in Nat /\ Len(expired) # 0
      BY <2>2, InvSays, EmptySeq DEF TimerInv, ListIsOfWalk
    <3>2. ASSUME NEW i \in 1 .. (Len(expired) - 1) PROVE expired[i + 1] # t
      <4>1. /\ Tail(expired) \in Seq(Timers) /\ Len(Tail(expired)) = Len(expired) - 1
            /\ \A j \in 1 .. Len(Tail(expired)) : Tail(expired)[j] = expired[j + 1]
        BY <3>1, HeadTailProperties
      <4>2. DOMAIN Tail(expired) = 1 .. (Len(expired) - 1)
        BY <4>1, LenProperties
      <4>3. expired[i + 1] \in ToSet(Tail(expired))
        BY <4>1, <4>2 DEF ToSet
      <4>4. QED
        BY <2>2, <3>1, <4>3
    <3>3. Leads(Len(expired) - 1, 1, expired, tree, now)
      BY <2>2 DEF TimerInv, ListLeadsTree, Served
    <3>4. Leads(Len(expired) - 1, 1, expired, tree', now)
      <4>1. Len(expired) - 1 \in Nat
        BY <3>1
      <4>2. QED
        BY <3>2, <3>3, <4>1
    <3>5. QED
      BY <2>2, <3>4 DEF ListLeadsTree, Served, Leads
  <2>3. QED
    BY <2>1, <2>2
<1>6. QED
  BY <1>2, <1>3, <1>4, <1>5 DEF TimerInv

\* What ogs_timer_stop leaves, of a running timer or not.
LEMMA StoppedLeaves ==
  ASSUME TimerInv, NEW t \in Timers, Stopped(t)
  PROVE  /\ running' = [running EXCEPT ![t] = FALSE] /\ running' \in [Timers -> BOOLEAN]
         /\ ~running'[t] /\ \A r \in Timers \ {t} : running'[r] = running[r]
         /\ tree' \in Seq(Entries) /\ Sorted(tree') /\ HasEach(tree', running')
         /\ \A n, s \in Nat : \A l : \A c \in Nat :
              Leads(n, s, l, tree, c) /\ (\A i \in 1 .. n : l[i + s] # t) => Leads(n, s, l, tree', c)
<1>1. /\ tree \in Seq(Entries) /\ running \in [Timers -> BOOLEAN]
      /\ HasEach(tree, running) /\ Sorted(tree)
  BY InvSays
<1>2. /\ running' = [running EXCEPT ![t] = FALSE] /\ running' \in [Timers -> BOOLEAN]
      /\ ~running'[t] /\ \A r \in Timers \ {t} : running'[r] = running[r]
  BY <1>1 DEF Stopped
<1>3. CASE running[t]
  <2>1. tree' = Without(t)
    BY <1>3 DEF Stopped
  <2>2. QED
    BY <1>1, <1>2, <1>3, <2>1, WithoutIs
<1>4. CASE ~running[t]
  <2>1. tree' = tree /\ running' = running
    BY <1>1, <1>4 DEF Stopped
  <2>2. QED
    BY <1>1, <1>2, <2>1
<1>5. QED
  BY <1>3, <1>4

\* ogs_timer_stop and ogs_timer_delete.
LEMMA StopKeepsInv ==
  ASSUME TimerInv, phase \in {"app", "callback"}, NEW t \in UsedTimers, Stop(t) \/ Delete(t),
         touched' = (touched \/ (expired # << >> /\ t \in ToSet(Tail(expired))))
  PROVE  TimerInv'
<1>1. Stopped(t) /\ UNCHANGED <<now, expired, phase, wakeAt>>
      /\ (UNCHANGED freeTimers \/ freeTimers' = Append(freeTimers, t))
  BY DEF Stop, Delete
<1>2. now \in Nat /\ t \in Timers
  BY InvSays DEF UsedTimers
<1>3. QED
  BY <1>1, <1>2, StoppedLeaves, OperationKeepsInv

\* ogs_timer_start, of a running timer or not.
LEMMA StartKeepsInv ==
  ASSUME TimerInv, phase \in {"app", "callback"}, NEW t \in UsedTimers, NEW d \in Durations,
         Start(t, d),
         touched' = (touched \/ (expired # << >> /\ t \in ToSet(Tail(expired))))
  PROVE  TimerInv'
<1> DEFINE tr == IF running[t] THEN Without(t) ELSE tree
           runs == [running EXCEPT ![t] = FALSE]
           e == [timer |-> t, timeout |-> now + d]
<1>1. /\ t \in Timers /\ tree \in Seq(Entries) /\ running \in [Timers -> BOOLEAN]
      /\ HasEach(tree, running) /\ Sorted(tree) /\ now \in Nat /\ d \in Nat /\ now < now + d
  BY InvSays, TimerAssumption DEF UsedTimers
<1>2. /\ tr \in Seq(Entries) /\ Sorted(tr) /\ HasEach(tr, runs)
      /\ \A n, s \in Nat : \A l :
           Leads(n, s, l, tree, now) /\ (\A i \in 1 .. n : l[i + s] # t) => Leads(n, s, l, tr, now)
  <2>1. CASE running[t]
    BY <1>1, <2>1, WithoutIs
  <2>2. CASE ~running[t]
    <3>1. runs = running
      BY <1>1, <2>2
    <3>2. QED
      BY <1>1, <2>2, <3>1
  <2>3. QED
    BY <2>1, <2>2
<1>3. runs \in [Timers -> BOOLEAN] /\ ~runs[t]
  BY <1>1
<1>4. /\ tree' = Inserted(tr, e) /\ running' = [running EXCEPT ![t] = TRUE]
      /\ UNCHANGED <<now, freeTimers, expired, phase, wakeAt>>
  BY DEF Start
<1>5. running' = [runs EXCEPT ![t] = TRUE] /\ running' \in [Timers -> BOOLEAN]
      /\ \A r \in Timers \ {t} : running'[r] = running[r]
  BY <1>1, <1>4
<1> HIDE DEF tr, runs
<1>6. /\ Inserted(tr, e) \in Seq(Entries)
      /\ Sorted(Inserted(tr, e))
      /\ HasEach(Inserted(tr, e), [runs EXCEPT ![t] = TRUE])
      /\ \A n, s \in Nat : \A l : \A c \in Nat :
           Leads(n, s, l, tr, c) /\ c < now + d => Leads(n, s, l, Inserted(tr, e), c)
  <2>1. now + d \in Nat
    BY <1>1
  <2>2. QED
    BY <1>1, <1>2, <1>3, <2>1, InsertedIs
<1> HIDE DEF e
<1>7. \A n, s \in Nat : \A l :
        Leads(n, s, l, tree, now) /\ (\A i \in 1 .. n : l[i + s] # t) => Leads(n, s, l, tree', now)
  BY <1>1, <1>2, <1>4, <1>6
<1>8. tree' \in Seq(Entries) /\ Sorted(tree') /\ HasEach(tree', running')
  BY <1>4, <1>5, <1>6
<1>9. QED
  BY <1>4, <1>5, <1>7, <1>8, OperationKeepsInv

\* ogs_timer_add: a timer nobody runs is cleared, and ends the list at its place.
LEMMA AddKeepsInv ==
  ASSUME TimerInv, phase \in {"app", "callback"}, Add, UNCHANGED touched
  PROVE  TimerInv'
<1> DEFINE t == Head(freeTimers)
<1>1. freeTimers \in Seq(Timers) /\ IsInjective(freeTimers) /\ freeTimers # << >>
  BY DEF Add, TimerInv, TimerTypes
<1>2. /\ Tail(freeTimers) \in Seq(Timers) /\ IsInjective(Tail(freeTimers))
      /\ t \in Timers /\ t \in ToSet(freeTimers)
      /\ ToSet(Tail(freeTimers)) = ToSet(freeTimers) \ {t}
  BY <1>1, InjectiveTail
<1>3. \A r \in Timers : running[r] => r \in UsedTimers
  BY InvSays, RunningHasEach DEF TimerInv
<1>4. UNCHANGED running
  BY <1>2, <1>3, InvSays DEF Add, UsedTimers
<1>5. /\ freeTimers' = Tail(freeTimers) /\ expired' = CutAt(t)
      /\ UNCHANGED <<now, tree, phase, wakeAt, touched>>
  BY DEF Add
<1> HIDE DEF t
<1>6. PICK n \in 0 .. Len(expired) :
        /\ CutAt(t) \in Seq(Timers) /\ Len(CutAt(t)) = n
        /\ \A i \in 1 .. n : CutAt(t)[i] = expired[i]
        /\ expired # << >> => n # 0
  <2>1. expired \in Seq(Timers) /\ Len(expired) \in Nat /\ DOMAIN expired = 1 .. Len(expired)
    BY InvSays
  <2>2. CASE Contains(expired, t)
    <3>1. PICK k \in 1 .. Len(expired) : CutAt(t) = SubSeq(expired, 1, k)
      BY <2>1, <2>2 DEF CutAt, Contains
    <3>2. \A i \in 1 .. k : expired[i] \in Timers
      BY <2>1, ElementOfSeq
    <3>3. /\ SubSeq(expired, 1, k) \in Seq(Timers) /\ Len(SubSeq(expired, 1, k)) = k
          /\ \A i \in 1 .. k : SubSeq(expired, 1, k)[i] = expired[i]
      BY <2>1, <3>2, SubSeqProperties
    <3>4. QED
      BY <3>1, <3>3
  <2>3. CASE ~Contains(expired, t)
    <3>1. CutAt(t) = expired
      BY <2>3 DEF CutAt
    <3>2. expired # << >> => Len(expired) # 0
      BY <2>1, EmptySeq
    <3>3. Len(expired) \in 0 .. Len(expired)
      BY <2>1
    <3>4. QED
      BY <2>1, <3>1, <3>2, <3>3
  <2>4. QED
    BY <2>2, <2>3
<1>7. /\ DOMAIN expired' = 1 .. n /\ n <= Len(expired) /\ Len(expired) \in Nat
      /\ DOMAIN expired = 1 .. Len(expired)
  BY <1>5, <1>6, InvSays, LenProperties
<1>8. IsInjective(expired')
  BY <1>5, <1>6, <1>7 DEF IsInjective, TimerInv, TimerTypes
<1>9. TimerTypes'
  BY <1>2, <1>4, <1>5, <1>6, <1>8 DEF TimerInv, TimerTypes
<1>10. RunningIsInTree'
  BY <1>2, <1>4, <1>5 DEF TimerInv, RunningIsInTree, InTree, UsedTimers
<1>11. ListIsOfWalk' /\ PollWakesForFirstTimer'
  <2>1. phase = "app" => expired = << >> /\ Len(expired) = 0
    BY DEF TimerInv, ListIsOfWalk
  <2>2. phase = "app" => expired' = << >>
    BY <1>5, <1>6, <1>7, <2>1, EmptySeq
  <2>3. phase = "callback" => expired' # << >>
    BY <1>5, <1>6, EmptySeq DEF TimerInv, ListIsOfWalk
  <2>4. QED
    BY <1>5, <2>2, <2>3 DEF ListIsOfWalk, PollWakesForFirstTimer
<1>12. ListLeadsTree'
  BY <1>5, <1>6, <1>7 DEF TimerInv, ListLeadsTree, Leads, Served
<1>13. QED
  BY <1>5, <1>9, <1>10, <1>11, <1>12 DEF TimerInv

-----------------------------------------------------------------------------
(* The loop                                                                *)

\* The question for the time of the next timer keeps the invariant.
LEMMA PollKeepsInv ==
  ASSUME TimerInv, PollTimers
  PROVE  TimerInv'
<1>1. /\ phase = "app" /\ phase' = "poll"
      /\ wakeAt' = IF MgrNext = Never THEN Never ELSE now + MgrNext
      /\ UNCHANGED <<now, freeTimers, running, tree, expired, touched>>
  BY DEF PollTimers
<1>2. /\ now \in Nat /\ tree \in Seq(Entries) /\ Len(tree) \in Nat /\ DOMAIN tree = 1 .. Len(tree)
      /\ \A i \in 1 .. Len(tree) : tree[i].timeout \in Nat
      /\ HasEach(tree, running) /\ Sorted(tree)
  BY InvSays
<1>3. CASE tree = << >>
  <2>1. Len(tree) = 0 /\ MgrNext = Never
    BY <1>3 DEF MgrNext
  <2>2. \A t \in Timers : ~running[t]
    BY <1>2, <2>1 DEF HasEach
  <2>3. PollWakesForFirstTimer'
    BY <1>1, <2>1, <2>2 DEF PollWakesForFirstTimer
  <2>4. wakeAt' \in Int
    BY <1>1, <2>1 DEF Never
  <2>5. QED
    BY <1>1, <2>3, <2>4 DEF TimerInv, TimerTypes, RunningIsInTree, InTree, UsedTimers, ListIsOfWalk,
                            ListLeadsTree
<1>4. CASE tree # << >>
  <2>1. 1 \in 1 .. Len(tree) /\ Head(tree) = tree[1]
    BY <1>2, <1>4, EmptySeq, HeadTailProperties
  <2>2. MgrNext \in Nat /\ MgrNext # Never
    BY <1>2, <1>4, <2>1 DEF MgrNext, Never
  <2>3. wakeAt' = now + MgrNext /\ wakeAt' \in Nat /\ wakeAt' # Never
    BY <1>1, <1>2, <2>2 DEF Never
  <2>4. wakeAt' > now => wakeAt' = tree[1].timeout
    BY <1>2, <1>4, <2>1, <2>3 DEF MgrNext
  <2>5. \A i \in 1 .. Len(tree) : tree[1].timeout <= tree[i].timeout
    BY <1>2, <2>1 DEF Sorted
  <2>6. PollWakesForFirstTimer'
    BY <1>1, <1>2, <2>1, <2>3, <2>4, <2>5 DEF PollWakesForFirstTimer
  <2>7. QED
    BY <1>1, <2>3, <2>6 DEF TimerInv, TimerTypes, RunningIsInTree, InTree, UsedTimers, ListIsOfWalk,
                            ListLeadsTree
<1>5. QED
  BY <1>3, <1>4

\* The list that ogs_timer_mgr_expire makes.
LEMMA ExpireKeepsInv ==
  ASSUME TimerInv, Expire
  PROVE  TimerInv'
<1> DEFINE dues == {i \in DOMAIN tree : \A j \in 1 .. i : Due(tree[j])}
           n == Cardinality(dues)
<1>1. /\ phase \in {"app", "poll"} /\ phase' = "walk" /\ wakeAt' = 0 /\ touched' = FALSE
      /\ expired' = [i \in 1 .. n |-> tree[i].timer]
      /\ UNCHANGED <<now, freeTimers, running, tree>>
  BY DEF Expire
<1>2. /\ now \in Nat /\ Len(tree) \in Nat /\ DOMAIN tree = 1 .. Len(tree)
      /\ \A i \in 1 .. Len(tree) : tree[i].timer \in Timers /\ tree[i].timeout \in Nat
      /\ HasEach(tree, running) /\ Sorted(tree)
  BY InvSays
<1>3. n \in 0 .. Len(tree) /\ dues = 1 .. n
  <2>1. dues \in SUBSET (1 .. Len(tree)) /\ \A i \in dues : \A j \in 1 .. i : j \in dues
    BY <1>2
  <2> HIDE DEF dues
  <2>2. QED
    BY <1>2, <2>1, LeadingNumbers
<1>4. \A i \in dues : tree[i].timeout <= now
  BY <1>2 DEF Due
<1> HIDE DEF dues, n
<1>5. n \in Nat /\ n <= Len(tree) /\ \A i \in 1 .. n : i \in 1 .. Len(tree) /\ tree[i].timeout <= now
  BY <1>2, <1>3, <1>4
<1>6. expired' \in [1 .. n -> Timers]
  BY <1>1, <1>2, <1>5
<1>7. expired' \in Seq(Timers)
  BY <1>5, <1>6, SeqDef
<1>8. Len(expired') = n
  <2>1. DOMAIN expired' = 1 .. Len(expired') /\ Len(expired') \in Nat
    BY <1>7, LenProperties
  <2>2. DOMAIN expired' = 1 .. n /\ DOMAIN expired' = 1 .. Len(expired')
    BY <1>6, <2>1
  <2>3. Len(expired') \in Nat /\ n \in Nat
    BY <1>5, <2>1
  <2> DEFINE m == Len(expired')
  <2> HIDE DEF m
  <2>4. QED
    <3>1. 1 .. m = 1 .. n /\ m \in Nat /\ n \in Nat
      BY <2>2, <2>3 DEF m
    <3>2. m = n
      BY <3>1
    <3>3. QED
      BY <3>2 DEF m
<1>9. IsInjective(expired')
  BY <1>1, <1>2, <1>5 DEF IsInjective, HasEach
<1>10. TimerTypes' /\ RunningIsInTree'
  <2>1. /\ phase' = "walk" /\ wakeAt' = 0 /\ touched' = FALSE
        /\ UNCHANGED <<now, freeTimers, running, tree>>
    BY <1>1
  <2>2. TimerTypes'
    <3>1. phase' \in {"app", "poll", "walk", "callback"} /\ wakeAt' \in Int
      BY <2>1
    <3>2. touched' \in BOOLEAN
      BY <2>1, Zenon
    <3>3. UNCHANGED <<now, freeTimers, running, tree>>
      BY <2>1
    <3>4. QED
      BY <3>1, <3>2, <3>3, <1>7, <1>9 DEF TimerInv, TimerTypes
  <2>3. QED
    BY <2>1, <2>2 DEF TimerInv, RunningIsInTree, InTree, UsedTimers
<1>11. ListIsOfWalk' /\ PollWakesForFirstTimer'
  BY <1>1 DEF ListIsOfWalk, PollWakesForFirstTimer
<1>12. ListLeadsTree'
  BY <1>1, <1>5, <1>8 DEF ListLeadsTree, Leads, Served
<1>13. QED
  BY <1>1, <1>2, <1>10, <1>11, <1>12 DEF TimerInv

\* The walk stops a timer before it calls it.
LEMMA ServeKeepsInv ==
  ASSUME TimerInv, Serve
  PROVE  TimerInv' /\ (~touched => /\ 1 \in DOMAIN tree /\ tree[1].timer = Head(expired)
                                    /\ tree[1].timeout <= now
                                    /\ \A j \in DOMAIN tree : tree[1].timeout <= tree[j].timeout)
<1>1. /\ phase = "walk" /\ phase' = "callback" /\ expired # << >>
      /\ UNCHANGED <<now, freeTimers, expired, wakeAt, touched>>
  BY DEF Serve
<1>2. /\ now \in Nat /\ Len(tree) \in Nat /\ DOMAIN tree = 1 .. Len(tree)
      /\ \A i \in 1 .. Len(tree) : tree[i].timer \in Timers /\ tree[i].timeout \in Nat
      /\ HasEach(tree, running) /\ Sorted(tree)
      /\ expired \in Seq(Timers) /\ Len(expired) \in Nat /\ DOMAIN expired = 1 .. Len(expired)
  BY InvSays
<1>3. Len(expired) # 0 /\ Head(expired) = expired[1] /\ Head(expired) \in Timers
  BY <1>1, <1>2, EmptySeq, HeadTailProperties
<1> DEFINE t == Head(expired)
<1>4. /\ Stopped(t) /\ t \in Timers
  BY <1>3 DEF Serve
<1> HIDE DEF t
<1>5. /\ running' = [running EXCEPT ![t] = FALSE] /\ running' \in [Timers -> BOOLEAN]
      /\ ~running'[t] /\ \A r \in Timers \ {t} : running'[r] = running[r]
      /\ tree' \in Seq(Entries) /\ Sorted(tree') /\ HasEach(tree', running')
  BY <1>4, StoppedLeaves
<1>6. TimerTypes'
  BY <1>1, <1>5 DEF TimerInv, TimerTypes, Entries
<1>7. RunningIsInTree'
  <2>1. \A r \in Timers : running[r] => r \in UsedTimers
    BY InvSays, RunningHasEach DEF TimerInv
  <2>2. \A r \in Timers : running'[r] => r \in UsedTimers'
    BY <1>1, <1>5, <2>1 DEF UsedTimers
  <2>3. QED
    BY <1>5, <2>2, RunningHasEachNext
<1>8. ListIsOfWalk' /\ PollWakesForFirstTimer'
  BY <1>1 DEF ListIsOfWalk, PollWakesForFirstTimer
<1>9. CASE touched
  BY <1>1, <1>5, <1>6, <1>7, <1>8, <1>9 DEF TimerInv, ListLeadsTree
<1>10. CASE ~touched
  <2>1. Leads(Len(expired), 0, expired, tree, now)
    BY <1>1, <1>2, <1>10 DEF TimerInv, ListLeadsTree, Served
  <2>2. \A i \in 1 .. Len(expired) : /\ i \in 1 .. Len(tree) /\ tree[i].timer = expired[i]
                                       /\ tree[i].timeout <= now
    BY <1>2, <2>1 DEF Leads
  <2>3. 1 \in 1 .. Len(tree) /\ tree[1].timer = t /\ tree[1].timeout <= now
    BY <1>2, <1>3, <2>2 DEF t
  <2>4. \A j \in 1 .. Len(tree) : tree[1].timeout <= tree[j].timeout
    BY <1>2, <2>3 DEF Sorted
  <2>5. running[t]
    BY <1>2, <1>4, <2>3 DEF HasEach
  <2>6. tree' = Without(t)
    BY <1>4, <2>5 DEF Stopped
  <2>7. ListLeadsTree'
    <3>1. tree' = RemoveAt(tree, 1)
      <4>1. PICK k \in 1 .. Len(tree) : tree[k].timer = t /\ Without(t) = RemoveAt(tree, k)
        BY <1>2, <2>3 DEF Without
      <4>2. k = 1
        BY <1>2, <2>3, <4>1 DEF HasEach
      <4>3. QED
        BY <2>6, <4>1, <4>2
    <3>2. /\ Len(RemoveAt(tree, 1)) = Len(tree) - 1
          /\ \A i \in 1 .. (Len(tree) - 1) : RemoveAt(tree, 1)[i] = tree[i + 1]
      <4>1. \A i \in 1 .. (Len(tree) - 1) : ~(i < 1)
        OBVIOUS
      <4>2. /\ Len(RemoveAt(tree, 1)) = Len(tree) - 1
            /\ \A i \in 1 .. (Len(tree) - 1) : RemoveAt(tree, 1)[i] = IF i < 1 THEN tree[i] ELSE tree[i + 1]
        BY <2>3, InvSays, RemovedAt
      <4>3. QED
        BY <4>1, <4>2
    <3>3. Leads(Len(expired) - 1, 1, expired, tree', now)
      BY <1>2, <1>3, <2>2, <3>1, <3>2 DEF Leads
    <3>4. QED
      BY <1>1, <3>3 DEF ListLeadsTree, Served
  <2>8. QED
    BY <1>1, <1>2, <1>5, <1>6, <1>7, <1>8, <2>3, <2>4, <2>7 DEF TimerInv, t
<1>11. QED
  BY <1>9, <1>10

\* A callback that returns keeps the invariant.
LEMMA CallbackReturnsKeepsInv ==
  ASSUME TimerInv, CallbackReturns
  PROVE  TimerInv'
<1>1. /\ phase = "callback" /\ phase' = "walk" /\ expired' = Tail(expired)
      /\ UNCHANGED <<now, freeTimers, running, tree, wakeAt, touched>>
  BY DEF CallbackReturns
<1>2. expired \in Seq(Timers) /\ expired # << >> /\ Len(expired) \in Nat
  BY <1>1, InvSays DEF TimerInv, ListIsOfWalk
<1>3. /\ expired' \in Seq(Timers) /\ Len(expired') = Len(expired) - 1
      /\ \A i \in 1 .. Len(expired') : expired'[i] = expired[i + 1]
  BY <1>1, <1>2, HeadTailProperties
<1>4. DOMAIN expired' = 1 .. (Len(expired) - 1) /\ DOMAIN expired = 1 .. Len(expired)
  BY <1>2, <1>3, LenProperties
<1>5. IsInjective(expired')
  BY <1>1, <1>2, InjectiveTail DEF TimerInv, TimerTypes
<1>6. TimerTypes' /\ RunningIsInTree'
  BY <1>1, <1>3, <1>5 DEF TimerInv, TimerTypes, RunningIsInTree, InTree, UsedTimers
<1>7. ListIsOfWalk' /\ PollWakesForFirstTimer'
  BY <1>1 DEF ListIsOfWalk, PollWakesForFirstTimer
<1>8. ListLeadsTree'
  BY <1>1, <1>2, <1>3 DEF TimerInv, ListLeadsTree, Leads, Served
<1>9. QED
  BY <1>1, <1>6, <1>7, <1>8 DEF TimerInv

\* The end of the walk keeps the invariant.
LEMMA LeaveKeepsInv ==
  ASSUME TimerInv, Leave
  PROVE  TimerInv'
BY DEF TimerInv, Leave, TimerTypes, RunningIsInTree, InTree, UsedTimers, ListIsOfWalk, ListLeadsTree,
       PollWakesForFirstTimer

\* The clock keeps the invariant.
LEMMA ClockKeepsInv ==
  ASSUME TimerInv, ClockTick
  PROVE  TimerInv'
<1>1. /\ now < MaxNow /\ now' = now + 1 /\ now \in Nat /\ MaxNow \in Nat
      /\ UNCHANGED <<freeTimers, running, tree, expired, phase, wakeAt, touched>>
  BY InvSays, TimerAssumption DEF ClockTick
<1>2. TimerTypes' /\ RunningIsInTree' /\ ListIsOfWalk'
  BY <1>1 DEF TimerInv, TimerTypes, RunningIsInTree, InTree, UsedTimers, ListIsOfWalk
<1>3. PollWakesForFirstTimer'
  BY <1>1 DEF TimerInv, TimerTypes, PollWakesForFirstTimer
<1>4. ListLeadsTree'
  <2>1. \A i \in 1 .. Len(tree) : tree[i].timeout \in Nat
    BY InvSays
  <2>2. QED
    BY <1>1, <2>1, InvSays DEF TimerInv, ListLeadsTree, Leads, Served
<1>5. QED
  BY <1>1, <1>2, <1>3, <1>4 DEF TimerInv

-----------------------------------------------------------------------------
(* The theorems                                                            *)

\* With all timers free the invariant holds.
LEMMA TimerInvInit == TimerInit => TimerInv
<1> SUFFICES ASSUME TimerInit PROVE TimerInv
  OBVIOUS
<1>1. freeTimers \in Seq(Timers) /\ IsInjective(freeTimers)
  BY TimerAssumption, SetToSeqIs DEF TimerInit
<1>2. Len(tree) = 0 /\ tree \in Seq(Entries) /\ expired \in Seq(Timers) /\ Len(expired) = 0
  BY EmptySeq DEF TimerInit
<1>3. HasEach(tree, running) /\ Sorted(tree) /\ \A t \in Timers : ~running[t]
  BY <1>2 DEF HasEach, Sorted, TimerInit
<1>4. TimerTypes
  <2>1. IsInjective(expired)
    BY DEF TimerInit, IsInjective
  <2>2. now \in 0 .. MaxNow /\ wakeAt \in Int /\ phase = "app"
    BY TimerAssumption DEF TimerInit
  <2>3. touched \in BOOLEAN /\ running \in [Timers -> BOOLEAN]
    BY Zenon DEF TimerInit
  <2>4. QED
    BY <1>1, <1>2, <2>1, <2>2, <2>3 DEF TimerTypes, Entries
<1>5. RunningIsInTree
  BY <1>2, <1>3, RunningHasEach
<1>6. QED
  BY <1>3, <1>4, <1>5 DEF TimerInv, TimerInit, ListIsOfWalk, ListLeadsTree, PollWakesForFirstTimer

\* Every call, callback and tick keeps the invariant.
LEMMA TimerInvStep == TimerInv /\ [TimerNext]_timervars => TimerInv'
<1> SUFFICES ASSUME TimerInv, [TimerNext]_timervars PROVE TimerInv'
  OBVIOUS
<1>1. CASE TimerOperation
  BY <1>1, AddKeepsInv, StopKeepsInv, StartKeepsInv DEF TimerOperation
<1>2. CASE PollTimers
  BY <1>2, PollKeepsInv
<1>3. CASE Expire
  BY <1>3, ExpireKeepsInv
<1>4. CASE Serve
  BY <1>4, ServeKeepsInv
<1>5. CASE CallbackReturns
  BY <1>5, CallbackReturnsKeepsInv
<1>6. CASE Leave
  BY <1>6, LeaveKeepsInv
<1>7. CASE ClockTick
  BY <1>7, ClockKeepsInv
<1>8. CASE UNCHANGED timervars
  BY <1>8 DEF timervars, TimerInv, TimerTypes, RunningIsInTree, InTree, UsedTimers, ListIsOfWalk,
              ListLeadsTree, Served, PollWakesForFirstTimer
<1>9. QED
  BY <1>1, <1>2, <1>3, <1>4, <1>5, <1>6, <1>7, <1>8 DEF TimerNext

\* The invariant holds all the time.
LEMMA TimerInvAlways == TimerSpec => []TimerInv
BY TimerInvInit, TimerInvStep, PTL DEF TimerSpec

\* For any number of timers and whatever the callbacks do: the tree has every
\* running timer once, and no other, so that a timer is neither forgotten nor
\* left in the tree when its record goes back to the pool.
THEOREM TimersAreSound == TimerSpec => []TimerSound
<1>1. TimerInv => TimerSound
  BY DEF TimerInv, TimerSound
<1>2. QED
  BY <1>1, TimerInvAlways, PTL

\* The wait ogs_timer_mgr_next gives ends with the first timeout.
THEOREM PollEndsInTime == TimerSpec => []PollWakesForFirstTimer
<1>1. TimerInv => PollWakesForFirstTimer
  BY DEF TimerInv
<1>2. QED
  BY <1>1, TimerInvAlways, PTL

\* Timers fire when they are due, in the order of their timeouts.
THEOREM TimersFireInOrder == TimerSpec => FirstDueTimerFires
<1> DEFINE FirstIsServed ==
      Serve /\ ~touched =>
        \E i \in DOMAIN tree : /\ tree[i].timer = Head(expired)
                              /\ tree[i].timeout <= now
                              /\ \A j \in DOMAIN tree : tree[i].timeout <= tree[j].timeout
<1>1. TimerInv => FirstIsServed
  BY ServeKeepsInv
<1>2. TimerInv => [FirstIsServed]_timervars
  BY <1>1
<1>3. [][FirstIsServed]_timervars <=> FirstDueTimerFires
  BY DEF FirstDueTimerFires
<1> HIDE DEF FirstIsServed
<1>4. QED
  BY <1>2, <1>3, TimerInvAlways, PTL

-----------------------------------------------------------------------------
(* Threads                                                                 *)

\* The life of a record, of its worker and of the work are one: between the
\* owner's Create and JoinAndFree there is a worker, and it is past `start'
\* and `func' only with its mark on `running' and `ran'.
LivesAgree(t) ==
  /\ live[t] <=> owner[t] # "idle"
  /\ worker[t] # "none" <=> owner[t] # "idle"
  /\ workerRuns[t] <=> worker[t] \in {"func", "done"}
  /\ worker[t] \in {"done", "exit", "ended"} => ran[t]

\* Who waits has a worker that will wake it, and without a spurious wake-up
\* who does not wait any more has one that is under way.
StartIsSeen(t) ==
  /\ owner[t] = "wait" => worker[t] = "start" /\ ~spurious[t]
  /\ ~spurious[t] /\ owner[t] \notin {"idle", "wait"} => worker[t] # "start"

\* The polling loop is left for one of two reasons, and the first of them
\* stays true: the worker is past `running', or the deadline is.
LoopIsOver(t) ==
  ~spurious[t] => /\ owner[t] = "last" /\ workerRuns[t] => waited[t] > Deadline
                  /\ owner[t] = "abort" => waited[t] > Deadline

ThreadInv ==
  ThreadTypes /\ \A t \in Records : LivesAgree(t) /\ StartIsSeen(t) /\ LoopIsOver(t)

-----------------------------------------------------------------------------
\* With no thread made yet the invariant holds.
LEMMA ThreadInvInit == ThreadInit => ThreadInv
  BY ThreadAssumption
  DEF ThreadInit, ThreadInv, ThreadTypes, LivesAgree, StartIsSeen, LoopIsOver

\* A step of one record keeps the types, and what is said of every record.
LEMMA StepKeepsInv ==
  ASSUME ThreadInv, NEW u \in Records, ThreadStep(u) PROVE ThreadInv'
<1> USE ThreadAssumption DEF ThreadInv, ThreadTypes, LivesAgree, StartIsSeen, LoopIsOver, Goto
<1>1. CASE Create(u)
  BY <1>1 DEF Create
<1>2. CASE SpuriousReturn(u)
  BY <1>2 DEF SpuriousReturn
<1>3. CASE Created(u)
  BY <1>3 DEF Created
<1>4. CASE WorkerStart(u)
  BY <1>4 DEF WorkerStart
<1>5. CASE FuncReturns(u)
  BY <1>5 DEF FuncReturns
<1>6. CASE WorkerDone(u)
  BY <1>6 DEF WorkerDone
<1>7. CASE WorkerExit(u)
  BY <1>7 DEF WorkerExit
<1>8. CASE Destroy(u)
  BY <1>8 DEF Destroy
<1>9. CASE PollRunning(u)
  BY <1>9 DEF PollRunning
<1>10. CASE Slept(u)
  BY <1>10 DEF Slept
<1>11. CASE LastCheck(u)
  BY <1>11 DEF LastCheck
<1>12. CASE JoinAndFree(u)
  BY <1>12 DEF JoinAndFree
<1>13. CASE WaitTick(u)
  BY <1>13 DEF WaitTick
<1> QED BY <1>1, <1>2, <1>3, <1>4, <1>5, <1>6, <1>7, <1>8, <1>9, <1>10, <1>11, <1>12, <1>13
        DEF ThreadStep, OwnerStep, WorkerStep

\* Every step of owner, worker and clock keeps the invariant.
LEMMA ThreadInvStep == ThreadInv /\ [ThreadNext]_threadvars => ThreadInv'
<1> SUFFICES ASSUME ThreadInv, [ThreadNext]_threadvars PROVE ThreadInv'
  OBVIOUS
<1>1. CASE UNCHANGED threadvars
  BY <1>1 DEF threadvars, ThreadInv, ThreadTypes, LivesAgree, StartIsSeen, LoopIsOver
<1>2. CASE \E t \in Records : ThreadStep(t)
  BY <1>2, StepKeepsInv
<1> QED BY <1>1, <1>2 DEF ThreadNext

\* The invariant holds all the time.
LEMMA ThreadInvAlways == ThreadSpec => []ThreadInv
  BY ThreadInvInit, ThreadInvStep, PTL DEF ThreadSpec

\* The record outlives every use its worker makes of it, and create hands out
\* only threads that are under way (spurious wake-ups aside).
THEOREM ThreadIsSound == ThreadSpec => []ThreadSound
<1>1. ThreadInv => ThreadSound
  <2> SUFFICES ASSUME ThreadInv PROVE ThreadSound
    OBVIOUS
  <2>1. RecordOutlivesWorker
    BY DEF ThreadInv, LivesAgree, RecordOutlivesWorker
  <2>2. CreatedIsStarted
    BY DEF ThreadInv, StartIsSeen, CreatedIsStarted
  <2> QED BY <2>1, <2>2 DEF ThreadInv, ThreadSound
<1> QED BY <1>1, ThreadInvAlways, PTL

\* Without a spurious wake-up destroy ends the process only after the
\* deadline, whatever the worker does between its two looks at `running'.
THEOREM AbortMeansOverdue == ThreadSpec => []AbortIfOverdue
<1>1. ThreadInv => AbortIfOverdue
  BY DEF ThreadInv, LoopIsOver, AbortIfOverdue
<1> QED BY <1>1, ThreadInvAlways, PTL

\* Work given to a thread has been done before its record is freed.
THEOREM WorkIsDone == ThreadSpec => DestroyMeansDone
<1> DEFINE Done == \A t \in Records : live[t] /\ ~live'[t] => ran[t]
<1>1. ThreadInv /\ [ThreadNext]_threadvars => [Done]_threadvars
  <2> SUFFICES ASSUME ThreadInv, ThreadNext, NEW t \in Records, live[t], ~live'[t]
               PROVE ran[t]
    OBVIOUS
  <2>1. PICK u \in Records : ThreadStep(u)
    BY DEF ThreadNext, threadvars
  \* Only JoinAndFree frees a record, and only its own.
  <2>2. JoinAndFree(u) /\ u = t
    BY <2>1 DEF ThreadStep, OwnerStep, WorkerStep, Create, SpuriousReturn, Created, WorkerStart,
         FuncReturns, WorkerDone, WorkerExit, Destroy, PollRunning, Slept, LastCheck,
         JoinAndFree, WaitTick, ThreadInv, ThreadTypes
  <2> QED BY <2>2 DEF JoinAndFree, ThreadInv, LivesAgree
<1>2. [][Done]_threadvars => DestroyMeansDone
  BY PTL DEF DestroyMeansDone
<1> QED BY <1>1, <1>2, ThreadInvAlways, PTL DEF ThreadSpec
=============================================================================
