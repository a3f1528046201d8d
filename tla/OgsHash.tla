------------------------------ MODULE OgsHash ------------------------------
(***************************************************************************)
(* src/core/ogs-hash.c: the hash table.  One thread uses a table and a     *)
(* call is one step; what can interleave is a loop over the table          *)
(* (ogs_hash_first and ogs_hash_next, or ogs_hash_do) with the calls its   *)
(* body makes.  The iterator of the first kind of loop is inside the       *)
(* table, and the table's own loops, in expand_array and ogs_hash_clear,   *)
(* use the same one.                                                       *)
(*                                                                         *)
(* Entries are linked records; a deleted one goes to the front of a free   *)
(* list through the same link, which a loop may still follow.  What else   *)
(* is left in it is not modelled.  A key comes with its hash; its bytes    *)
(* and length are left out.                                                *)
(***************************************************************************)
EXTENDS Integers, Sequences, FiniteSets, SequencesExt

CONSTANTS Keys, Vals, Nil,
          Hash,         \* the hash of each key, with the table's seed
          InitialMax    \* INITIAL_MAX

\* A table never allocates more entries than it has had keys at once.
Entries == 1 .. Cardinality(Keys)

ASSUME HashAssumption == /\ IsFiniteSet(Keys) /\ Nil \notin Vals \cup Keys \cup Entries
                         /\ Hash \in [Keys -> Nat]
                         /\ InitialMax \in Nat /\ \E i \in 0 .. 8 : InitialMax = 2 ^ i - 1

VARIABLES ht,        \* the table, its entries, and how many were allocated
          hi,        \* the iterator of the loop under way
          looping,   \* which is none, one on ht->iterator, or ogs_hash_do
          todo,      \* history: the keys it has still to visit
          meddled,   \* history: its body has added a key, or removed one
                     \* that was not the one being visited
          answer     \* what the last call returned

loop == <<hi, looping, todo, meddled>>
hashvars == <<ht, loop, answer>>

Blank == [e \in Entries |-> Nil]
NoLoop == [index |-> 0, this |-> Nil, next |-> Nil]

HashInit == /\ ht = [array |-> [i \in 0 .. InitialMax |-> Nil], max |-> InitialMax, count |-> 0,
                     next |-> Blank, key |-> Blank, val |-> Blank, made |-> 0, free |-> Nil]
            /\ hi = NoLoop
            /\ looping = "no"
            /\ todo = {}
            /\ meddled = FALSE
            /\ answer = Nil

-----------------------------------------------------------------------------
(* Chains                                                                  *)

\* hash & max, where max + 1 is a power of two
Bucket(t, k) == Hash[k] % (t.max + 1)

ChainFrom(t, first) ==
  LET chain[e \in Entries \cup {Nil}] == IF e = Nil THEN << >> ELSE <<e>> \o chain[t.next[e]]
  IN  chain[first]

\* Everything in the table, in the order in which a loop visits it.
AllEntries(t) == FlattenSeq([i \in 1 .. t.max + 1 |-> ChainFrom(t, t.array[i - 1])])

\* find_entry
FindEntry(t, k) ==
  LET walk[e \in Entries \cup {Nil}] == IF e = Nil \/ t.key[e] = k THEN e ELSE walk[t.next[e]]
  IN  walk[t.array[Bucket(t, k)]]

\* *hep = e: the link that leads to the entry of k, or to the end of its chain.
Relink(t, k, e) ==
  LET old == FindEntry(t, k)
      first == t.array[Bucket(t, k)]
      before[x \in Entries \cup {Nil}] == IF x = Nil \/ t.next[x] = old THEN x ELSE before[t.next[x]]
  IN  IF first = old THEN [t EXCEPT !.array[Bucket(t, k)] = e] ELSE [t EXCEPT !.next[before[first]] = e]

Present(t) == {k \in Keys : FindEntry(t, k) # Nil}

-----------------------------------------------------------------------------
(* Changes                                                                 *)

\* A recycled entry, or a new one, at the end of its chain.
Added(t, k, v) ==
  LET e == IF t.free # Nil THEN t.free ELSE t.made + 1
  IN  [Relink(t, k, e) EXCEPT !.free = IF t.free # Nil THEN t.next[e] ELSE Nil,
                              !.made = IF t.free # Nil THEN @ ELSE @ + 1,
                              !.next[e] = Nil, !.key[e] = k, !.val[e] = v, !.count = @ + 1]

\* (seeded fault: the entries behind it go too)
RemovedWithTail(t, k) ==
  LET e == FindEntry(t, k)
  IN  [Relink(t, k, Nil) EXCEPT !.next[e] = t.free, !.free = e, !.count = @ - 1,
                                 !.key[e] = Nil, !.val[e] = Nil]

Removed(t, k) ==
  LET e == FindEntry(t, k)
  IN  [Relink(t, k, t.next[e]) EXCEPT !.next[e] = t.free, !.free = e, !.count = @ - 1,
                                      !.key[e] = Nil, !.val[e] = Nil]

TooFull(t) == t.count > t.max

\* (seeded fault: the entries stay in the slots they had)
ExpandedInPlace(t) ==
  [t EXCEPT !.max = t.max * 2 + 1,
            !.array = [i \in 0 .. t.max * 2 + 1 |-> IF i <= t.max THEN t.array[i] ELSE Nil]]

\* expand_array: in the order of its loop, every entry goes to the front of
\* its new chain.
Expanded(t) ==
  LET order == AllEntries(t)
      wide == [t EXCEPT !.max = t.max * 2 + 1, !.array = [i \in 0 .. t.max * 2 + 1 |-> Nil]]
      moved[n \in 0 .. Len(order)] ==
        IF n = 0 THEN wide
        ELSE LET s == Bucket(wide, t.key[order[n]])
             IN  [moved[n - 1] EXCEPT !.next[order[n]] = moved[n - 1].array[s], !.array[s] = order[n]]
  IN  moved[Len(order)]

\* ogs_hash_clear: its loop removes every entry it visits.
Cleared(t) ==
  LET order == AllEntries(t)
      after[n \in 0 .. Len(order)] == IF n = 0 THEN t ELSE Removed(after[n - 1], t.key[order[n]])
  IN  after[Len(order)]

-----------------------------------------------------------------------------
(* Iteration                                                               *)

\* (seeded fault: the link is read from the entry only now)
AdvanceFromThis(h) ==
  LET rest == {i \in h.index .. ht.max : ht.array[i] # Nil}
      visit(e, i) == [index |-> i, this |-> e, next |-> Nil]
  IN  IF h.this # Nil /\ ht.next[h.this] # Nil THEN visit(ht.next[h.this], h.index)
      ELSE IF rest # {} THEN visit(ht.array[Min(rest)], Min(rest) + 1) ELSE NoLoop

\* ogs_hash_next; at the end nobody reads the iterator any more.
Advance(h) ==
  LET rest == {i \in h.index .. ht.max : ht.array[i] # Nil}
      visit(e, i) == [index |-> i, this |-> e, next |-> ht.next[e]]
  IN  IF h.next # Nil THEN visit(h.next, h.index)
      ELSE IF rest # {} THEN visit(ht.array[Min(rest)], Min(rest) + 1) ELSE NoLoop

Visit(h, how, left) == /\ hi' = h
                       /\ looping' = IF h.this = Nil THEN "no" ELSE how
                       /\ todo' = IF h.this = Nil THEN {} ELSE left \ {ht.key[h.this]}
                       /\ UNCHANGED <<ht, answer>>

\* ogs_hash_first, or the start of ogs_hash_do.
StartLoop(how) == Visit(Advance(NoLoop), how, Present(ht)) /\ meddled' = FALSE

Continue == looping # "no" /\ Visit(Advance(hi), looping, todo) /\ UNCHANGED meddled

\* The body breaks out, or the callback of ogs_hash_do answers 0.
Break == /\ looping # "no"
         /\ hi' = NoLoop /\ looping' = "no" /\ todo' = {} /\ meddled' = FALSE
         /\ UNCHANGED <<ht, answer>>

\* What a loop inside the table leaves of a caller's loop on its iterator.
Rewound(t) == IF looping = "table" THEN [index |-> t.max + 1, this |-> Nil, next |-> Nil] ELSE hi

Meddles(harmful) == meddled' = (meddled \/ (looping # "no" /\ harmful))

-----------------------------------------------------------------------------
(* The calls                                                               *)

\* Setting or adding; the array grows when it is too full by now.
Store(t) == IF TooFull(t) THEN ht' = Expanded(t) /\ hi' = Rewound(t) ELSE ht' = t /\ hi' = hi

Set(k, v) == /\ Store(IF FindEntry(ht, k) = Nil THEN Added(ht, k, v)
                      ELSE [ht EXCEPT !.val[FindEntry(ht, k)] = v])
             /\ Meddles(FindEntry(ht, k) = Nil)
             /\ answer' = Nil
             /\ UNCHANGED <<looping, todo>>

\* ogs_hash_set to Nil
Unset(k) == /\ ht' = IF FindEntry(ht, k) = Nil THEN ht ELSE Removed(ht, k)
            /\ Meddles(FindEntry(ht, k) \notin {Nil, hi.this})
            /\ answer' = Nil
            /\ UNCHANGED <<hi, looping, todo>>

Value(t, k) == IF FindEntry(t, k) = Nil THEN Nil ELSE t.val[FindEntry(t, k)]

Get(k) == answer' = Value(ht, k) /\ UNCHANGED <<ht, loop>>

GetOrSet(k, v) == /\ Store(IF FindEntry(ht, k) = Nil THEN Added(ht, k, v) ELSE ht)
                  /\ Meddles(FindEntry(ht, k) = Nil)
                  /\ answer' = IF FindEntry(ht, k) = Nil THEN v ELSE Value(ht, k)
                  /\ UNCHANGED <<looping, todo>>

Clear == /\ ht' = Cleared(ht)
         /\ hi' = Rewound(ht)
         /\ Meddles(TRUE)
         /\ answer' = Nil
         /\ UNCHANGED <<looping, todo>>

HashNext == \/ \E k \in Keys : \/ \E v \in Vals : Set(k, v) \/ GetOrSet(k, v)
                               \/ Unset(k)
                               \/ Get(k)
            \/ Clear
            \/ \E how \in {"table", "do"} : StartLoop(how)
            \/ Continue
            \/ Break

HashSpec == HashInit /\ [][HashNext]_hashvars

-----------------------------------------------------------------------------
(* Properties                                                              *)

\* The fields keep their types; count never exceeds the keys there are.
HashTypeOK ==
  /\ DOMAIN ht.array = 0 .. ht.max /\ ht.count \in 0 .. Cardinality(Keys)
  /\ looping \in {"no", "table", "do"} /\ meddled \in BOOLEAN
  /\ todo \subseteq Keys /\ hi.this \in Entries \cup {Nil} /\ hi.next \in Entries \cup {Nil}

\* Every entry ever allocated is in one chain, that of its hash, or in the free
\* list, and count is right: nothing is lost and nothing is in two places
\* after any sequence of calls, expansions and calls inside loops included.
EntriesInPlace ==
  LET used == AllEntries(ht)
      recycled == ChainFrom(ht, ht.free)
  IN  /\ IsInjective(used \o recycled)
      /\ ToSet(used \o recycled) = 1 .. ht.made
      /\ ht.count = Len(used)
      /\ \A i \in 0 .. ht.max : \A e \in ToSet(ChainFrom(ht, ht.array[i])) : Bucket(ht, ht.key[e]) = i

\* What all calls, expansions among them, keep of the table: types, chains and
\* the free list.
TableSound == HashTypeOK /\ EntriesInPlace

Map == INSTANCE FiniteMap WITH NULL <- Nil, map <- [k \in Keys |-> Value(ht, k)]

\* The table is a map, and every call answers as a map would.
ImplementsMap == Map!Spec

\* A loop visits each key that was there at its start once, if its body
\* removes none but the one being visited, and adds none.
VisitsEachOnce ==
  [][Continue /\ ~meddled => IF looping' = "no" THEN todo = {} ELSE ht.key[hi'.this] \in todo]_hashvars
=============================================================================
