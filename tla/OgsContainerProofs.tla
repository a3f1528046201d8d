------------------------- MODULE OgsContainerProofs -------------------------
(***************************************************************************)
(* Theorems about the pool of src/core/ogs-pool.h, for every size, the     *)
(* list of ogs-list.h with the loops over it, for any nodes and whatever   *)
(* the bodies of the loops do, and the hash table of ogs-hash.c, for any   *)
(* keys and hashes.                                                        *)
(*                                                                         *)
(* The invariant of the pool is PoolInv: the ring between head and tail    *)
(* holds the nodes nobody has, tail is avail slots after head, and index[] *)
(* has the allocated nodes.  The guard avail < Size of ogs_pool_free is    *)
(* then always true for a node its caller holds, because avail +           *)
(* Cardinality(held) = Size.                                               *)
(*                                                                         *)
(* The invariant of the hash table is HashInv: the chains of the array and *)
(* the free list are paths along the links that share no entry (Holds),    *)
(* the table is not too full, and the keys a loop has still to visit are   *)
(* those of the entries ahead of its iterator (Tracks).                    *)
(***************************************************************************)
EXTENDS OgsPool, OgsList, OgsHash, ProofLemmas

TailInv == tail = IF head + avail >= Size THEN head + avail - Size ELSE head + avail

FreeNodes == \A i \in 1 .. avail : free[SlotFrom(Size, head, i)] \in Nodes \ held
OnceInRing == \A i, j \in 1 .. avail : i # j => free[SlotFrom(Size, head, i)] # free[SlotFrom(Size, head, j)]
NoneLost == \A n \in Nodes \ held : \E i \in 1 .. avail : free[SlotFrom(Size, head, i)] = n
OutsideNull == \A i \in avail + 1 .. Size : free[SlotFrom(Size, head, i)] = NULL
IndexInv == \A n \in Nodes : index[n] = IF n \in held THEN n ELSE NULL
CountInv == Cardinality(held) = Size - avail

RingInv == TailInv /\ FreeNodes /\ OnceInRing /\ NoneLost /\ OutsideNull

PoolInv == TypeOK /\ (ready => RingInv /\ IndexInv /\ CountInv)

-----------------------------------------------------------------------------
(* Slots                                                                   *)

\* The slot behind slot x, without the modulus.
LEMMA SlotNextIs ==
  ASSUME NEW x \in Nodes
  PROVE  /\ SlotNext(x) = IF x + 1 >= Size THEN x + 1 - Size ELSE x + 1
         /\ SlotNext(x) \in Nodes
<1>1. Size \in Nat /\ Size > 0 /\ x \in Int /\ 0 <= x /\ x < Size
  BY PoolAssumption DEF Nodes
<1>2. CASE x + 1 = Size
  <2>1. Size % Size = 0
    BY <1>1
  <2>2. QED
    BY <1>1, <1>2, <2>1 DEF SlotNext, Nodes
<1>3. CASE x + 1 < Size
  <2>1. (x + 1) % Size = x + 1
    BY <1>1, <1>3
  <2>2. QED
    BY <1>1, <1>3, <2>1 DEF SlotNext, Nodes
<1>4. QED
  BY <1>1, <1>2, <1>3

\* The index of a node is its number.
LEMMA EntryIs == \A n \in Nodes : Entry(n) = n
BY PoolAssumption DEF Entry, Id, Nodes

\* The Size slots from the head on are all the slots, each once.
LEMMA SlotsDistinct ==
  ASSUME TypeOK
  PROVE  /\ \A i \in 1 .. Size : SlotFrom(Size, head, i) \in Nodes
         /\ \A i, j \in 1 .. Size : i # j => SlotFrom(Size, head, i) # SlotFrom(Size, head, j)
         /\ SlotFrom(Size, head, 1) = head
BY PoolAssumption DEF TypeOK, SlotFrom, Nodes

\* A node in the hands of a caller leaves room in the ring.
LEMMA HeldLeavesRoom ==
  ASSUME TypeOK, CountInv, NEW n \in held
  PROVE  /\ avail < Size
         /\ Cardinality(held \ {n}) = Cardinality(held) - 1
<1>1. IsFiniteSet(Nodes)
  BY PoolAssumption, FS_Interval DEF Nodes
<1>2. IsFiniteSet(held)
  BY <1>1, FS_Subset DEF TypeOK
<1>3. Cardinality(held) \in Nat /\ Cardinality(held) # 0
  BY <1>2, FS_CardinalityType, FS_EmptySet
<1>4. Cardinality(held \ {n}) = Cardinality(held) - 1
  BY <1>2, FS_RemoveElement
<1>5. QED
  BY <1>3, <1>4, PoolAssumption DEF CountInv, TypeOK

\* One more node held is one more in the count.
LEMMA TakenIsCounted ==
  ASSUME TypeOK, NEW n, n \notin held
  PROVE  Cardinality(held \cup {n}) = Cardinality(held) + 1
<1>1. IsFiniteSet(Nodes)
  BY PoolAssumption, FS_Interval DEF Nodes
<1>2. IsFiniteSet(held)
  BY <1>1, FS_Subset DEF TypeOK
<1>3. QED
  BY <1>2, FS_AddElement

-----------------------------------------------------------------------------
(* The invariant                                                           *)

\* A pool that is not there yet satisfies the invariant.
LEMMA InitPool == Init => PoolInv
<1> SUFFICES ASSUME Init PROVE TypeOK /\ ~ready
  BY DEF PoolInv
<1>1. Nothing \in [Nodes -> Nodes \cup {NULL}]
  BY DEF Nothing
<1>2. 0 \in Nodes /\ 0 \in 0 .. Size
  BY PoolAssumption DEF Nodes
<1>3. QED
  BY <1>1, <1>2 DEF Init, TypeOK

\* ogs_pool_init keeps the invariant.
LEMMA PoolInitStep ==
  ASSUME PoolInv, PoolInit
  PROVE  PoolInv'
<1>1. TypeOK'
  <2>1. Nothing \in [Nodes -> Nodes \cup {NULL}] /\ [i \in Nodes |-> i] \in [Nodes -> Nodes \cup {NULL}]
    BY DEF Nothing
  <2>2. 0 \in Nodes /\ Size \in 0 .. Size
    BY PoolAssumption DEF Nodes
  <2>3. QED
    BY <2>1, <2>2 DEF PoolInit, TypeOK
<1>2. \A i \in 1 .. Size : SlotFrom(Size, head', i) = i - 1
  BY PoolAssumption DEF PoolInit, SlotFrom
<1>3. \A i \in 1 .. Size : free'[SlotFrom(Size, head', i)] = i - 1
  BY <1>2, PoolAssumption DEF PoolInit, Nodes
<1>4. TailInv'
  BY PoolAssumption DEF PoolInit, TailInv
<1>5. FreeNodes' /\ OnceInRing' /\ OutsideNull'
  <2>1. FreeNodes'
    BY <1>3, PoolAssumption DEF PoolInit, FreeNodes, Nodes
  <2>2. OnceInRing'
    BY <1>3, PoolAssumption DEF PoolInit, OnceInRing
  <2>3. OutsideNull'
    BY PoolAssumption DEF PoolInit, OutsideNull
  <2>4. QED
    BY <2>1, <2>2, <2>3
<1>6. NoneLost'
  <2>1. SUFFICES ASSUME NEW n \in Nodes PROVE \E i \in 1 .. Size : free'[SlotFrom(Size, head', i)] = n
    BY DEF NoneLost, PoolInit
  <2> DEFINE k == n + 1
  <2>2. k \in 1 .. Size /\ k - 1 = n
    BY PoolAssumption DEF Nodes
  <2> HIDE DEF k
  <2>3. QED
    BY <1>3, <2>2
<1>7. IndexInv' /\ CountInv'
  BY FS_EmptySet, PoolAssumption DEF PoolInit, IndexInv, CountInv, Nothing
<1>8. QED
  BY <1>1, <1>4, <1>5, <1>6, <1>7 DEF PoolInv, RingInv

\* ogs_pool_final keeps the invariant.
LEMMA PoolFinalStep ==
  ASSUME PoolInv, PoolFinal
  PROVE  PoolInv'
BY DEF PoolFinal, PoolInv, TypeOK, Nothing

\* The ring loses its first node: every other moves one place forward.
LEMMA AllocStep ==
  ASSUME PoolInv, Alloc
  PROVE  PoolInv'
<1>1. CASE avail = 0
  BY <1>1 DEF Alloc, PoolInv, TypeOK, RingInv, TailInv, FreeNodes, OnceInRing, NoneLost,
              OutsideNull, IndexInv, CountInv
<1>2. CASE avail > 0
  <2> USE <1>2
  <2>1. /\ TypeOK /\ RingInv /\ IndexInv /\ CountInv /\ ready
        /\ Size \in Nat \ {0} /\ NULL \notin Nodes
    BY PoolAssumption DEF PoolInv, Alloc
  <2>2. /\ avail' = avail - 1 /\ avail \in 1 .. Size
        /\ node' = free[head]
        /\ free' = [free EXCEPT ![head] = NULL]
        /\ head' = SlotNext(head) /\ head \in Nodes /\ head' \in Nodes
        /\ index' = [index EXCEPT ![node'] = node']
        /\ held' = held \cup {node'}
        /\ tail' = tail /\ ready' = ready
    <3>1. free[head] \in Nodes
      BY <2>1, SlotsDistinct DEF RingInv, FreeNodes, TypeOK
    <3>2. QED
      BY <2>1, <3>1, EntryIs, SlotNextIs DEF Alloc, TypeOK
  <2>3. node' \in Nodes \ held
    BY <2>1, <2>2, SlotsDistinct DEF RingInv, FreeNodes
  <2>4. TypeOK'
    BY <2>1, <2>2, <2>3 DEF TypeOK
  <2>5. /\ \A i \in 1 .. Size - 1 : SlotFrom(Size, head', i) = SlotFrom(Size, head, i + 1) /\ i + 1 \in 1 .. Size
        /\ SlotFrom(Size, head', Size) = head
    <3>1. /\ Size \in Nat /\ head \in Nat /\ head < Size
          /\ head' = IF head + 1 >= Size THEN head + 1 - Size ELSE head + 1
      BY <2>1, <2>2, SlotNextIs DEF Nodes
    <3>2. QED
      BY <3>1 DEF SlotFrom
  <2>6. /\ \A i \in 1 .. Size - 1 : free'[SlotFrom(Size, head', i)] = free[SlotFrom(Size, head, i + 1)]
        /\ free'[SlotFrom(Size, head', Size)] = NULL
    <3>1. \A i \in 1 .. Size - 1 : SlotFrom(Size, head, i + 1) # head /\ SlotFrom(Size, head, i + 1) \in Nodes
      <4>1. \A i \in 1 .. Size - 1 : i + 1 \in 1 .. Size /\ i + 1 # 1 /\ 1 \in 1 .. Size
        BY <2>1
      <4>2. QED
        BY <2>1, <4>1, SlotsDistinct
    <3>2. /\ free' \in [Nodes -> Nodes \cup {NULL}]
          /\ free'[head] = NULL
          /\ \A n \in Nodes : n # head => free'[n] = free[n]
      BY <2>1, <2>2 DEF TypeOK
    <3>3. QED
      BY <2>5, <3>1, <3>2
  <2>7. TailInv'
    <3>1. /\ Size \in Nat /\ head \in Nat /\ head < Size
          /\ head' = IF head + 1 >= Size THEN head + 1 - Size ELSE head + 1
      BY <2>1, <2>2, SlotNextIs DEF Nodes
    <3>2. QED
      BY <2>1, <2>2, <3>1 DEF RingInv, TailInv
  <2>8. FreeNodes'
    <3>1. SUFFICES ASSUME NEW i \in 1 .. avail - 1
                   PROVE  free'[SlotFrom(Size, head', i)] \in Nodes \ (held \cup {node'})
      BY <2>2 DEF FreeNodes
    <3>2. /\ i \in 1 .. Size - 1 /\ i + 1 \in 1 .. avail /\ 1 \in 1 .. avail /\ i + 1 # 1
      BY <2>1, <2>2
    <3>3. free[SlotFrom(Size, head, i + 1)] \in Nodes \ held /\ free[SlotFrom(Size, head, i + 1)] # free[SlotFrom(Size, head, 1)]
      BY <2>1, <3>2 DEF RingInv, FreeNodes, OnceInRing
    <3>4. QED
      BY <2>1, <2>2, <2>6, <3>2, <3>3, SlotsDistinct
  <2>9. OnceInRing'
    <3>1. SUFFICES ASSUME NEW i \in 1 .. avail - 1, NEW j \in 1 .. avail - 1, i # j
                   PROVE  free'[SlotFrom(Size, head', i)] # free'[SlotFrom(Size, head', j)]
      BY <2>2 DEF OnceInRing
    <3>2. /\ i \in 1 .. Size - 1 /\ j \in 1 .. Size - 1
          /\ i + 1 \in 1 .. avail /\ j + 1 \in 1 .. avail /\ i + 1 # j + 1
      BY <2>1, <2>2, <3>1
    <3>3. QED
      BY <2>1, <2>6, <3>2 DEF RingInv, OnceInRing
  <2>10. NoneLost'
    <3>1. SUFFICES ASSUME NEW n \in Nodes \ held, n # node'
                   PROVE  \E i \in 1 .. avail - 1 : free'[SlotFrom(Size, head', i)] = n
      BY <2>2 DEF NoneLost
    <3>2. PICK k \in 1 .. avail : free[SlotFrom(Size, head, k)] = n
      BY <2>1 DEF RingInv, NoneLost
    <3>3. k # 1
      BY <2>1, <2>2, <3>1, <3>2, SlotsDistinct
    <3>4. k - 1 \in 1 .. avail - 1 /\ k - 1 \in 1 .. Size - 1 /\ k - 1 + 1 = k
      BY <2>1, <2>2, <3>3
    <3>5. QED
      BY <2>6, <3>2, <3>4
  <2>11. OutsideNull'
    <3>1. SUFFICES ASSUME NEW i \in avail .. Size PROVE free'[SlotFrom(Size, head', i)] = NULL
      BY <2>2 DEF OutsideNull
    <3>2. CASE i = Size
      BY <2>6, <3>2
    <3>3. CASE i < Size
      <4>1. i \in 1 .. Size - 1 /\ i + 1 \in avail + 1 .. Size
        BY <2>1, <2>2, <3>3
      <4>2. QED
        BY <2>1, <2>6, <4>1 DEF RingInv, OutsideNull
    <3>4. QED
      BY <2>1, <2>2, <3>2, <3>3
  <2>12. IndexInv'
    BY <2>1, <2>2, <2>3 DEF IndexInv, TypeOK
  <2>13. CountInv'
    BY <2>1, <2>2, <2>3, TakenIsCounted DEF CountInv
  <2>14. QED
    BY <2>4, <2>7, <2>8, <2>9, <2>10, <2>11, <2>12, <2>13 DEF PoolInv, RingInv
<1>3. QED
  BY <1>1, <1>2 DEF PoolInv, TypeOK

\* The node goes into the slot after the ring's last one.
LEMMA FreeStep ==
  ASSUME PoolInv, NEW n \in held, Free(n)
  PROVE  PoolInv'
<1>1. /\ TypeOK /\ RingInv /\ IndexInv /\ CountInv /\ ready
      /\ Size \in Nat \ {0} /\ NULL \notin Nodes
  BY PoolAssumption DEF PoolInv, Free
<1>2. avail < Size /\ Cardinality(held \ {n}) = Cardinality(held) - 1
  BY <1>1, HeldLeavesRoom
<1>3. /\ avail' = avail + 1 /\ avail \in 0 .. Size - 1
      /\ n \in Nodes
      /\ free' = [free EXCEPT ![tail] = n]
      /\ tail' = SlotNext(tail) /\ tail \in Nodes /\ tail' \in Nodes
      /\ head' = head /\ head \in Nodes
      /\ index' = [index EXCEPT ![n] = NULL]
      /\ held' = held \ {n}
      /\ ready' = ready /\ node' = node
  BY <1>1, <1>2, EntryIs, SlotNextIs DEF Free, TypeOK
<1>4. TypeOK'
  BY <1>1, <1>3 DEF TypeOK
<1> DEFINE m == avail + 1
<1>5. m \in 1 .. Size /\ m - 1 = avail
  BY <1>1, <1>3
<1>6. tail = SlotFrom(Size, head, m)
  BY <1>1, <1>3 DEF RingInv, TailInv, SlotFrom, Nodes
<1> HIDE DEF m
<1>7. /\ free'[SlotFrom(Size, head, m)] = n
      /\ \A i \in 1 .. Size : i # m => free'[SlotFrom(Size, head, i)] = free[SlotFrom(Size, head, i)]
  <2>1. /\ free' \in [Nodes -> Nodes \cup {NULL}]
        /\ free'[tail] = n
        /\ \A x \in Nodes : x # tail => free'[x] = free[x]
    BY <1>1, <1>3 DEF TypeOK
  <2>2. \A i \in 1 .. Size : i # m => SlotFrom(Size, head, i) # tail /\ SlotFrom(Size, head, i) \in Nodes
    BY <1>1, <1>5, <1>6, SlotsDistinct
  <2>3. QED
    BY <1>6, <2>1, <2>2
<1>8. \A i \in 1 .. Size : i \in 1 .. m <=> (i \in 1 .. avail \/ i = m)
  BY <1>1, <1>3, <1>5
<1>9. avail' = m /\ head' = head
  BY <1>3 DEF m
<1>10. /\ \A i \in 1 .. avail : i \in 1 .. Size /\ i # m /\ i \in 1 .. m
       /\ \A i \in 1 .. m : i \in 1 .. Size
       /\ m \in 1 .. m
  BY <1>1, <1>3, <1>5
<1>11. TailInv'
  <2>1. /\ Size \in Nat /\ tail \in Nat /\ tail < Size /\ head \in Nat /\ head < Size
        /\ tail' = IF tail + 1 >= Size THEN tail + 1 - Size ELSE tail + 1
    BY <1>1, <1>3, SlotNextIs DEF Nodes
  <2>2. QED
    BY <1>1, <1>3, <2>1 DEF RingInv, TailInv
<1>12. FreeNodes'
  <2>1. SUFFICES ASSUME NEW i \in 1 .. m PROVE free'[SlotFrom(Size, head, i)] \in Nodes \ (held \ {n})
    BY <1>3, <1>9 DEF FreeNodes
  <2>2. QED
    BY <1>1, <1>3, <1>7, <1>8, <1>10, <2>1 DEF RingInv, FreeNodes
<1>13. OnceInRing'
  <2>1. SUFFICES ASSUME NEW i \in 1 .. m, NEW j \in 1 .. m, i # j
                 PROVE  free'[SlotFrom(Size, head, i)] # free'[SlotFrom(Size, head, j)]
    BY <1>9 DEF OnceInRing
  <2>2. \A k \in 1 .. avail : free'[SlotFrom(Size, head, k)] = free[SlotFrom(Size, head, k)]
                              /\ free[SlotFrom(Size, head, k)] \notin held
    BY <1>1, <1>7, <1>10 DEF RingInv, FreeNodes
  <2>3. QED
    BY <1>1, <1>7, <1>8, <1>10, <2>1, <2>2 DEF RingInv, OnceInRing
<1>14. NoneLost'
  <2>1. SUFFICES ASSUME NEW x \in Nodes \ (held \ {n})
                 PROVE  \E i \in 1 .. m : free'[SlotFrom(Size, head, i)] = x
    BY <1>3, <1>9 DEF NoneLost
  <2>2. CASE x = n
    BY <1>7, <1>10, <2>2
  <2>3. CASE x # n
    <3>1. PICK k \in 1 .. avail : free[SlotFrom(Size, head, k)] = x
      BY <1>1, <2>3 DEF RingInv, NoneLost
    <3>2. QED
      BY <1>7, <1>10, <3>1
  <2>4. QED
    BY <2>2, <2>3
<1>15. OutsideNull'
  <2>1. SUFFICES ASSUME NEW i \in m + 1 .. Size PROVE free'[SlotFrom(Size, head, i)] = NULL
    BY <1>9 DEF OutsideNull
  <2>2. i \in avail + 1 .. Size /\ i \in 1 .. Size /\ i # m
    BY <1>1, <1>3, <1>5
  <2>3. QED
    BY <1>1, <1>7, <2>2 DEF RingInv, OutsideNull
<1>16. IndexInv'
  BY <1>1, <1>3 DEF IndexInv, TypeOK
<1>17. CountInv'
  BY <1>1, <1>2, <1>3 DEF CountInv
<1>18. QED
  BY <1>3, <1>4, <1>11, <1>12, <1>13, <1>14, <1>15, <1>16, <1>17 DEF PoolInv, RingInv

\* Every call of the pool keeps the invariant.
LEMMA NextPool == PoolInv /\ [Next]_vars => PoolInv'
<1> SUFFICES ASSUME PoolInv, [Next]_vars PROVE PoolInv'
  OBVIOUS
<1>1. CASE PoolInit
  BY <1>1, PoolInitStep
<1>2. CASE PoolFinal
  BY <1>2, PoolFinalStep
<1>3. CASE Alloc
  BY <1>3, AllocStep
<1>4. CASE \E n \in held : Free(n)
  BY <1>4, FreeStep
<1>5. CASE UNCHANGED vars
  BY <1>5 DEF vars, PoolInv, TypeOK, RingInv, TailInv, FreeNodes, OnceInRing, NoneLost,
              OutsideNull, IndexInv, CountInv
<1>6. QED
  BY <1>1, <1>2, <1>3, <1>4, <1>5 DEF Next

\* The invariant holds all the time.
LEMMA PoolInvariant == Spec => []PoolInv
BY InitPool, NextPool, PTL DEF Spec

\* Whatever is allocated and released, head and tail stay inside free[] and
\* avail between 0 and the size of the pool.
THEOREM PoolTypeCorrect == Spec => []TypeOK
<1>1. PoolInv => TypeOK
  BY DEF PoolInv
<1>2. QED
  BY <1>1, PoolInvariant, PTL

\* The ring of a pool of any size holds exactly the nodes nobody has, each
\* of them once: no node is ever handed to two callers or lost, and the
\* guard of ogs_pool_free never drops a node its caller held.
THEOREM RingHoldsFreeNodes == Spec => []FreeRingExact
<1>1. PoolInv => FreeRingExact
  <2>1. SUFFICES ASSUME TypeOK, RingInv, CountInv PROVE FreeRingExact
    BY DEF PoolInv, FreeRingExact
  <2>2. \A i \in Int : Slot(i) = SlotFrom(Size, head, i)
    BY DEF Slot, SlotFrom
  <2>3. \A i, j \in 1 .. avail : i # j => free[Slot(i)] # free[Slot(j)]
    BY <2>1, <2>2 DEF RingInv, OnceInRing
  <2>4. {free[Slot(i)] : i \in 1 .. avail} = Nodes \ held
    BY <2>1, <2>2 DEF RingInv, FreeNodes, NoneLost
  <2>5. \A i \in avail + 1 .. Size : free[Slot(i)] = NULL
    BY <2>1, <2>2 DEF RingInv, OutsideNull
  <2>6. avail + Cardinality(held) = Size
    BY <2>1, PoolAssumption DEF CountInv, TypeOK
  <2>7. QED
    BY <2>3, <2>4, <2>5, <2>6 DEF FreeRingExact
<1>2. QED
  BY <1>1, PoolInvariant, PTL

\* A stale or never-given id finds nothing, and the id of a node in use
\* finds that node.
THEOREM IdsFindTheirNodes == Spec => []FindAgrees
<1>1. PoolInv => FindAgrees
  <2>1. SUFFICES ASSUME TypeOK, IndexInv, NEW id \in 0 .. Size
                 PROVE  Find(id) = IF id - 1 \in held THEN id - 1 ELSE NULL
    BY DEF PoolInv, FindAgrees
  <2>2. CASE id = 0
    BY <2>1, <2>2, PoolAssumption DEF Find, TypeOK, Nodes
  <2>3. CASE id # 0
    <3>1. id > 0 /\ id - 1 \in Nodes
      BY <2>3, PoolAssumption DEF Nodes
    <3>2. QED
      BY <2>1, <3>1 DEF Find, IndexInv
  <2>4. QED
    BY <2>2, <2>3
<1>2. QED
  BY <1>1, PoolInvariant, PTL

\* The macros of a pool of any size keep types, ring and index in order
\* together, after any sequence of allocations and releases.
THEOREM PoolIsSound == Spec => []PoolSound
<1>1. TypeOK /\ FreeRingExact /\ FindAgrees => PoolSound
  BY DEF PoolSound
<1>2. QED
  BY <1>1, PoolTypeCorrect, RingHoldsFreeNodes, IdsFindTheirNodes, PTL

-----------------------------------------------------------------------------
(* The refinement of FifoAllocator                                         *)

Items == Nodes \cup {NULL}
Known == {n \in Nodes : index[n] # NULL}
Order == IF ready THEN Ring ELSE << >>

\* The array of free nodes is a ring in the sense of ProofLemmas.
LEMMA FreeIsRing == TypeOK => IsRing(Size, Items, free)
BY PoolAssumption DEF TypeOK, IsRing, Items, Nodes

\* The free nodes, in order, are a window of that ring.
LEMMA RingIsWindow ==
  /\ Ring = RingWindow(Size, free, avail, head)
  /\ Ring' = RingWindow(Size, free', avail', head')
BY DEF Ring, RingWindow, Slot, SlotFrom

\* index[] knows the nodes the callers hold.
LEMMA KnownIsHeld ==
  /\ PoolInv /\ ready => Known = held
  /\ PoolInv' /\ ready' => Known' = held'
<1>1. PoolInv /\ ready => Known = held
  <2> SUFFICES ASSUME PoolInv, ready PROVE Known = held
    OBVIOUS
  <2>1. NULL \notin Nodes /\ held \subseteq Nodes /\ IndexInv
    BY PoolAssumption DEF PoolInv, TypeOK
  <2>2. QED
    BY <2>1 DEF IndexInv, Known
<1>2. PoolInv' /\ ready' => Known' = held'
  <2> SUFFICES ASSUME PoolInv', ready' PROVE Known' = held'
    OBVIOUS
  <2>1. NULL \notin Nodes /\ held' \subseteq Nodes /\ IndexInv'
    BY PoolAssumption DEF PoolInv, TypeOK
  <2>2. QED
    BY <2>1 DEF IndexInv, Known
<1>3. QED
  BY <1>1, <1>2

\* ogs_pool_alloc takes the node that has been free longest.
LEMMA AllocateRefined ==
  ASSUME PoolInv, PoolInv', Alloc, avail > 0
  PROVE  Allocator!Allocate
<1>1. ready /\ ready' = ready /\ TypeOK /\ Size \in Nat
  BY PoolAssumption DEF Alloc, PoolInv
<1>2. head \in 0 .. Size - 1 /\ avail \in 1 .. Size
  BY <1>1 DEF TypeOK, Nodes
<1>3. /\ Ring # << >>
      /\ Head(Ring) = free[head]
      /\ RingWindow(Size, free, avail - 1, SlotAfter(Size, head)) = Tail(Ring)
  BY <1>1, <1>2, WindowTail, FreeIsRing, RingIsWindow
<1>4. head' = SlotAfter(Size, head)
  BY <1>1, <1>2, SlotNextIs DEF Alloc, SlotAfter, TypeOK
<1>5. Ring' = Tail(Ring)
  <2>1. \A i \in 1 .. avail - 1 : SlotFrom(Size, head', i) # head /\ SlotFrom(Size, head', i) \in Nodes
    BY <1>1, <1>2, <1>4 DEF SlotFrom, SlotAfter, Nodes
  <2>2. \A x \in Nodes : x # head => free'[x] = free[x]
    BY <1>1 DEF Alloc, TypeOK
  <2>3. RingWindow(Size, free', avail - 1, head') = RingWindow(Size, free, avail - 1, head')
    BY <2>1, <2>2 DEF RingWindow
  <2>4. avail' = avail - 1
    BY DEF Alloc
  <2>5. QED
    BY <1>3, <1>4, <2>3, <2>4, RingIsWindow
<1>6. node' = Head(Ring) /\ held' = held \cup {node'}
  BY <1>3 DEF Alloc
<1>7. Known' = Known \cup {Head(Ring)}
  <2>1. Known = held /\ Known' = held'
    BY <1>1, KnownIsHeld
  <2>2. QED
    BY <1>6, <2>1
<1>8. QED
  BY <1>1, <1>3, <1>5, <1>6, <1>7 DEF Allocator!Allocate, Known

\* ogs_pool_free puts its node behind all the others.
LEMMA ReleaseRefined ==
  ASSUME PoolInv, PoolInv', NEW n \in held, Free(n)
  PROVE  Allocator!Release
<1>1. ready /\ ready' = ready /\ TypeOK /\ CountInv /\ RingInv /\ Size \in Nat \ {0}
  BY PoolAssumption DEF Free, PoolInv
<1>2. avail < Size /\ avail \in 0 .. Size - 1 /\ n \in Nodes /\ head \in 0 .. Size - 1
  <2>1. avail < Size
    BY <1>1, HeldLeavesRoom
  <2>2. avail \in 0 .. Size /\ head \in Nodes /\ n \in Nodes
    BY <1>1 DEF TypeOK
  <2>3. QED
    BY <1>1, <2>1, <2>2 DEF Nodes
<1>3. free' = [free EXCEPT ![tail] = n] /\ avail' = avail + 1 /\ head' = head /\ node' = node
      /\ held' = held \ {n}
  BY <1>2 DEF Free
<1>4. Ring' = Append(Ring, n)
  <2> DEFINE m == avail + 1
             e == free'
  <2>1. tail = SlotFrom(Size, head, m) /\ tail \in Nodes
    BY <1>1, <1>2 DEF RingInv, TailInv, SlotFrom, TypeOK, Nodes
  <2>2. IsRing(Size, Items, free) /\ IsRing(Size, Items, e)
    BY <1>1, FreeIsRing DEF PoolInv, TypeOK, IsRing, Items, Nodes
  <2>3. /\ e[SlotFrom(Size, head, m)] = n
        /\ \A i \in 0 .. Size - 1 : i # SlotFrom(Size, head, m) => e[i] = free[i]
    BY <1>1, <1>3, <2>1 DEF TypeOK, Nodes
  <2>4. ASSUME NEW d, NEW f, NEW k, NEW l, NEW o,
               d = free, f = free', k = avail, l = avail', o = head
        PROVE  RingWindow(Size, f, l, o) = Append(RingWindow(Size, d, k, o), f[SlotFrom(Size, o, l)])
    <3>1. /\ IsRing(Size, Items, d) /\ IsRing(Size, Items, f)
          /\ k \in 0 .. Size - 1 /\ l = k + 1 /\ o \in 0 .. Size - 1
          /\ \A i \in 0 .. Size - 1 : i # SlotFrom(Size, o, l) => f[i] = d[i]
      BY <1>2, <1>3, <2>2, <2>3, <2>4
    <3>2. QED
      BY <3>1, WindowAppend
  <2>5. RingWindow(Size, free', avail', head) = Append(RingWindow(Size, free, avail, head), n)
    <3>1. RingWindow(Size, free', avail', head)
            = Append(RingWindow(Size, free, avail, head), free'[SlotFrom(Size, head, avail')])
      BY <2>4
    <3>2. SlotFrom(Size, head, avail') = SlotFrom(Size, head, m)
      BY <1>3
    <3>3. QED
      BY <2>3, <3>1, <3>2
  <2>6. QED
    BY <1>3, <2>5, RingIsWindow
<1>5. Known' = Known \ {n} /\ n \in Known
  <2>1. Known = held /\ Known' = held'
    BY <1>1, KnownIsHeld
  <2>2. QED
    BY <1>3, <2>1
<1>6. QED
  BY <1>1, <1>3, <1>4, <1>5 DEF Allocator!Release, Known

\* Every step of the pool is a step of the allocator, or none.
LEMMA PoolRefines ==
  ASSUME PoolInv, PoolInv', [Next]_vars
  PROVE  [Allocator!Next]_(Allocator!vars)
<1>1. CASE PoolInit
  <2>1. ready' /\ avail' = Size /\ head' = 0 /\ node' = NULL /\ free' = [i \in Nodes |-> i]
        /\ index' = Nothing
    BY <1>1 DEF PoolInit
  <2>2. Ring' = [i \in 1 .. Size |-> i - 1]
    <3>1. \A i \in 1 .. Size : SlotFrom(Size, 0, i) = i - 1 /\ i - 1 \in Nodes
      BY PoolAssumption DEF SlotFrom, Nodes
    <3>2. QED
      BY <2>1, <3>1, RingIsWindow DEF RingWindow
  <2>3. Known' = {}
    BY <2>1 DEF Known, Nothing
  <2>4. QED
    BY <2>1, <2>2, <2>3 DEF Allocator!Next, Allocator!Create, Known
<1>2. CASE PoolFinal
  BY <1>2 DEF PoolFinal, Nothing, Allocator!Next, Allocator!Destroy
<1>3. CASE Alloc
  <2>1. CASE avail > 0
    BY <1>3, <2>1, AllocateRefined DEF Allocator!Next
  <2>2. CASE avail = 0
    <3>1. Ring = << >>
      <4>1. IsRing(Size, Items, free) /\ avail \in 0 .. Size /\ head \in 0 .. Size - 1
        BY FreeIsRing DEF PoolInv, TypeOK, Nodes
      <4>2. Len(Ring) = avail /\ Ring \in Seq(Items)
        BY <4>1, WindowSeq, RingIsWindow
      <4>3. QED
        BY <2>2, <4>2, EmptySeq
    <3>2. UNCHANGED <<Ring, ready, index>> /\ node' = NULL
      BY <1>3, <2>2 DEF Alloc, Ring, Slot
    <3>3. QED
      BY <3>1, <3>2 DEF Allocator!Next, Allocator!Refuse
  <2>3. QED
    BY <2>1, <2>2 DEF PoolInv, TypeOK
<1>4. CASE \E n \in held : Free(n)
  BY <1>4, ReleaseRefined DEF Allocator!Next
<1>5. CASE UNCHANGED vars
  BY <1>5 DEF vars, Allocator!vars, Ring, Slot
<1>6. QED
  BY <1>1, <1>2, <1>3, <1>4, <1>5 DEF Next

\* The two start alike.
LEMMA InitRefines == Init => Allocator!Init
BY DEF Init, Allocator!Init, Nothing

\* A pool of any size implements the allocator that gives out the node
\* free for longest and whose allocated nodes are those index[] knows.
THEOREM PoolImplementsAllocator == Spec => ImplementsAllocator
<1>1. Spec => []PoolInv
  BY PoolInvariant
<1>2. PoolInv /\ PoolInv' /\ [Next]_vars => [Allocator!Next]_(Allocator!vars)
  BY PoolRefines
<1>3. QED
  BY <1>1, <1>2, InitRefines, PTL DEF Spec, ImplementsAllocator, Allocator!Spec

-----------------------------------------------------------------------------
(* Lists                                                                   *)

\* The nodes of a list from node g on.
Rest(s, g) == {s[j] : j \in {j \in DOMAIN s : \E k \in 1 .. j : s[k] = g}}

\* The links forwards lead through s, those backwards through s from its end.
IsChain(s) == /\ s \in Seq(Lnodes) /\ IsInjective(s)
              /\ IsWalk(s, first, next)
              /\ last = At(s, Len(s))
              /\ \A i \in DOMAIN s : prev[s[i]] = At(s, i - 1)

\* A loop that has not been cut off has still to visit the node it goes to and
\* those behind, and nothing else.
LoopKnows(s) == each # "no" /\ ~cut => Goal \in ToSet(s) \cup {NoLnode} /\ due = Rest(s, Goal)

ListTypes == /\ first \in Lnodes \cup {NoLnode} /\ last \in Lnodes \cup {NoLnode}
             /\ prev \in [Lnodes -> Lnodes \cup {NoLnode}]
             /\ next \in [Lnodes -> Lnodes \cup {NoLnode}]
             /\ each \in {"no", "each", "safe"} /\ cut \in BOOLEAN
             /\ ahead \in Lnodes \cup {NoLnode} /\ due \subseteq Lnodes
             /\ IF each = "no" THEN lnode = NoLnode ELSE lnode \in Lnodes

\* The inductive invariant.
ListInv == ListTypes /\ IsChain(List) /\ LoopKnows(List)
-----------------------------------------------------------------------------
(* The nodes that the links lead to                                        *)

\* What At is.
LEMMA AtIs ==
  ASSUME NEW s \in Seq(Lnodes), NEW i \in Int
  PROVE  /\ Len(s) \in Nat /\ DOMAIN s = 1 .. Len(s)
         /\ i \in 1 .. Len(s) => At(s, i) = s[i] /\ s[i] \in Lnodes
         /\ i \notin 1 .. Len(s) => At(s, i) = NoLnode
         /\ At(s, i) = NoLnode <=> i \notin 1 .. Len(s)
         /\ At(s, i) \in ToSet(s) \cup {NoLnode}
<1>1. Len(s) \in Nat /\ DOMAIN s = 1 .. Len(s)
  BY LenProperties
<1>2. \A j \in 1 .. Len(s) : s[j] \in Lnodes /\ s[j] # NoLnode /\ s[j] \in ToSet(s)
  BY <1>1, ElementOfSeq, ListAssumption DEF ToSet
<1>3. QED
  BY <1>1, <1>2 DEF At

\* Links lead to one sequence of nodes at most: two of them agree at each
\* place, as a first one where they differ would be led to by the same link.
LEMMA WalkIsUnique ==
  ASSUME NEW n, NEW link, NEW s \in Seq(Lnodes), NEW t \in Seq(Lnodes),
         IsWalk(s, n, link), IsWalk(t, n, link)
  PROVE  s = t
<1> DEFINE Wrong == {i \in Nat \ {0} : At(s, i) # At(t, i)}
<1>1. Wrong = {}
  <2>1. SUFFICES ASSUME Wrong # {} PROVE FALSE
    OBVIOUS
  <2>2. PICK i \in Wrong : \A j \in Wrong : i <= j
    <3>1. Wrong \subseteq Nat
      OBVIOUS
    <3>2. QED
      BY <2>1, <3>1, LeastNumber
  <2>3. i \in Nat \ {0, 1}
    BY <2>2 DEF IsWalk
  <2> DEFINE h == i - 1
  <2>4. h \in Nat \ {0} /\ h \in Int /\ i \in Int /\ h + 1 = i
    BY <2>3
  <2>5. At(s, h) = At(t, h)
    BY <2>2, <2>4
  <2>6. CASE h \in 1 .. Len(s)
    <3>1. h \in 1 .. Len(t)
      BY <2>4, <2>5, <2>6, AtIs
    <3>2. s[h] = t[h] /\ h \in DOMAIN s /\ h \in DOMAIN t
      BY <2>4, <2>5, <2>6, <3>1, AtIs
    <3>3. At(s, h + 1) = At(t, h + 1)
      BY <3>2 DEF IsWalk
    <3>4. QED
      BY <2>2, <2>4, <3>3
  <2>7. CASE h \notin 1 .. Len(s)
    <3>1. h \notin 1 .. Len(t)
      BY <2>4, <2>5, <2>7, AtIs
    <3>2. Len(s) \in Nat /\ Len(t) \in Nat
      BY LenProperties
    <3>3. i \notin 1 .. Len(s) /\ i \notin 1 .. Len(t)
      BY <2>4, <2>7, <3>1, <3>2
    <3>4. QED
      BY <2>2, <2>4, <3>3, AtIs
  <2>8. QED
    BY <2>6, <2>7
<1>2. \A i \in Nat \ {0} : At(s, i) = At(t, i)
  BY <1>1
<1>3. Len(s) \in Nat /\ Len(t) \in Nat
  BY LenProperties
<1>4. \A i \in Nat \ {0} : i \in 1 .. Len(s) <=> i \in 1 .. Len(t)
  <2>1. TAKE i \in Nat \ {0}
  <2>2. i \in Int /\ At(s, i) = At(t, i)
    BY <1>2
  <2>3. QED
    BY <2>2, AtIs
<1>5. Len(s) = Len(t)
  <2>1. CASE Len(s) > Len(t)
    BY <1>3, <1>4, <2>1
  <2>2. CASE Len(s) < Len(t)
    BY <1>3, <1>4, <2>2
  <2>3. QED
    BY <1>3, <2>1, <2>2
<1>6. \A i \in 1 .. Len(s) : s[i] = t[i]
  <2>1. TAKE i \in 1 .. Len(s)
  <2>2. i \in Int /\ i \in Nat \ {0} /\ i \in 1 .. Len(t)
    BY <1>3, <1>5
  <2>3. At(s, i) = s[i] /\ At(t, i) = t[i] /\ At(s, i) = At(t, i)
    BY <1>2, <2>2, AtIs
  <2>4. QED
    BY <2>3
<1>7. QED
  BY <1>5, <1>6, SeqEqual

\* So a sequence of different nodes that the links lead to is what List is.
LEMMA ListIs ==
  ASSUME NEW n, NEW link, NEW s \in Seq(Lnodes), IsInjective(s), IsWalk(s, n, link)
  PROVE  (CHOOSE t \in BoundedSeq(Lnodes, Cardinality(Lnodes)) : IsWalk(t, n, link)) = s
<1> DEFINE max == Cardinality(Lnodes)
<1>1. max \in Nat /\ Len(s) \in Nat
  BY ListAssumption, FS_CardinalityType, LenProperties
<1>2. Len(s) <= max
  <2>1. Cardinality(ToSet(s)) = Len(s)
    BY ElementsAreFinite
  <2>2. ToSet(s) \subseteq Lnodes
    BY AtIs, ElementOfSeq DEF ToSet
  <2>3. QED
    BY <2>1, <2>2, ListAssumption, FS_Subset
<1>3. s \in [1 .. Len(s) -> Lnodes]
  BY SeqDef, LenProperties
<1>4. s \in BoundedSeq(Lnodes, max)
  BY <1>1, <1>2, <1>3 DEF BoundedSeq, SeqOf
<1>5. \A t \in BoundedSeq(Lnodes, max) : t \in Seq(Lnodes)
  <2>1. TAKE t \in BoundedSeq(Lnodes, max)
  <2>2. PICK m \in 0 .. max : t \in [1 .. m -> Lnodes]
    BY DEF BoundedSeq, SeqOf
  <2>3. m \in Nat
    BY <1>1
  <2>4. QED
    BY <2>2, <2>3, SeqDef
<1>6. \A t \in BoundedSeq(Lnodes, max) : IsWalk(t, n, link) => t = s
  BY <1>5, WalkIsUnique
<1>7. QED
  BY <1>4, <1>6

-----------------------------------------------------------------------------
(* The rest of a list                                                      *)

\* What is in the rest.
LEMMA RestIs ==
  ASSUME NEW s \in Seq(Lnodes), NEW g
  PROVE  /\ \A x : x \in Rest(s, g) <=>
                     \E j \in 1 .. Len(s) : s[j] = x /\ \E k \in 1 .. j : s[k] = g
         /\ Rest(s, NoLnode) = {}
<1>1. Len(s) \in Nat /\ DOMAIN s = 1 .. Len(s)
  BY LenProperties
<1>2. \A j \in 1 .. Len(s) : s[j] # NoLnode
  BY <1>1, ElementOfSeq, ListAssumption
<1>3. \A j \in 1 .. Len(s) : \A k \in 1 .. j : k \in 1 .. Len(s)
  BY <1>1
<1>4. QED
  BY <1>1, <1>2, <1>3 DEF Rest

\* The rest of a list from its k-th node on are the places from k on.
LEMMA RestFrom ==
  ASSUME NEW s \in Seq(Lnodes), IsInjective(s), NEW k \in 1 .. Len(s)
  PROVE  \A x : x \in Rest(s, s[k]) <=> \E j \in k .. Len(s) : s[j] = x
<1>1. Len(s) \in Nat /\ DOMAIN s = 1 .. Len(s)
  BY LenProperties
<1>2. \A i \in 1 .. Len(s) : s[i] = s[k] => i = k
  BY <1>1 DEF IsInjective
<1>3. ASSUME NEW x, x \in Rest(s, s[k]) PROVE \E j \in k .. Len(s) : s[j] = x
  <2>1. PICK j \in 1 .. Len(s) : s[j] = x /\ \E i \in 1 .. j : s[i] = s[k]
    BY <1>3, RestIs
  <2>2. k \in 1 .. j
    BY <1>1, <1>2, <2>1
  <2>3. QED
    BY <1>1, <2>1, <2>2
<1>4. ASSUME NEW x, NEW j \in k .. Len(s), s[j] = x PROVE x \in Rest(s, s[k])
  <2>1. j \in 1 .. Len(s) /\ k \in 1 .. j
    BY <1>1
  <2>2. QED
    BY <1>4, <2>1, RestIs
<1>5. QED
  BY <1>3, <1>4

\* Behind a node comes what is left of the rest without it.
LEMMA RestNext ==
  ASSUME NEW s \in Seq(Lnodes), IsInjective(s), NEW k \in 1 .. Len(s)
  PROVE  Rest(s, At(s, k + 1)) = Rest(s, s[k]) \ {s[k]}
<1>1. Len(s) \in Nat /\ DOMAIN s = 1 .. Len(s) /\ k + 1 \in Int
  BY LenProperties
<1>2. \A i \in 1 .. Len(s) : s[i] = s[k] => i = k
  BY <1>1 DEF IsInjective
<1>3. \A x : x \in Rest(s, s[k]) \ {s[k]} <=> \E j \in (k + 1) .. Len(s) : s[j] = x
  <2>1. \A j \in k .. Len(s) : s[j] # s[k] <=> j \in (k + 1) .. Len(s)
    BY <1>1, <1>2
  <2>2. \A j \in (k + 1) .. Len(s) : j \in k .. Len(s)
    BY <1>1
  <2>3. \A x : x \in Rest(s, s[k]) <=> \E j \in k .. Len(s) : s[j] = x
    BY RestFrom
  <2>4. ASSUME NEW x, x \in Rest(s, s[k]), x # s[k] PROVE \E j \in (k + 1) .. Len(s) : s[j] = x
    <3>1. PICK j \in k .. Len(s) : s[j] = x
      BY <2>3, <2>4
    <3>2. QED
      BY <2>1, <2>4, <3>1
  <2>5. ASSUME NEW j \in (k + 1) .. Len(s) PROVE s[j] \in Rest(s, s[k]) /\ s[j] # s[k]
    BY <2>1, <2>2, <2>3
  <2>6. QED
    BY <2>4, <2>5
<1>4. CASE k + 1 \in 1 .. Len(s)
  <2>1. At(s, k + 1) = s[k + 1]
    BY <1>1, <1>4, AtIs
  <2>2. \A x : x \in Rest(s, s[k + 1]) <=> \E j \in (k + 1) .. Len(s) : s[j] = x
    BY <1>4, RestFrom
  <2>3. QED
    BY <1>3, <2>1, <2>2
<1>5. CASE k + 1 \notin 1 .. Len(s)
  <2>1. Rest(s, At(s, k + 1)) = {}
    BY <1>1, <1>5, AtIs, RestIs
  <2>2. \A j \in (k + 1) .. Len(s) : FALSE
    BY <1>1, <1>5
  <2>3. QED
    BY <1>3, <2>1, <2>2
<1>6. QED
  BY <1>4, <1>5

\* From the first node on the rest is all of it.
LEMMA RestOfFirst ==
  ASSUME NEW s \in Seq(Lnodes), IsInjective(s), At(s, 1) # NoLnode
  PROVE  Rest(s, At(s, 1)) = ToSet(s)
<1>1. Len(s) \in Nat /\ DOMAIN s = 1 .. Len(s) /\ 1 \in 1 .. Len(s) /\ At(s, 1) = s[1]
  BY AtIs
<1>2. \A x : x \in Rest(s, s[1]) <=> \E j \in 1 .. Len(s) : s[j] = x
  BY <1>1, RestFrom
<1>3. \A x : x \in ToSet(s) <=> \E j \in 1 .. Len(s) : s[j] = x
  BY <1>1 DEF ToSet
<1>4. QED
  BY <1>1, <1>2, <1>3

\* A node added at the end is in the rest of every other, and has no rest.
LEMMA RestAppend ==
  ASSUME NEW s \in Seq(Lnodes), IsInjective(s), NEW n \in Lnodes \ ToSet(s)
  PROVE  /\ Rest(Append(s, n), n) = {n}
         /\ \A g \in ToSet(s) : Rest(Append(s, n), g) = Rest(s, g) \cup {n}
<1> DEFINE t == Append(s, n)
<1>1. Len(s) \in Nat /\ DOMAIN s = 1 .. Len(s)
  BY LenProperties
<1>2. /\ t \in Seq(Lnodes) /\ Len(t) = Len(s) + 1 /\ t[Len(s) + 1] = n
      /\ \A i \in 1 .. Len(s) : t[i] = s[i]
  BY <1>1, AppendProperties
<1>3. IsInjective(t)
  BY InjectiveAppend
<1> HIDE DEF t
<1>4. \A k \in 1 .. Len(t) : \A x : x \in Rest(t, t[k]) <=> \E j \in k .. Len(t) : t[j] = x
  BY <1>2, <1>3, RestFrom
<1>5. Len(t) \in 1 .. Len(t) /\ t[Len(t)] = n
  BY <1>1, <1>2
<1>6. Rest(t, n) = {n}
  <2>1. \A j \in Len(t) .. Len(t) : j = Len(t)
    BY <1>1, <1>2
  <2>2. Len(t) \in Len(t) .. Len(t)
    BY <1>1, <1>2
  <2>3. \A x : x \in Rest(t, n) <=> x = n
    BY <1>4, <1>5, <2>1, <2>2
  <2>4. QED
    BY <2>3
<1>7. ASSUME NEW g \in ToSet(s) PROVE Rest(t, g) = Rest(s, g) \cup {n}
  <2>1. PICK k \in 1 .. Len(s) : s[k] = g
    BY <1>1 DEF ToSet
  <2>2. k \in 1 .. Len(t) /\ t[k] = g
    BY <1>1, <1>2, <2>1
  <2>3. \A x : x \in Rest(t, g) <=> \E j \in k .. Len(t) : t[j] = x
    BY <1>4, <2>2
  <2>4. \A x : x \in Rest(s, g) <=> \E j \in k .. Len(s) : s[j] = x
    BY <2>1, RestFrom
  <2>5. \A j \in k .. Len(s) : j \in k .. Len(t) /\ t[j] = s[j]
    BY <1>1, <1>2
  <2>6. \A j \in k .. Len(t) : j \in k .. Len(s) \/ j = Len(t)
    BY <1>1, <1>2
  <2>7. Len(t) \in k .. Len(t)
    BY <1>1, <1>2
  <2>8. \A x : x \in Rest(t, g) <=> x \in Rest(s, g) \/ x = n
    BY <1>5, <2>3, <2>4, <2>5, <2>6, <2>7
  <2>9. QED
    BY <2>8
<1>8. QED
  BY <1>6, <1>7 DEF t

\* A node taken out is in no rest any more, and the rests of the others lose
\* nothing else.
LEMMA RestRemove ==
  ASSUME NEW s \in Seq(Lnodes), IsInjective(s), NEW k \in 1 .. Len(s),
         NEW g \in (ToSet(s) \ {s[k]}) \cup {NoLnode}
  PROVE  Rest(RemoveAt(s, k), g) = Rest(s, g) \ {s[k]}
<1> DEFINE t == RemoveAt(s, k)
           To(i) == IF i < k THEN i ELSE i + 1
<1>1. Len(s) \in Nat /\ DOMAIN s = 1 .. Len(s) /\ k \in DOMAIN s
  BY LenProperties
<1>2. /\ t \in Seq(Lnodes) /\ Len(t) = Len(s) - 1 /\ IsInjective(t)
      /\ \A i \in 1 .. Len(t) : t[i] = s[To(i)]
  BY <1>1, RemovedAt, InjectiveRemove
<1> HIDE DEF t
<1>3. CASE g = NoLnode
  BY <1>2, <1>3, RestIs DEF t
<1>4. CASE g # NoLnode
  <2>1. PICK i \in 1 .. Len(s) : s[i] = g /\ i # k
    BY <1>1, <1>4 DEF ToSet
  <2> DEFINE h == IF i < k THEN i ELSE i - 1
  <2>2. h \in 1 .. Len(t) /\ To(h) = i
    BY <1>1, <1>2, <2>1
  <2>3. t[h] = g
    BY <1>2, <2>1, <2>2
  <2>4. \A x : x \in Rest(t, g) <=> \E j \in h .. Len(t) : t[j] = x
    <3> HIDE DEF h, To
    <3>1. \A x : x \in Rest(t, t[h]) <=> \E j \in h .. Len(t) : t[j] = x
      BY <1>2, <2>2, RestFrom
    <3>2. QED
      BY <2>3, <3>1
  <2>5. \A x : x \in Rest(s, g) <=> \E j \in i .. Len(s) : s[j] = x
    BY <2>1, RestFrom
  <2>6. \A j \in h .. Len(t) : /\ To(j) \in i .. Len(s) /\ To(j) # k /\ To(j) \in 1 .. Len(s)
                               /\ t[j] = s[To(j)]
    BY <1>1, <1>2, <2>2
  <2>7. \A j \in 1 .. Len(s) : s[j] = s[k] => j = k
    BY <1>1 DEF IsInjective
  <2>8. ASSUME NEW j \in i .. Len(s), j # k PROVE \E e \in h .. Len(t) : To(e) = j
    <3>1. CASE j < k
      <4>1. j \in h .. Len(t) /\ To(j) = j
        BY <1>1, <1>2, <2>2, <3>1
      <4>2. QED
        BY <4>1
    <3>2. CASE ~(j < k)
      <4>1. j - 1 \in h .. Len(t) /\ To(j - 1) = j
        BY <1>1, <1>2, <2>1, <2>2, <2>8, <3>2
      <4>2. QED
        BY <4>1
    <3>3. QED
      BY <3>1, <3>2
  <2> HIDE DEF h, To
  <2>9. ASSUME NEW x, x \in Rest(t, g) PROVE x \in Rest(s, g) /\ x # s[k]
    <3>1. PICK j \in h .. Len(t) : t[j] = x
      BY <2>4, <2>9
    <3>2. QED
      BY <2>5, <2>6, <2>7, <3>1
  <2>10. ASSUME NEW x, x \in Rest(s, g), x # s[k] PROVE x \in Rest(t, g)
    <3>1. PICK j \in i .. Len(s) : s[j] = x
      BY <2>5, <2>10
    <3>2. PICK e \in h .. Len(t) : To(e) = j
      BY <2>8, <2>10, <3>1
    <3>3. QED
      BY <2>4, <2>6, <3>1, <3>2
  <2>11. QED
    BY <2>9, <2>10 DEF t
<1>5. QED
  BY <1>3, <1>4

-----------------------------------------------------------------------------
(* The steps                                                               *)

\* The invariant of the next state, for the sequence that its links lead to.
LEMMA ChainIsList ==
  ASSUME NEW t, ListTypes', IsChain(t)', LoopKnows(t)'
  PROVE  ListInv'
<1>1. t \in Seq(Lnodes) /\ IsInjective(t) /\ IsWalk(t, first', next')
  BY DEF IsChain
<1>2. List' = t
  BY <1>1, ListIs DEF List
<1>3. IsChain(List)' /\ LoopKnows(List)'
  BY <1>2 DEF IsChain, LoopKnows
<1>4. QED
  BY <1>3 DEF ListInv

\* What the steps below use of the sequence s that the links lead to.
LEMMA ChainSays ==
  ASSUME ListTypes, NEW s, IsChain(s)
  PROVE  /\ s \in Seq(Lnodes) /\ IsInjective(s) /\ Len(s) \in Nat /\ DOMAIN s = 1 .. Len(s)
         /\ first = At(s, 1) /\ last = At(s, Len(s))
         /\ \A i \in 1 .. Len(s) : /\ s[i] \in Lnodes /\ s[i] \in ToSet(s)
                                   /\ next[s[i]] = At(s, i + 1) /\ prev[s[i]] = At(s, i - 1)
         /\ \A i, j \in 1 .. Len(s) : s[i] = s[j] => i = j
         /\ \A n \in ToSet(s) : n \in Lnodes /\ \E i \in 1 .. Len(s) : s[i] = n
<1>1. s \in Seq(Lnodes) /\ IsInjective(s) /\ Len(s) \in Nat /\ DOMAIN s = 1 .. Len(s)
  BY LenProperties DEF IsChain
<1>2. \A i \in 1 .. Len(s) : s[i] \in Lnodes /\ s[i] \in ToSet(s)
  BY <1>1, ElementOfSeq DEF ToSet
<1>3. \A n \in ToSet(s) : \E i \in 1 .. Len(s) : s[i] = n
  BY <1>1 DEF ToSet
<1>4. \A i, j \in 1 .. Len(s) : s[i] = s[j] => i = j
  BY <1>1 DEF IsInjective
<1>5. QED
  BY <1>1, <1>2, <1>3, <1>4 DEF IsChain, IsWalk

\* ogs_list_add puts the node behind all others.
LEMMA AddKeepsChain ==
  ASSUME ListTypes, NEW s, IsChain(s), NEW n \in Lnodes \ ToSet(s),
         prev' = [prev EXCEPT ![n] = last],
         next' = [m \in Lnodes |-> IF m = n THEN NoLnode ELSE IF m = last THEN n ELSE next[m]],
         first' = IF last = NoLnode THEN n ELSE first,
         last' = n
  PROVE  IsChain(Append(s, n))'
<1> DEFINE t == Append(s, n)
           len == Len(s)
<1>1. /\ s \in Seq(Lnodes) /\ IsInjective(s) /\ len \in Nat /\ DOMAIN s = 1 .. len
      /\ first = At(s, 1) /\ last = At(s, len)
      /\ \A i \in 1 .. len : /\ s[i] \in Lnodes /\ s[i] \in ToSet(s)
                             /\ next[s[i]] = At(s, i + 1) /\ prev[s[i]] = At(s, i - 1)
      /\ \A i, j \in 1 .. len : s[i] = s[j] => i = j
  BY ChainSays
<1>2. /\ t \in Seq(Lnodes) /\ Len(t) = len + 1 /\ t[len + 1] = n
      /\ \A i \in 1 .. len : t[i] = s[i]
  BY <1>1, AppendProperties
<1>3. IsInjective(t)
  BY <1>1, InjectiveAppend
<1> HIDE DEF t
<1>4. /\ \A i \in 1 .. len : At(s, i) = s[i] /\ At(t, i) = s[i]
      /\ At(s, 0) = NoLnode /\ At(t, 0) = NoLnode
      /\ At(s, len + 1) = NoLnode /\ At(t, len + 1) = n /\ At(t, len + 2) = NoLnode
  <2>1. \A i \in Int : i \in 1 .. len => At(s, i) = s[i] /\ At(t, i) = t[i]
    BY <1>1, <1>2, AtIs
  <2>2. \A i \in 1 .. len : i \in Int
    OBVIOUS
  <2>3. At(s, 0) = NoLnode /\ At(t, 0) = NoLnode
    BY <1>1, <1>2, AtIs
  <2>4. len + 1 \in Int /\ len + 2 \in Int /\ len + 1 \notin 1 .. len
        /\ len + 1 \in 1 .. Len(t) /\ len + 2 \notin 1 .. Len(t)
    BY <1>1, <1>2
  <2>5. At(s, len + 1) = NoLnode /\ At(t, len + 1) = n /\ At(t, len + 2) = NoLnode
    BY <1>1, <1>2, <2>4, AtIs
  <2>6. QED
    BY <1>2, <2>1, <2>2, <2>3, <2>5
<1>5. prev \in [Lnodes -> Lnodes \cup {NoLnode}] /\ n # NoLnode
  BY ListAssumption DEF ListTypes
<1>6. \A i \in 1 .. len : s[i] # n /\ s[i] # NoLnode
  BY <1>1, ListAssumption
<1>7. ASSUME NEW i \in 1 .. Len(t) PROVE next'[t[i]] = At(t, i + 1)
  <2>1. CASE i = len + 1
    <3>1. i + 1 = len + 2
      BY <1>1, <2>1
    <3>2. QED
      BY <1>2, <1>4, <2>1, <3>1
  <2>2. CASE i = len /\ i # 0
    <3>1. i \in 1 .. len /\ s[i] = last
      BY <1>1, <1>4, <2>2
    <3>2. next'[s[i]] = n
      BY <1>1, <1>6, <3>1
    <3>3. QED
      BY <1>2, <1>4, <2>2, <3>1, <3>2
  <2>3. CASE i < len
    <3>1. i \in 1 .. len /\ i + 1 \in 1 .. len /\ len \in 1 .. len
      BY <1>1, <2>3
    <3>2. s[i] # last
      BY <1>1, <1>4, <2>3, <3>1
    <3>3. next'[s[i]] = next[s[i]]
      BY <1>1, <1>6, <3>1, <3>2
    <3>4. QED
      BY <1>1, <1>2, <1>4, <3>1, <3>3
  <2>4. QED
    BY <1>1, <1>2, <2>1, <2>2, <2>3
<1>8. ASSUME NEW i \in 1 .. Len(t) PROVE prev'[t[i]] = At(t, i - 1)
  <2>1. CASE i = len + 1
    <3>1. prev'[t[i]] = last
      BY <1>2, <1>5, <2>1
    <3>2. i - 1 = len
      BY <1>1, <2>1
    <3>3. At(t, len) = At(s, len)
      BY <1>1, <1>4
    <3>4. QED
      BY <1>1, <3>1, <3>2, <3>3
  <2>2. CASE i # len + 1
    <3>1. i \in 1 .. len
      BY <1>1, <1>2, <2>2
    <3>2. prev'[s[i]] = At(s, i - 1)
      BY <1>1, <1>5, <1>6, <3>1
    <3>3. At(s, i - 1) = At(t, i - 1)
      <4>1. i - 1 = 0 \/ i - 1 \in 1 .. len
        BY <1>1, <3>1
      <4>2. QED
        BY <1>4, <4>1
    <3>4. QED
      BY <1>2, <3>1, <3>2, <3>3
  <2>3. QED
    BY <2>1, <2>2
<1>9. first' = At(t, 1)
  <2>1. CASE len = 0
    BY <1>1, <1>4, <2>1
  <2>2. CASE len # 0
    <3>1. 1 \in 1 .. len /\ len \in 1 .. len
      BY <1>1, <2>2
    <3>2. last # NoLnode
      BY <1>1, <1>4, <1>6, <3>1
    <3>3. QED
      BY <1>1, <1>4, <3>1, <3>2
  <2>3. QED
    BY <2>1, <2>2
<1>10. last' = At(t, Len(t))
  BY <1>2, <1>4
<1>11. DOMAIN t = 1 .. Len(t)
  BY <1>2, LenProperties
<1>12. IsWalk(t, first', next')
  BY <1>7, <1>9, <1>11 DEF IsWalk
<1>13. QED
  BY <1>2, <1>3, <1>8, <1>10, <1>11, <1>12 DEF IsChain, t

\* ogs_list_remove joins the neighbours of the node.
LEMMA RemoveKeepsChain ==
  ASSUME ListTypes, NEW s, IsChain(s), NEW k \in 1 .. Len(s), NEW n, n = s[k],
         IF prev[n] = NoLnode THEN first' = next[n] /\ next' = next
         ELSE next' = [next EXCEPT ![prev[n]] = next[n]] /\ first' = first,
         last' = LastAfterRemove(n), prev' = PrevAfterRemove(n)
  PROVE  IsChain(RemoveAt(s, k))'
<1> DEFINE t == RemoveAt(s, k)
           len == Len(s)
<1>1. /\ s \in Seq(Lnodes) /\ IsInjective(s) /\ len \in Nat \ {0} /\ DOMAIN s = 1 .. len
      /\ first = At(s, 1) /\ last = At(s, len)
      /\ \A i \in 1 .. len : /\ s[i] \in Lnodes /\ s[i] \in ToSet(s)
                             /\ next[s[i]] = At(s, i + 1) /\ prev[s[i]] = At(s, i - 1)
      /\ \A i, j \in 1 .. len : s[i] = s[j] => i = j
  BY ChainSays
<1>2. /\ t \in Seq(Lnodes) /\ Len(t) = len - 1 /\ IsInjective(t) /\ DOMAIN t = 1 .. (len - 1)
      /\ \A i \in 1 .. (len - 1) : t[i] = IF i < k THEN s[i] ELSE s[i + 1]
  <2>1. t \in Seq(Lnodes) /\ Len(t) = len - 1 /\ IsInjective(t)
        /\ \A i \in 1 .. (len - 1) : t[i] = IF i < k THEN s[i] ELSE s[i + 1]
    <3>1. k \in DOMAIN s /\ k \in 1 .. Len(s)
      BY <1>1
    <3>2. t \in Seq(Lnodes) /\ IsInjective(t)
      BY <1>1, <3>1, InjectiveRemove
    <3>3. s \in Seq(Lnodes)
      BY <1>1
    <3>4. /\ Len(RemoveAt(s, k)) = Len(s) - 1
          /\ \A i \in 1 .. (Len(s) - 1) : RemoveAt(s, k)[i] = IF i < k THEN s[i] ELSE s[i + 1]
      BY <3>1, <3>3, RemovedAt
    <3>5. QED
      BY <3>2, <3>4
  <2>2. QED
    BY <2>1, LenProperties
<1> HIDE DEF t
<1>3. \A i \in Nat : At(t, i) = IF i < k THEN At(s, i) ELSE At(s, i + 1)
  <2>1. TAKE i \in Nat
  <2>2. i \in Int /\ i + 1 \in Int
    OBVIOUS
  <2>3. CASE i \in 1 .. (len - 1)
    <3>1. At(t, i) = t[i]
      BY <1>2, <2>2, <2>3, AtIs
    <3>2. i \in 1 .. len /\ i + 1 \in 1 .. len
      BY <1>1, <2>3
    <3>3. At(s, i) = s[i] /\ At(s, i + 1) = s[i + 1]
      BY <1>1, <2>2, <3>2, AtIs
    <3>4. QED
      BY <1>2, <2>3, <3>1, <3>3
  <2>4. CASE i \notin 1 .. (len - 1)
    <3>1. At(t, i) = NoLnode
      BY <1>2, <2>2, <2>4, AtIs
    <3>2. i = 0 \/ i >= len
      BY <1>1, <2>4
    <3>3. i < k => i \notin 1 .. len
      BY <1>1, <3>2
    <3>4. ~(i < k) => i + 1 \notin 1 .. len
      BY <1>1, <3>2
    <3>5. QED
      BY <1>1, <2>2, <3>1, <3>3, <3>4, AtIs
  <2>5. QED
    BY <2>3, <2>4
<1>4. /\ \A i \in 1 .. len : At(s, i) = s[i] /\ s[i] # NoLnode
      /\ At(s, 0) = NoLnode /\ At(s, len + 1) = NoLnode
  <2>1. \A i \in Int : (i \in 1 .. len => At(s, i) = s[i] /\ s[i] # NoLnode)
                       /\ (i \notin 1 .. len => At(s, i) = NoLnode)
    BY <1>1, AtIs, ListAssumption
  <2>2. \A i \in 1 .. len : i \in Int
    OBVIOUS
  <2>3. 0 \notin 1 .. len /\ len + 1 \notin 1 .. len /\ len + 1 \in Int
    BY <1>1
  <2>4. QED
    BY <2>1, <2>2, <2>3
<1>5. /\ prev \in [Lnodes -> Lnodes \cup {NoLnode}] /\ next \in [Lnodes -> Lnodes \cup {NoLnode}]
      /\ next[n] = At(s, k + 1) /\ prev[n] = At(s, k - 1) /\ n \in Lnodes
  BY <1>1 DEF ListTypes
<1>6. k = 1 <=> prev[n] = NoLnode
  <2>1. CASE k = 1
    <3>1. k - 1 = 0
      BY <2>1
    <3>2. QED
      BY <1>4, <1>5, <2>1, <3>1
  <2>2. CASE k # 1
    <3>1. k - 1 \in 1 .. len
      BY <1>1, <2>2
    <3>2. QED
      BY <1>4, <1>5, <2>2, <3>1
  <2>3. QED
    BY <2>1, <2>2
<1>7. k = len <=> next[n] = NoLnode
  <2>1. CASE k = len
    BY <1>4, <1>5, <2>1
  <2>2. CASE k # len
    <3>1. k + 1 \in 1 .. len
      BY <1>1, <2>2
    <3>2. QED
      BY <1>4, <1>5, <2>2, <3>1
  <2>3. QED
    BY <2>1, <2>2
<1>8. first' = At(t, 1)
  <2>1. CASE k = 1
    <3>1. At(t, 1) = At(s, k + 1)
      BY <1>3, <2>1
    <3>2. QED
      BY <1>5, <1>6, <2>1, <3>1
  <2>2. CASE k # 1
    <3>1. At(t, 1) = At(s, 1)
      BY <1>1, <1>3, <2>2
    <3>2. QED
      BY <1>1, <1>6, <2>2, <3>1
  <2>3. QED
    BY <2>1, <2>2
<1>9. last' = At(t, Len(t))
  <2>1. len - 1 \in Nat /\ Len(t) = len - 1
    BY <1>1, <1>2
  <2>2. CASE k = len
    <3>1. At(t, len - 1) = At(s, k - 1)
      BY <1>3, <2>1, <2>2
    <3>2. QED
      BY <1>5, <1>7, <2>1, <2>2, <3>1 DEF LastAfterRemove
  <2>3. CASE k # len
    <3>1. ~(len - 1 < k) /\ (len - 1) + 1 = len
      BY <1>1, <2>3
    <3>2. At(t, len - 1) = At(s, len)
      BY <1>3, <2>1, <3>1
    <3>3. QED
      BY <1>1, <1>7, <2>1, <2>3, <3>2 DEF LastAfterRemove
  <2>4. QED
    BY <2>2, <2>3
<1>10. ASSUME NEW i \in 1 .. (len - 1) PROVE next'[t[i]] = At(t, i + 1)
  <2>1. At(t, i + 1) = IF i + 1 < k THEN At(s, i + 1) ELSE At(s, (i + 1) + 1)
    BY <1>3
  <2>2. i \in 1 .. len /\ i + 1 \in 1 .. len
    BY <1>1
  <2>3. CASE i = k - 1
    <3>1. k # 1 /\ i < k /\ ~(i + 1 < k) /\ (i + 1) + 1 = k + 1
      BY <1>1, <2>3
    <3>2. t[i] = s[i] /\ s[i] = prev[n]
      BY <1>2, <1>4, <1>5, <2>2, <2>3, <3>1
    <3>3. next'[s[i]] = next[n]
      BY <1>1, <1>5, <1>6, <2>2, <3>1, <3>2
    <3>4. QED
      BY <1>5, <2>1, <3>1, <3>2, <3>3
  <2>4. CASE i # k - 1
    <3>1. \A j \in 1 .. len : j # k - 1 => next'[s[j]] = At(s, j + 1)
      <4>1. TAKE j \in 1 .. len
      <4>2. HAVE j # k - 1
      <4>3. CASE k = 1
        BY <1>1, <1>6, <4>3
      <4>4. CASE k # 1
        <5>1. k - 1 \in 1 .. len
          BY <1>1, <4>4
        <5>2. prev[n] = s[k - 1]
          BY <1>4, <1>5, <5>1
        <5>3. s[j] # prev[n]
          BY <1>1, <4>2, <5>1, <5>2
        <5>4. QED
          BY <1>1, <1>5, <1>6, <4>4, <5>3
      <4>5. QED
        BY <4>3, <4>4
    <3>2. CASE i < k
      <4>1. t[i] = s[i]
        BY <1>2, <3>2
      <4> HIDE DEF len
      <4>2. i + 1 < k
        BY <1>1, <2>4, <3>2
      <4>3. QED
        BY <2>1, <2>2, <2>4, <3>1, <4>1, <4>2
    <3>3. CASE ~(i < k)
      <4>1. ~(i + 1 < k) /\ t[i] = s[i + 1] /\ i + 1 # k - 1
        BY <1>1, <1>2, <3>3
      <4>2. QED
        BY <2>1, <2>2, <3>1, <4>1
    <3>4. QED
      BY <3>2, <3>3
  <2>5. QED
    BY <2>3, <2>4
<1>11. ASSUME NEW i \in 1 .. (len - 1) PROVE prev'[t[i]] = At(t, i - 1)
  <2>1. At(t, i - 1) = IF i - 1 < k THEN At(s, i - 1) ELSE At(s, i)
    <3>1. i - 1 \in Nat /\ (i - 1) + 1 = i
      BY <1>1
    <3>2. QED
      BY <1>3, <3>1
  <2>2. i \in 1 .. len /\ i + 1 \in 1 .. len /\ (i + 1) - 1 = i
    BY <1>1
  <2>3. CASE i = k
    <3>1. k # len /\ ~(i < k) /\ i - 1 < k
      BY <1>1, <2>3
    <3>2. t[i] = s[k + 1] /\ next[n] = s[k + 1] /\ s[k + 1] \in Lnodes
      BY <1>1, <1>2, <1>4, <1>5, <2>2, <2>3, <3>1
    <3>3. prev'[s[k + 1]] = prev[n]
      BY <1>5, <1>7, <3>1, <3>2 DEF PrevAfterRemove
    <3>4. QED
      BY <1>5, <2>1, <2>3, <3>1, <3>2, <3>3
  <2>4. CASE i # k
    <3>1. \A j \in 1 .. len : j # k + 1 => prev'[s[j]] = At(s, j - 1)
      <4>1. TAKE j \in 1 .. len
      <4>2. HAVE j # k + 1
      <4>3. CASE k = len
        BY <1>1, <1>7, <4>3 DEF PrevAfterRemove
      <4>4. CASE k # len
        <5>1. k + 1 \in 1 .. len
          BY <1>1, <4>4
        <5>2. next[n] = s[k + 1]
          BY <1>4, <1>5, <5>1
        <5>3. s[j] # next[n]
          BY <1>1, <4>2, <5>1, <5>2
        <5>4. QED
          BY <1>1, <1>5, <1>7, <4>4, <5>3 DEF PrevAfterRemove
      <4>5. QED
        BY <4>3, <4>4
    <3>2. CASE i < k
      <4>1. i - 1 < k /\ t[i] = s[i] /\ i # k + 1
        BY <1>1, <1>2, <3>2
      <4>2. QED
        BY <2>1, <2>2, <3>1, <4>1
    <3>3. CASE ~(i < k)
      <4>1. ~(i - 1 < k) /\ t[i] = s[i + 1] /\ i + 1 # k + 1
        BY <1>1, <1>2, <2>4, <3>3
      <4>2. prev'[s[i + 1]] = At(s, (i + 1) - 1)
        BY <2>2, <3>1, <4>1
      <4>3. QED
        BY <2>1, <2>2, <4>1, <4>2
    <3>4. QED
      BY <3>2, <3>3
  <2>5. QED
    BY <2>3, <2>4
<1>12. IsWalk(t, first', next')
  BY <1>2, <1>8, <1>10 DEF IsWalk
<1>13. QED
  BY <1>2, <1>9, <1>11, <1>12 DEF IsChain, t

\* An empty list, and no loop over it.
LEMMA ListInvInit == ListInit => ListInv
<1> SUFFICES ASSUME ListInit PROVE ListInv
  OBVIOUS
<1> DEFINE t == << >>
<1>1. ListTypes
  BY ListAssumption DEF ListInit, ListTypes
<1>2. t \in Seq(Lnodes) /\ Len(t) = 0 /\ DOMAIN t = {}
  OBVIOUS
<1> HIDE DEF t
<1>3. IsInjective(t) /\ IsWalk(t, first, next)
  BY <1>2 DEF IsInjective, IsWalk, At, ListInit
<1>4. List = t
  BY <1>2, <1>3, ListIs DEF List
<1>5. last = At(t, Len(t)) /\ \A i \in DOMAIN t : prev[t[i]] = At(t, i - 1)
  BY <1>2 DEF At, ListInit
<1>6. IsChain(t) /\ LoopKnows(t)
  BY <1>2, <1>3, <1>5 DEF IsChain, LoopKnows, ListInit
<1>7. QED
  BY <1>1, <1>4, <1>6 DEF ListInv

\* Who adds a node keeps the invariant.
LEMMA ListAddKeepsInv ==
  ASSUME ListInv, NEW n \in Lnodes, ListAdd(n)
  PROVE  ListInv'
<1> PICK s : s = List
  OBVIOUS
<1> DEFINE t == Append(s, n)
           len == Len(s)
<1>1. ListTypes /\ IsChain(s) /\ LoopKnows(s) /\ n \notin ToSet(s) /\ n \in Lnodes \ ToSet(s)
  BY DEF ListInv, ListAdd, Listed
<1>2. /\ s \in Seq(Lnodes) /\ IsInjective(s) /\ len \in Nat /\ last = At(s, len)
      /\ \A i \in 1 .. len : next[s[i]] = At(s, i + 1) /\ s[i] \in Lnodes
      /\ \A m \in ToSet(s) : m \in Lnodes /\ \E i \in 1 .. len : s[i] = m
  BY <1>1, ChainSays
<1>3. IsChain(t)'
  BY <1>1, AddKeepsChain DEF ListAdd
<1>4. t \in Seq(Lnodes) /\ IsInjective(t) /\ ToSet(t) = ToSet(s) \cup {n}
  BY <1>1, <1>2, InjectiveAppend
<1>5. ListTypes'
  <2>1. prev' \in [Lnodes -> Lnodes \cup {NoLnode}] /\ next' \in [Lnodes -> Lnodes \cup {NoLnode}]
    BY <1>1 DEF ListAdd, ListTypes
  <2>2. first' \in Lnodes \cup {NoLnode} /\ last' \in Lnodes \cup {NoLnode}
    BY <1>1 DEF ListAdd, ListTypes
  <2>3. cut' \in BOOLEAN
    BY <1>1 DEF ListAdd, ListTypes
  <2>4. QED
    BY <1>1, <2>1, <2>2, <2>3 DEF ListAdd, ListTypes
<1>6. LoopKnows(t)'
  <2> SUFFICES ASSUME each # "no", ~cut'
               PROVE  Goal' \in ToSet(t) \cup {NoLnode} /\ due' = Rest(t, Goal')
    BY DEF LoopKnows, ListAdd
  <2>1. /\ ~cut /\ ~(each = "each" /\ n = lnode)
        /\ Goal \in ToSet(s) \cup {NoLnode} /\ due = Rest(s, Goal)
    BY <1>1 DEF LoopKnows, ListAdd
  <2>2. Goal' = IF each = "safe" THEN ahead ELSE next'[lnode]
    BY DEF Goal, ListAdd
  <2>3. lnode \in Lnodes /\ n # NoLnode
    BY <1>1, ListAssumption DEF ListTypes
  <2>4. due' = IF Goal # NoLnode \/ (each = "each" /\ lnode \in ToSet(s)) THEN due \cup {n} ELSE due
    BY DEF ListAdd, Listed
  <2>5. Rest(t, n) = {n} /\ \A g \in ToSet(s) : Rest(t, g) = Rest(s, g) \cup {n}
    BY <1>1, <1>2, RestAppend
  <2>6. Rest(t, NoLnode) = {} /\ Rest(s, NoLnode) = {}
    BY <1>2, <1>4, RestIs
  <2>7. CASE each = "each" /\ lnode \in ToSet(s) /\ lnode = last
    <3>1. next[lnode] = NoLnode
      <4>1. PICK i \in 1 .. len : s[i] = lnode
        BY <1>2, <2>7
      <4>2. len \in 1 .. len /\ len \in Int /\ len + 1 \in Int /\ len + 1 \notin 1 .. len
        BY <1>2, <4>1
      <4>3. last = s[len] /\ At(s, len + 1) = NoLnode
        BY <1>2, <4>2, AtIs
      <4>4. QED
        BY <1>2, <2>7, <4>2, <4>3
    <3>2. Goal = NoLnode /\ Goal' = n
      BY <2>1, <2>2, <2>3, <2>7, <3>1 DEF Goal, ListAdd
    <3>3. QED
      BY <1>4, <2>1, <2>4, <2>5, <2>6, <2>7, <3>2
  <2>8. CASE ~(each = "each" /\ lnode \in ToSet(s) /\ lnode = last)
    <3>1. Goal' = Goal
      <4>1. CASE each = "safe"
        BY <2>2, <4>1 DEF Goal
      <4>2. CASE each # "safe"
        <5>1. each = "each" /\ lnode # n
          BY <1>1, <2>1, <4>2 DEF ListTypes
        <5>2. lnode # last
          <6>1. last \in ToSet(s) \cup {NoLnode}
            BY <1>2, AtIs
          <6>2. QED
            BY <2>3, <2>8, <5>1, <6>1, ListAssumption
        <5>3. next'[lnode] = next[lnode]
          BY <2>3, <5>1, <5>2 DEF ListAdd
        <5>4. QED
          BY <2>2, <4>2, <5>3 DEF Goal
      <4>3. QED
        BY <4>1, <4>2
    <3>2. Goal = NoLnode => ~(each = "each" /\ lnode \in ToSet(s))
      <4>1. SUFFICES ASSUME Goal = NoLnode, each = "each", lnode \in ToSet(s) PROVE lnode = last
        BY <2>8
      <4>2. PICK i \in 1 .. len : s[i] = lnode
        BY <1>2, <4>1
      <4>3. At(s, i + 1) = NoLnode
        BY <1>2, <4>1, <4>2 DEF Goal
      <4>4. i = len
        <5>1. i + 1 \in Int
          OBVIOUS
        <5>2. i + 1 \notin 1 .. len
          BY <1>2, <4>3, <5>1, AtIs
        <5>3. QED
          BY <1>2, <5>2
      <4>5. At(s, len) = s[len]
        BY <1>2, <4>4, AtIs
      <4>6. QED
        BY <1>2, <4>2, <4>4, <4>5
    <3>3. CASE Goal = NoLnode
      BY <2>1, <2>4, <2>6, <3>1, <3>2, <3>3
    <3>4. CASE Goal # NoLnode
      BY <1>4, <2>1, <2>4, <2>5, <3>1, <3>4
    <3>5. QED
      BY <3>3, <3>4
  <2>9. QED
    BY <2>7, <2>8
<1>7. QED
  BY <1>3, <1>5, <1>6, ChainIsList

\* Who removes a node keeps the invariant.
LEMMA ListRemoveKeepsInv ==
  ASSUME ListInv, NEW n \in Lnodes, ListRemove(n)
  PROVE  ListInv'
<1> PICK s : s = List
  OBVIOUS
<1> DEFINE len == Len(s)
<1>1. ListTypes /\ IsChain(s) /\ LoopKnows(s) /\ n \in ToSet(s)
  BY DEF ListInv, ListRemove, Listed
<1>2. /\ s \in Seq(Lnodes) /\ IsInjective(s) /\ len \in Nat /\ DOMAIN s = 1 .. len
      /\ \A i \in 1 .. len : /\ next[s[i]] = At(s, i + 1) /\ prev[s[i]] = At(s, i - 1)
                             /\ s[i] \in Lnodes
      /\ \A i, j \in 1 .. len : s[i] = s[j] => i = j
      /\ \A m \in ToSet(s) : m \in Lnodes /\ \E i \in 1 .. len : s[i] = m
  <2>1. /\ s \in Seq(Lnodes) /\ IsInjective(s) /\ Len(s) \in Nat /\ DOMAIN s = 1 .. Len(s)
        /\ first = At(s, 1) /\ last = At(s, Len(s))
        /\ \A i \in 1 .. Len(s) : /\ s[i] \in Lnodes /\ s[i] \in ToSet(s)
                                  /\ next[s[i]] = At(s, i + 1) /\ prev[s[i]] = At(s, i - 1)
        /\ \A i, j \in 1 .. Len(s) : s[i] = s[j] => i = j
        /\ \A m \in ToSet(s) : m \in Lnodes /\ \E i \in 1 .. Len(s) : s[i] = m
    BY <1>1, ChainSays
  <2>2. QED
    BY <2>1
<1>3. PICK k \in 1 .. len : n = s[k]
  BY <1>1, <1>2
<1> DEFINE t == RemoveAt(s, k)
<1>4. IsChain(t)'
  <2>1. IF prev[n] = NoLnode THEN first' = next[n] /\ next' = next
        ELSE next' = [next EXCEPT ![prev[n]] = next[n]] /\ first' = first
    BY DEF ListRemove
  <2>2. last' = LastAfterRemove(n) /\ prev' = PrevAfterRemove(n)
    BY DEF ListRemove
  <2>3. QED
    BY <1>1, <1>3, <2>1, <2>2, RemoveKeepsChain
<1>5. ToSet(t) = ToSet(s) \ {n}
  <2>1. s \in Seq(Lnodes) /\ IsInjective(s) /\ k \in DOMAIN s
    BY <1>2, <1>3
  <2> HIDE DEF len, t
  <2>2. ToSet(RemoveAt(s, k)) = ToSet(s) \ {s[k]}
    BY <2>1, InjectiveRemove
  <2>3. QED
    BY <1>3, <2>2 DEF t
<1>6. \A g \in (ToSet(s) \ {n}) \cup {NoLnode} : Rest(t, g) = Rest(s, g) \ {n}
  BY <1>2, <1>3, RestRemove
<1>7. next[n] = At(s, k + 1) /\ Rest(s, next[n]) = Rest(s, n) \ {n}
  BY <1>2, <1>3, RestNext
<1> HIDE DEF t
<1>8. next[n] \in (ToSet(s) \ {n}) \cup {NoLnode}
  <2>1. k + 1 \in Int /\ k + 1 # k
    BY <1>2
  <2>2. At(s, k + 1) \in ToSet(s) \cup {NoLnode}
    BY <1>2, <2>1, AtIs
  <2>3. ASSUME At(s, k + 1) = n PROVE FALSE
    <3>1. n # NoLnode
      BY <1>2, <1>3, ListAssumption
    <3>2. k + 1 \in 1 .. len /\ s[k + 1] = n
      BY <1>2, <2>1, <2>3, <3>1, AtIs
    <3>3. QED
      BY <1>2, <1>3, <2>1, <3>2
  <2>4. QED
    BY <1>7, <2>2, <2>3
<1>9. ListTypes'
  <2>1. n \in Lnodes /\ next[n] \in Lnodes \cup {NoLnode} /\ prev[n] \in Lnodes \cup {NoLnode}
    BY <1>1 DEF ListTypes
  <2>2. next' \in [Lnodes -> Lnodes \cup {NoLnode}] /\ first' \in Lnodes \cup {NoLnode}
    BY <1>1, <2>1 DEF ListRemove, ListTypes
  <2>3. prev' \in [Lnodes -> Lnodes \cup {NoLnode}] /\ last' \in Lnodes \cup {NoLnode}
    BY <1>1, <2>1 DEF ListRemove, ListTypes, LastAfterRemove, PrevAfterRemove
  <2>4. cut' \in BOOLEAN
    BY <1>1 DEF ListRemove, ListTypes
  <2>5. QED
    BY <1>1, <2>2, <2>3, <2>4 DEF ListRemove, ListTypes
<1>10. LoopKnows(t)'
  <2> SUFFICES ASSUME each # "no", ~cut'
               PROVE  Goal' \in ToSet(t) \cup {NoLnode} /\ due' = Rest(t, Goal')
    BY DEF LoopKnows, ListRemove
  <2>1. /\ ~cut /\ ~(each = "safe" /\ n = ahead)
        /\ ~(each = "each" /\ lnode \notin ToSet(s) /\ n = next[lnode])
        /\ Goal \in ToSet(s) \cup {NoLnode} /\ due = Rest(s, Goal)
    BY <1>1 DEF LoopKnows, ListRemove, Listed
  <2>2. Goal' = IF each = "safe" THEN ahead ELSE next'[lnode]
    BY DEF Goal, ListRemove
  <2>3. due' = due \ {n}
    BY DEF ListRemove
  <2>4. CASE Goal' = Goal /\ Goal # n
    BY <1>5, <1>6, <2>1, <2>3, <2>4
  <2>5. CASE Goal = n /\ Goal' = next[n]
    <3>1. due' = Rest(s, next[n])
      BY <1>7, <2>1, <2>3, <2>5
    <3>2. n \notin Rest(s, next[n])
      BY <1>7
    <3>3. Rest(t, next[n]) = Rest(s, next[n]) \ {n}
      BY <1>6, <1>8
    <3>4. Rest(s, next[n]) \ {n} = Rest(s, next[n])
      BY <3>2, Zenon
    <3>5. QED
      BY <1>5, <1>8, <2>5, <3>1, <3>3, <3>4
  <2>6. CASE each = "safe"
    BY <2>1, <2>2, <2>4, <2>6 DEF Goal
  <2>7. CASE each = "each"
    <3>1. Goal = next[lnode] /\ Goal' = next'[lnode] /\ lnode \in Lnodes
      BY <1>1, <2>2, <2>7 DEF Goal, ListTypes
    <3>2. CASE lnode \in Lnodes /\ prev[n] # lnode
      <4>1. next'[lnode] = next[lnode]
        BY <1>1, <3>2 DEF ListRemove, ListTypes
      <4>2. Goal # n
        <5>1. SUFFICES ASSUME Goal = n PROVE FALSE
          OBVIOUS
        <5>2. PICK i \in 1 .. len : s[i] = lnode
          BY <1>2, <2>1, <2>7, <3>1, <5>1
        <5>3. At(s, i + 1) = n /\ n # NoLnode /\ i + 1 \in Int
          <6>1. At(s, i + 1) = n
            BY <1>2, <3>1, <5>1, <5>2
          <6>2. QED
            BY <1>2, <6>1, ListAssumption
        <5>4. i + 1 \in 1 .. len /\ s[i + 1] = n
          BY <1>2, <5>3, AtIs
        <5>5. k = i + 1 /\ k - 1 = i
          BY <1>2, <1>3, <5>4
        <5>6. prev[n] = At(s, i) /\ i \in Int
          BY <1>2, <1>3, <5>5
        <5>7. prev[n] = lnode
          BY <1>2, <5>2, <5>6, AtIs
        <5>8. QED
          BY <3>2, <5>7
      <4>3. QED
        BY <2>4, <3>1, <4>1, <4>2
    <3>3. CASE prev[n] = lnode
      <4>1. lnode # NoLnode
        BY <3>1, ListAssumption
      <4>2. next'[lnode] = next[n]
        BY <1>1, <3>1, <3>3, <4>1 DEF ListRemove, ListTypes
      <4>3. k - 1 \in Int /\ At(s, k - 1) = lnode
        BY <1>2, <1>3, <3>3
      <4>4. k - 1 \in 1 .. len /\ s[k - 1] = lnode
        BY <1>2, <4>1, <4>3, AtIs
      <4>5. next[lnode] = At(s, (k - 1) + 1) /\ (k - 1) + 1 = k /\ k \in Int
        BY <1>2, <4>4
      <4>6. next[lnode] = n
        BY <1>2, <1>3, <4>5, AtIs
      <4>7. QED
        BY <2>5, <3>1, <4>2, <4>6
    <3>4. QED
      BY <3>1, <3>2, <3>3
  <2>8. QED
    BY <1>1, <2>6, <2>7 DEF ListTypes
<1>11. QED
  BY <1>4, <1>9, <1>10, ChainIsList

\* A loop goes to node g, which must be in the list and have the rest of it to
\* visit only if nothing has cut its way off.
LEMMA EnterKeepsInv ==
  ASSUME ListInv, NEW how \in {"each", "safe"}, NEW g \in Lnodes \cup {NoLnode},
         NEW left \in SUBSET Lnodes, cut' \in BOOLEAN,
         ~cut' /\ g # NoLnode => g \in ToSet(List) /\ left = Rest(List, g),
         Enter(how, g, left)
  PROVE  ListInv'
<1> PICK s : s = List
  OBVIOUS
<1>1. ListTypes /\ IsChain(s) /\ UNCHANGED <<first, last, prev, next>>
  BY DEF ListInv, Enter
<1>2. /\ s \in Seq(Lnodes) /\ IsInjective(s)
      /\ \A i \in 1 .. Len(s) : next[s[i]] = At(s, i + 1)
      /\ \A m \in ToSet(s) : \E i \in 1 .. Len(s) : s[i] = m
  BY <1>1, ChainSays
<1>3. IsChain(s)'
  BY <1>1 DEF IsChain
<1>4. CASE g = NoLnode
  <2>1. each' = "no" /\ lnode' = NoLnode /\ ahead' = NoLnode /\ due' = {}
    BY <1>4 DEF Enter, NoLoops
  <2>2. ListTypes'
    BY <1>1, <2>1 DEF ListTypes
  <2>3. LoopKnows(s)'
    BY <2>1 DEF LoopKnows
  <2>4. QED
    BY <1>3, <2>2, <2>3, ChainIsList
<1>5. CASE g # NoLnode
  <2>1. each' = how /\ lnode' = g /\ ahead' = ReadAhead(how, g) /\ due' = left \ {g}
    BY <1>5 DEF Enter
  <2>2. g \in Lnodes
    BY <1>5
  <2>3. ListTypes'
    <3>1. ahead' \in Lnodes \cup {NoLnode}
      BY <1>1, <2>1, <2>2 DEF ListTypes, ReadAhead
    <3>2. QED
      BY <1>1, <2>1, <2>2, <3>1 DEF ListTypes
  <2>4. Goal' = next[g]
    BY <1>1, <1>5, <2>1 DEF Goal, ReadAhead
  <2>5. ASSUME ~cut' PROVE next[g] \in ToSet(s) \cup {NoLnode} /\ due' = Rest(s, next[g])
    <3>1. PICK k \in 1 .. Len(s) : s[k] = g
      BY <1>2, <1>5, <2>5
    <3>2. k + 1 \in Int /\ next[g] = At(s, k + 1)
      BY <1>2, <3>1
    <3>3. Rest(s, next[g]) = Rest(s, g) \ {g}
      BY <1>2, <3>1, <3>2, RestNext
    <3>4. next[g] \in ToSet(s) \cup {NoLnode}
      BY <1>2, <3>2, AtIs
    <3>5. left = Rest(s, g)
      BY <1>5, <2>5
    <3>6. due' = Rest(s, next[g])
      BY <2>1, <3>3, <3>5
    <3>7. QED
      BY <3>4, <3>6
  <2>6. LoopKnows(s)'
    BY <2>4, <2>5 DEF LoopKnows
  <2>7. QED
    BY <1>3, <2>3, <2>6, ChainIsList
<1>6. QED
  BY <1>4, <1>5

\* Every call, and every turn of a loop, keeps the invariant.
LEMMA ListInvStep == ListInv /\ [ListNext]_listvars => ListInv'
<1> SUFFICES ASSUME ListInv, [ListNext]_listvars PROVE ListInv'
  OBVIOUS
<1>1. ASSUME NEW n \in Lnodes, ListAdd(n) PROVE ListInv'
  BY <1>1, ListAddKeepsInv
<1>2. ASSUME NEW n \in Lnodes, ListRemove(n) PROVE ListInv'
  BY <1>2, ListRemoveKeepsInv
<1>3. ASSUME NEW how \in {"each", "safe"}, ForEach(how) PROVE ListInv'
  <2>1. ListTypes /\ IsChain(List)
    BY DEF ListInv
  <2>2. List \in Seq(Lnodes) /\ IsInjective(List) /\ first = At(List, 1)
    BY <2>1, ChainSays
  <2>3. \A m \in ToSet(List) : m \in Lnodes
    BY <2>1, ChainSays
  <2>4. first \in Lnodes \cup {NoLnode} /\ ToSet(List) \in SUBSET Lnodes
    BY <2>1, <2>3 DEF ListTypes
  <2>5. first # NoLnode => first \in ToSet(List) /\ ToSet(List) = Rest(List, first)
    BY <2>2, AtIs, RestOfFirst
  <2>6. cut' \in BOOLEAN /\ Enter(how, first, ToSet(List))
    BY <1>3 DEF ForEach, Listed
  <2>7. QED
    BY <2>4, <2>5, <2>6, EnterKeepsInv
<1>4. CASE ForNext
  <2>1. ListTypes /\ LoopKnows(List) /\ each \in {"each", "safe"}
    BY <1>4 DEF ListInv, ForNext, ListTypes
  <2>2. Goal \in Lnodes \cup {NoLnode} /\ due \in SUBSET Lnodes
    BY <2>1 DEF Goal, ListTypes
  <2>3. cut' \in BOOLEAN /\ Enter(each, Goal, due)
    BY <1>4, <2>1 DEF ForNext, ListTypes
  <2>4. Goal # NoLnode => each' # "no"
    BY <2>1, <2>3 DEF Enter
  <2>5. ~cut' /\ Goal # NoLnode => Goal \in ToSet(List) /\ due = Rest(List, Goal)
    BY <1>4, <2>1, <2>4 DEF ForNext, LoopKnows
  <2>6. QED
    BY <2>1, <2>2, <2>3, <2>5, EnterKeepsInv
<1>5. CASE UNCHANGED listvars
  BY <1>5 DEF ListInv, ListTypes, LoopKnows, IsChain, IsWalk, List, Goal, listvars, listloop
<1>6. QED
  BY <1>1, <1>2, <1>3, <1>4, <1>5 DEF ListNext

\* The invariant holds all the time.
LEMMA ListInvAlways == ListSpec => []ListInv
<1>1. QED
  BY ListInvInit, ListInvStep, PTL DEF ListSpec

\* ogs-list.h: whatever is added and removed, also in the bodies of loops, the
\* links forwards and backwards name the same nodes in opposite order.
THEOREM ListLinksAgree == ListSpec => []LinksAgree
<1>1. ListInv => LinksAgree
  <2> SUFFICES ASSUME ListInv PROVE LinksAgree
    OBVIOUS
  <2> DEFINE s == List
             len == Len(s)
             r == Reverse(s)
  <2>1. /\ s \in Seq(Lnodes) /\ len \in Nat /\ DOMAIN s = 1 .. len /\ last = At(s, len)
        /\ \A i \in 1 .. len : prev[s[i]] = At(s, i - 1)
    BY ChainSays DEF ListInv
  <2>2. IsWalk(s, first, next)
    BY DEF ListInv, IsChain
  <2> HIDE DEF s
  <2>3. DOMAIN r = 1 .. len /\ \A i \in 1 .. len : r[i] = s[(len - i) + 1]
    BY <2>1 DEF Reverse
  <2> HIDE DEF r
  <2>4. \A i \in 1 .. (len + 1) : At(r, i) = At(s, (len - i) + 1)
    <3>1. TAKE i \in 1 .. (len + 1)
    <3>2. (len - i) + 1 \in DOMAIN s <=> i \in DOMAIN r
      BY <2>1, <2>3
    <3>3. QED
      BY <2>1, <2>3, <3>2 DEF At
  <2>5. last = At(r, 1)
    <3>1. 1 \in 1 .. (len + 1) /\ (len - 1) + 1 = len
      BY <2>1
    <3>2. QED
      BY <2>1, <2>4, <3>1
  <2>6. ASSUME NEW i \in DOMAIN r PROVE prev[r[i]] = At(r, i + 1)
    <3>1. i \in 1 .. len /\ i + 1 \in 1 .. (len + 1) /\ (len - i) + 1 \in 1 .. len
      BY <2>1, <2>3
    <3>2. prev[r[i]] = At(s, ((len - i) + 1) - 1)
      BY <2>1, <2>3, <3>1
    <3>3. ((len - i) + 1) - 1 = (len - (i + 1)) + 1
      BY <2>1, <3>1
    <3>4. QED
      BY <2>4, <3>1, <3>2, <3>3
  <2>7. IsWalk(r, last, prev)
    BY <2>5, <2>6 DEF IsWalk
  <2>8. QED
    BY <2>2, <2>7 DEF LinksAgree, s, r
<1>2. QED
  BY <1>1, ListInvAlways, PTL

\* ogs_list_for_each and ogs_list_for_each_safe: a loop whose body has not cut
\* off its way goes to a node it has still to visit, and ends when there is
\* none.
THEOREM LoopsVisitAll == ListSpec => VisitsAll
<1>1. ListInv /\ [ListNext]_listvars =>
        [ForNext /\ ~cut => IF each' = "no" THEN due = {} ELSE lnode' \in due]_listvars
  <2> SUFFICES ASSUME ListInv, ForNext, ~cut
               PROVE  IF each' = "no" THEN due = {} ELSE lnode' \in due
    OBVIOUS
  <2>1. /\ Goal \in ToSet(List) \cup {NoLnode} /\ due = Rest(List, Goal)
        /\ ListTypes /\ IsChain(List) /\ each \in {"each", "safe"}
    BY DEF ListInv, LoopKnows, ForNext, ListTypes
  <2>2. Enter(each, Goal, due)
    BY DEF ForNext
  <2>3. /\ List \in Seq(Lnodes) /\ IsInjective(List)
        /\ \A n \in ToSet(List) : \E i \in 1 .. Len(List) : List[i] = n
    BY <2>1, ChainSays
  <2>4. CASE Goal = NoLnode
    BY <2>1, <2>2, <2>3, <2>4, RestIs DEF Enter, NoLoops
  <2>5. CASE Goal # NoLnode
    <3>1. each' # "no" /\ lnode' = Goal
      BY <2>1, <2>2, <2>5 DEF Enter
    <3>2. PICK i \in 1 .. Len(List) : List[i] = Goal
      BY <2>1, <2>3, <2>5
    <3>3. i \in i .. Len(List)
      OBVIOUS
    <3>4. Goal \in Rest(List, Goal)
      BY <2>3, <3>2, <3>3, RestFrom
    <3>5. QED
      BY <2>1, <3>1, <3>4
  <2>6. QED
    BY <2>4, <2>5
<1>2. QED
  BY <1>1, ListInvAlways, PTL DEF ListSpec, VisitsAll

-----------------------------------------------------------------------------
(* Paths along the links of a hash table                                   *)

Links == Entries \cup {Nil}

\* The i-th entry of a path, or none behind its end.
PathAt(s, i) == IF i \in DOMAIN s THEN s[i] ELSE Nil

\* s are the entries that the links lead to from e on, up to the last one.
IsPath(s, e, link) == /\ s \in Seq(Entries) /\ e = PathAt(s, 1)
                      /\ \A i \in DOMAIN s : link[s[i]] = PathAt(s, i + 1)

\* What PathAt is.
LEMMA PathAtIs ==
  ASSUME NEW s \in Seq(Entries), NEW i \in Int
  PROVE  /\ Len(s) \in Nat /\ DOMAIN s = 1 .. Len(s)
         /\ i \in 1 .. Len(s) => PathAt(s, i) = s[i] /\ s[i] \in Entries /\ s[i] \in ToSet(s)
         /\ i \notin 1 .. Len(s) => PathAt(s, i) = Nil
         /\ PathAt(s, i) = Nil <=> i \notin 1 .. Len(s)
         /\ PathAt(s, i) \in Links
<1>1. Len(s) \in Nat /\ DOMAIN s = 1 .. Len(s)
  BY LenProperties
<1>2. \A j \in 1 .. Len(s) : s[j] \in Entries /\ s[j] # Nil /\ s[j] \in ToSet(s)
  BY <1>1, ElementOfSeq, HashAssumption DEF ToSet
<1>3. QED
  BY <1>1, <1>2 DEF PathAt, Links

\* An entry is in front of the path from the one behind it.
LEMMA PathOf ==
  ASSUME NEW s, NEW link, NEW e \in Entries, IsPath(s, link[e], link)
  PROVE  /\ IsPath(<<e>> \o s, e, link)
         /\ Len(<<e>> \o s) = Len(s) + 1
         /\ \A i \in Int : PathAt(<<e>> \o s, i) = IF i = 1 THEN e ELSE PathAt(s, i - 1)
<1> DEFINE u == <<e>> \o s
<1>1. s \in Seq(Entries) /\ Len(s) \in Nat /\ DOMAIN s = 1 .. Len(s)
  BY LenProperties DEF IsPath
<1>2. <<e>> \in Seq(Entries) /\ Len(<<e>>) = 1 /\ <<e>>[1] = e
  OBVIOUS
<1>3. /\ u \in Seq(Entries) /\ Len(u) = Len(s) + 1
      /\ \A i \in 1 .. (Len(s) + 1) : u[i] = IF i = 1 THEN e ELSE s[i - 1]
  BY <1>1, <1>2, ConcatProperties
<1> HIDE DEF u
<1>4. DOMAIN u = 1 .. (Len(s) + 1)
  BY <1>3, LenProperties
<1>5. ASSUME NEW i \in Int PROVE PathAt(u, i) = IF i = 1 THEN e ELSE PathAt(s, i - 1)
  <2>1. i \in 1 .. (Len(s) + 1) <=> i = 1 \/ i - 1 \in 1 .. Len(s)
    BY <1>1
  <2>2. 1 \in 1 .. (Len(s) + 1)
    BY <1>1
  <2>3. QED
    BY <1>1, <1>3, <1>4, <2>1, <2>2 DEF PathAt
<1>6. ASSUME NEW i \in DOMAIN u PROVE link[u[i]] = PathAt(u, i + 1)
  <2>1. i \in Int /\ i + 1 \in Int /\ i + 1 # 1 /\ (i + 1) - 1 = i
    BY <1>1, <1>4
  <2>2. PathAt(u, i + 1) = PathAt(s, i)
    BY <1>5, <2>1
  <2>3. CASE i = 1
    BY <1>3, <1>4, <2>2, <2>3 DEF IsPath
  <2>4. CASE i # 1
    <3>1. i - 1 \in DOMAIN s /\ (i - 1) + 1 = i
      BY <1>1, <1>4, <2>4
    <3>2. u[i] = s[i - 1]
      BY <1>3, <1>4, <2>4
    <3>3. QED
      BY <2>2, <3>1, <3>2 DEF IsPath
  <2>5. QED
    BY <2>3, <2>4
<1>7. e = PathAt(u, 1)
  BY <1>5
<1>8. IsPath(u, e, link)
  BY <1>3, <1>6, <1>7 DEF IsPath
<1>9. QED
  BY <1>3, <1>5, <1>8 DEF u

\* The path from a place of a path.
LEMMA PathBehind ==
  ASSUME NEW s, NEW link, NEW e, IsPath(s, e, link), NEW m \in 1 .. (Len(s) + 1)
  PROVE  \E u : /\ IsPath(u, PathAt(s, m), link)
                /\ Len(u) = Len(s) + 1 - m
                /\ \A i \in Nat \ {0} : PathAt(u, i) = PathAt(s, m - 1 + i)
<1>1. s \in Seq(Entries) /\ Len(s) \in Nat /\ DOMAIN s = 1 .. Len(s)
  BY LenProperties DEF IsPath
<1> DEFINE n == Len(s) + 1 - m
           u == [i \in 1 .. n |-> s[m - 1 + i]]
<1>2. n \in Nat /\ m \in Nat /\ m # 0 /\ n + m = Len(s) + 1
  BY <1>1
<1>3. \A i \in 1 .. n : m - 1 + i \in 1 .. Len(s)
  BY <1>1, <1>2
<1>4. u \in Seq(Entries)
  <2>1. \A i \in 1 .. n : s[m - 1 + i] \in Entries
    BY <1>1, <1>3, ElementOfSeq
  <2> HIDE DEF n
  <2>2. QED
    BY <1>2, <2>1, IsASeq
<1>5. Len(u) = n /\ DOMAIN u = 1 .. n
  <2> HIDE DEF n
  <2>1. QED
    BY <1>2, <1>4, LenProperties
<1>6. ASSUME NEW i \in Nat \ {0} PROVE PathAt(u, i) = PathAt(s, m - 1 + i)
  <2>1. m - 1 + i \in 1 .. Len(s) <=> i \in 1 .. n
    BY <1>1, <1>2
  <2>2. i \in 1 .. n => u[i] = s[m - 1 + i]
    OBVIOUS
  <2> HIDE DEF u, n
  <2>3. QED
    BY <1>1, <1>5, <2>1, <2>2 DEF PathAt
<1>7. PathAt(s, m) = PathAt(u, 1)
  <2>1. m - 1 + 1 = m
    BY <1>2
  <2>2. QED
    BY <1>6, <2>1
<1>8. ASSUME NEW i \in DOMAIN u PROVE link[u[i]] = PathAt(u, i + 1)
  <2>1. i \in Nat \ {0} /\ i + 1 \in Nat \ {0} /\ m - 1 + i \in DOMAIN s /\ m - 1 + (i + 1) = (m - 1 + i) + 1
    BY <1>1, <1>2, <1>3, <1>5
  <2>2. u[i] = s[m - 1 + i]
    BY <1>5
  <2>3. link[s[m - 1 + i]] = PathAt(s, (m - 1 + i) + 1)
    BY <2>1 DEF IsPath
  <2>4. QED
    BY <1>6, <2>1, <2>2, <2>3
<1> HIDE DEF u, n
<1>9. IsPath(u, PathAt(s, m), link)
  BY <1>4, <1>7, <1>8 DEF IsPath
<1>10. QED
  BY <1>5, <1>6, <1>9 DEF n

\* There is one path from an entry.
LEMMA OnePath ==
  ASSUME NEW s, NEW u, NEW link, NEW e, IsPath(s, e, link), IsPath(u, e, link)
  PROVE  s = u
<1>1. /\ s \in Seq(Entries) /\ Len(s) \in Nat /\ DOMAIN s = 1 .. Len(s)
      /\ u \in Seq(Entries) /\ Len(u) \in Nat /\ DOMAIN u = 1 .. Len(u)
  BY LenProperties DEF IsPath
<1> DEFINE Bad == {i \in Nat \ {0} : PathAt(s, i) # PathAt(u, i)}
<1>2. Bad = {}
  <2>1. SUFFICES ASSUME Bad # {} PROVE FALSE
    OBVIOUS
  <2>2. Bad \subseteq Nat
    OBVIOUS
  <2>3. PICK m \in Bad : \A k \in Bad : m <= k
    <3> HIDE DEF Bad
    <3>1. QED
      BY <2>1, <2>2, LeastNumber
  <2>4. m \in Nat \ {0} /\ PathAt(s, m) # PathAt(u, m)
    OBVIOUS
  <2>5. m # 1
    BY <2>4 DEF IsPath
  <2>6. m - 1 \in Nat \ {0} /\ ~(m <= m - 1) /\ (m - 1) + 1 = m /\ m \in Int /\ m - 1 \in Int
    BY <2>4, <2>5
  <2>7. PathAt(s, m - 1) = PathAt(u, m - 1)
    BY <2>3, <2>6
  <2>8. CASE m - 1 \in 1 .. Len(s)
    <3>1. m - 1 \in 1 .. Len(u) /\ s[m - 1] = u[m - 1]
      BY <1>1, <2>6, <2>7, <2>8, PathAtIs
    <3>2. link[s[m - 1]] = PathAt(s, m) /\ link[u[m - 1]] = PathAt(u, m)
      BY <1>1, <2>6, <2>8, <3>1 DEF IsPath
    <3>3. QED
      BY <2>4, <3>1, <3>2
  <2>9. CASE m - 1 \notin 1 .. Len(s)
    <3>1. m - 1 \notin 1 .. Len(u)
      BY <1>1, <2>6, <2>7, <2>9, PathAtIs
    <3>2. m \notin 1 .. Len(s) /\ m \notin 1 .. Len(u)
      BY <1>1, <2>6, <2>9, <3>1
    <3>3. PathAt(s, m) = Nil /\ PathAt(u, m) = Nil
      BY <1>1, <2>6, <3>2, PathAtIs
    <3>4. QED
      BY <2>4, <3>3
  <2>10. QED
    BY <2>8, <2>9
<1>3. \A i \in Nat \ {0} : PathAt(s, i) = PathAt(u, i)
  BY <1>2
<1> HIDE DEF Bad
<1>4. \A i \in Nat \ {0} : i \in 1 .. Len(s) <=> i \in 1 .. Len(u)
  <2>1. \A i \in Int : PathAt(s, i) = Nil <=> i \notin 1 .. Len(s)
    BY <1>1, PathAtIs
  <2>2. \A i \in Int : PathAt(u, i) = Nil <=> i \notin 1 .. Len(u)
    BY <1>1, PathAtIs
  <2>3. \A i \in Nat \ {0} : i \in Int
    OBVIOUS
  <2>4. QED
    BY <1>3, <2>1, <2>2, <2>3
<1>5. Len(s) = Len(u)
  <2>1. CASE Len(s) < Len(u)
    <3>1. Len(s) + 1 \in Nat \ {0} /\ Len(s) + 1 \in 1 .. Len(u) /\ Len(s) + 1 \notin 1 .. Len(s)
      BY <1>1, <2>1
    <3>2. QED
      BY <1>4, <3>1
  <2>2. CASE Len(u) < Len(s)
    <3>1. Len(u) + 1 \in Nat \ {0} /\ Len(u) + 1 \in 1 .. Len(s) /\ Len(u) + 1 \notin 1 .. Len(u)
      BY <1>1, <2>2
    <3>2. QED
      BY <1>4, <3>1
  <2>3. Len(s) \in Nat /\ Len(u) \in Nat
    BY <1>1
  <2>4. QED
    BY <2>1, <2>2, <2>3
<1>6. \A i \in 1 .. Len(s) : s[i] = u[i]
  <2>1. TAKE i \in 1 .. Len(s)
  <2>2. i \in Nat \ {0} /\ i \in Int /\ i \in 1 .. Len(u)
    BY <1>1, <1>5
  <2>3. PathAt(s, i) = s[i] /\ PathAt(u, i) = u[i]
    BY <1>1, <2>2, PathAtIs
  <2>4. QED
    BY <1>3, <2>2, <2>3
<1>7. QED
  BY <1>1, <1>5, <1>6, SeqEqual

\* The links lead from everywhere to an end.
Grounded(link) == \A e \in Links : \E s : IsPath(s, e, link)

PathFrom(link, e) == CHOOSE s : IsPath(s, e, link)

\* What PathFrom is.
LEMMA PathFromIs ==
  ASSUME NEW link, Grounded(link), NEW e \in Links
  PROVE  /\ IsPath(PathFrom(link, e), e, link)
         /\ PathFrom(link, e) \in Seq(Entries)
         /\ \A s : IsPath(s, e, link) => s = PathFrom(link, e)
         /\ e = Nil => PathFrom(link, e) = << >>
         /\ e # Nil => /\ link[e] \in Links
                       /\ PathFrom(link, e) = <<e>> \o PathFrom(link, link[e])
                       /\ Len(PathFrom(link, e)) = Len(PathFrom(link, link[e])) + 1
                       /\ \A i \in Int : PathAt(PathFrom(link, e), i) =
                            IF i = 1 THEN e ELSE PathAt(PathFrom(link, link[e]), i - 1)
<1>1. ASSUME NEW g \in Links PROVE IsPath(PathFrom(link, g), g, link)
  BY <1>1 DEF Grounded, PathFrom
<1> DEFINE s == PathFrom(link, e)
<1>2. IsPath(s, e, link) /\ s \in Seq(Entries) /\ Len(s) \in Nat /\ DOMAIN s = 1 .. Len(s)
  BY <1>1, LenProperties DEF IsPath
<1>3. \A u : IsPath(u, e, link) => u = s
  <2> HIDE DEF s
  <2>1. QED
    BY <1>2, OnePath
<1>4. CASE e = Nil
  <2> HIDE DEF s
  <2>1. 1 \notin 1 .. Len(s)
    <3>1. 1 \in Int /\ PathAt(s, 1) = Nil
      BY <1>2, <1>4 DEF IsPath
    <3>2. QED
      BY <1>2, <3>1, PathAtIs
  <2>2. Len(s) = 0
    BY <1>2, <2>1
  <2>3. s = << >>
    BY <1>2, <2>2, EmptySeq
  <2>4. QED
    BY <1>2, <1>3, <1>4, <2>3 DEF s
<1>5. CASE e # Nil
  <2>1. e \in Entries
    BY <1>5 DEF Links
  <2>2. link[e] \in Links
    <3> HIDE DEF s
    <3>1. 1 \in Int /\ 2 \in Int /\ PathAt(s, 1) = e
      BY <1>2 DEF IsPath
    <3>2. 1 \in 1 .. Len(s) /\ s[1] = e
      BY <1>2, <1>5, <3>1, PathAtIs
    <3>3. link[e] = PathAt(s, 1 + 1)
      BY <1>2, <3>2 DEF IsPath
    <3>4. QED
      BY <1>2, <3>1, <3>3, PathAtIs
  <2> DEFINE r == PathFrom(link, link[e])
  <2>3. IsPath(r, link[e], link)
    BY <1>1, <2>2
  <2> HIDE DEF r, s
  <2>4. /\ IsPath(<<e>> \o r, e, link) /\ Len(<<e>> \o r) = Len(r) + 1
        /\ \A i \in Int : PathAt(<<e>> \o r, i) = IF i = 1 THEN e ELSE PathAt(r, i - 1)
    BY <2>1, <2>3, PathOf
  <2>5. s = <<e>> \o r
    BY <1>3, <2>4
  <2>6. Len(s) = Len(r) + 1 /\ \A i \in Int : PathAt(s, i) = IF i = 1 THEN e ELSE PathAt(r, i - 1)
    BY <2>4, <2>5
  <2>7. QED
    BY <1>2, <1>3, <1>5, <2>2, <2>5, <2>6 DEF s, r
<1>6. QED
  BY <1>4, <1>5

\* The recursion that ChainFrom walks by.
IsChains(chain, link) ==
  chain = [e \in Entries \cup {Nil} |-> IF e = Nil THEN << >> ELSE <<e>> \o chain[link[e]]]

\* ChainFrom is the path.
LEMMA ChainFromIs ==
  ASSUME NEW t, Grounded(t.next), NEW e \in Links
  PROVE  ChainFrom(t, e) = PathFrom(t.next, e)
<1> DEFINE link == t.next
           g == [x \in Links |-> PathFrom(link, x)]
           chain == CHOOSE c : IsChains(c, link)
<1>1. ChainFrom(t, e) = chain[e]
  BY DEF ChainFrom, IsChains
<1>2. IsChains(g, link)
  <2>1. ASSUME NEW x \in Links PROVE g[x] = IF x = Nil THEN << >> ELSE <<x>> \o g[link[x]]
    BY PathFromIs
  <2>2. g = [x \in Links |-> g[x]]
    OBVIOUS
  <2> HIDE DEF g
  <2>3. g = [x \in Links |-> IF x = Nil THEN << >> ELSE <<x>> \o g[link[x]]]
    BY <2>1, <2>2
  <2>4. QED
    BY <2>3 DEF IsChains, Links
<1>3. IsChains(chain, link)
  BY <1>2
<1>4. \A x \in Links : chain[x] = IF x = Nil THEN << >> ELSE <<x>> \o chain[link[x]]
  <2> HIDE DEF chain
  <2>1. QED
    BY <1>3 DEF IsChains, Links
<1> HIDE DEF chain, g
<1> DEFINE Bad == {Len(PathFrom(link, x)) : x \in {y \in Links : chain[y] # PathFrom(link, y)}}
<1>5. Bad = {}
  <2>1. SUFFICES ASSUME Bad # {} PROVE FALSE
    OBVIOUS
  <2>2. Bad \subseteq Nat
    <3>1. \A x \in Links : Len(PathFrom(link, x)) \in Nat
      BY PathFromIs, LenProperties
    <3>2. QED
      BY <3>1
  <2>3. PICK m \in Bad : \A k \in Bad : m <= k
    <3> HIDE DEF Bad
    <3>1. QED
      BY <2>1, <2>2, LeastNumber
  <2>4. PICK x \in Links : chain[x] # PathFrom(link, x) /\ m = Len(PathFrom(link, x))
    BY <2>3
  <2>5. CASE x = Nil
    BY <1>4, <2>4, <2>5, PathFromIs
  <2>6. CASE x # Nil
    <3>1. /\ link[x] \in Links /\ PathFrom(link, x) = <<x>> \o PathFrom(link, link[x])
          /\ Len(PathFrom(link, x)) = Len(PathFrom(link, link[x])) + 1
      BY <2>6, PathFromIs
    <3>2. chain[link[x]] # PathFrom(link, link[x])
      BY <1>4, <2>4, <2>6, <3>1
    <3>3. Len(PathFrom(link, link[x])) \in Bad
      BY <3>1, <3>2
    <3>4. Len(PathFrom(link, link[x])) \in Nat
      BY <2>2, <3>3
    <3>5. QED
      BY <2>3, <2>4, <3>1, <3>3, <3>4
  <2>7. QED
    BY <2>5, <2>6
<1>6. QED
  BY <1>1, <1>5

\* m is the first place of a path where a walk stops.
StopsAt(s, stop, m) == /\ m \in 1 .. (Len(s) + 1) /\ PathAt(s, m) \in stop
                       /\ \A l \in 1 .. (m - 1) : PathAt(s, l) \notin stop

FirstStop(s, stop) == CHOOSE m \in 1 .. (Len(s) + 1) : StopsAt(s, stop, m)

\* A walk that stops at the end has a first place to stop at.
LEMMA FirstStopIs ==
  ASSUME NEW s \in Seq(Entries), NEW stop, Nil \in stop
  PROVE  /\ StopsAt(s, stop, FirstStop(s, stop))
         /\ \A m \in Int : StopsAt(s, stop, m) => m = FirstStop(s, stop)
<1>1. Len(s) \in Nat /\ DOMAIN s = 1 .. Len(s)
  BY LenProperties
<1> DEFINE Stops == {m \in 1 .. (Len(s) + 1) : PathAt(s, m) \in stop}
<1>2. Len(s) + 1 \in Stops
  <2>1. Len(s) + 1 \in Int /\ Len(s) + 1 \notin 1 .. Len(s) /\ Len(s) + 1 \in 1 .. (Len(s) + 1)
    BY <1>1
  <2>2. PathAt(s, Len(s) + 1) = Nil
    BY <2>1, PathAtIs
  <2>3. QED
    BY <2>1, <2>2
<1>3. PICK m \in Stops : \A k \in Stops : m <= k
  <2>1. Stops \subseteq Nat
    BY <1>1
  <2> HIDE DEF Stops
  <2>2. QED
    BY <1>2, <2>1, LeastNumber
<1>4. StopsAt(s, stop, m)
  <2>1. \A l \in 1 .. (m - 1) : l \in 1 .. (Len(s) + 1) /\ ~(m <= l)
    BY <1>1, <1>3
  <2>2. \A l \in 1 .. (m - 1) : PathAt(s, l) \notin stop
    BY <1>3, <2>1
  <2>3. QED
    BY <1>3, <2>2 DEF StopsAt
<1>5. m \in 1 .. (Len(s) + 1)
  BY <1>3
<1> HIDE DEF Stops
<1>6. StopsAt(s, stop, FirstStop(s, stop)) /\ FirstStop(s, stop) \in 1 .. (Len(s) + 1)
  BY <1>4, <1>5 DEF FirstStop
<1>7. ASSUME NEW n \in Int, NEW l \in Int, StopsAt(s, stop, n), StopsAt(s, stop, l)
      PROVE  ~(n < l)
  <2>1. n < l => n \in 1 .. (l - 1)
    BY <1>1, <1>7 DEF StopsAt
  <2>2. QED
    BY <1>7, <2>1 DEF StopsAt
<1>8. FirstStop(s, stop) \in Int
  BY <1>1, <1>6
<1>9. QED
  <2>1. SUFFICES ASSUME NEW n \in Int, StopsAt(s, stop, n) PROVE n = FirstStop(s, stop)
    BY <1>6
  <2>2. ~(n < FirstStop(s, stop)) /\ ~(FirstStop(s, stop) < n)
    BY <1>6, <1>7, <1>8, <2>1
  <2>3. QED
    BY <1>8, <2>2

\* The recursion by which FindEntry and Relink walk.
IsSeek(walk, link, stop) ==
  walk = [e \in Entries \cup {Nil} |-> IF e \in stop THEN e ELSE walk[link[e]]]

\* A walk stops at the first place where it can, and there is such a function.
LEMMA SeekIs ==
  ASSUME NEW link, Grounded(link), NEW stop, Nil \in stop
  PROVE  /\ \E walk : IsSeek(walk, link, stop)
         /\ \A walk : IsSeek(walk, link, stop) =>
              \A e \in Links, m \in Int : StopsAt(PathFrom(link, e), stop, m) =>
                walk[e] = PathAt(PathFrom(link, e), m)
<1> DEFINE Found(e) == PathAt(PathFrom(link, e), FirstStop(PathFrom(link, e), stop))
           g == [e \in Links |-> Found(e)]
<1>1. ASSUME NEW e \in Links
      PROVE  /\ e \in stop => Found(e) = e
             /\ e \notin stop => link[e] \in Links /\ Found(e) = Found(link[e])
  <2> DEFINE s == PathFrom(link, e)
  <2>1. s \in Seq(Entries) /\ PathAt(s, 1) = e /\ Len(s) \in Nat
    BY PathFromIs, LenProperties DEF IsPath
  <2>2. CASE e \in stop
    <3> HIDE DEF s
    <3>1. 1 \in 1 .. (Len(s) + 1) /\ 1 .. (1 - 1) = {} /\ 1 \in Int
      BY <2>1
    <3>2. StopsAt(s, stop, 1)
      BY <2>1, <2>2, <3>1 DEF StopsAt
    <3>3. 1 = FirstStop(s, stop)
      BY <2>1, <3>1, <3>2, FirstStopIs
    <3>4. QED
      BY <2>1, <2>2, <3>3 DEF s
  <2>3. CASE e \notin stop
    <3> DEFINE r == PathFrom(link, link[e])
               m == FirstStop(r, stop)
    <3>1. e # Nil
      BY <2>3
    <3>2. link[e] \in Links /\ Len(s) = Len(r) + 1
      BY <3>1, PathFromIs
    <3>3. \A i \in Int : PathAt(s, i) = IF i = 1 THEN e ELSE PathAt(r, i - 1)
      BY <3>1, PathFromIs
    <3>4. r \in Seq(Entries)
      BY <3>2, PathFromIs
    <3> HIDE DEF s, r
    <3>5. StopsAt(r, stop, m) /\ Len(r) \in Nat
      BY <3>4, FirstStopIs, LenProperties
    <3>6. m \in 1 .. (Len(r) + 1)
      BY <3>5 DEF StopsAt
    <3> HIDE DEF m
    <3>7. /\ m \in Int /\ m + 1 \in Int /\ m + 1 # 1 /\ (m + 1) - 1 = m
          /\ m + 1 \in 1 .. (Len(s) + 1)
      BY <3>2, <3>5, <3>6
    <3>8. PathAt(s, m + 1) = PathAt(r, m)
      BY <3>3, <3>7
    <3>9. \A l \in 1 .. ((m + 1) - 1) : PathAt(s, l) \notin stop
      <4>1. TAKE l \in 1 .. ((m + 1) - 1)
      <4>2. l \in Int /\ (l = 1 \/ l - 1 \in 1 .. (m - 1))
        BY <3>7
      <4>3. PathAt(s, l) = IF l = 1 THEN e ELSE PathAt(r, l - 1)
        BY <3>3, <4>2
      <4>4. QED
        BY <2>3, <3>5, <4>2, <4>3 DEF StopsAt
    <3>10. StopsAt(s, stop, m + 1)
      BY <3>5, <3>7, <3>8, <3>9 DEF StopsAt
    <3>11. m + 1 = FirstStop(s, stop)
      BY <2>1, <3>7, <3>10, FirstStopIs
    <3>12. QED
      BY <2>3, <3>2, <3>8, <3>11 DEF s, r, m
  <2>4. QED
    BY <2>2, <2>3
<1>2. IsSeek(g, link, stop)
  <2>1. ASSUME NEW e \in Links PROVE g[e] = IF e \in stop THEN e ELSE g[link[e]]
    <3>1. e \notin stop => link[e] \in Links /\ Found(e) = Found(link[e])
      BY <1>1
    <3>2. e \in stop => Found(e) = e
      BY <1>1
    <3> HIDE DEF Found
    <3>3. QED
      BY <3>1, <3>2
  <2>2. g = [e \in Links |-> g[e]]
    OBVIOUS
  <2> HIDE DEF g
  <2>3. g = [e \in Links |-> IF e \in stop THEN e ELSE g[link[e]]]
    BY <2>1, <2>2
  <2>4. QED
    BY <2>3 DEF IsSeek, Links
<1>3. ASSUME NEW walk, IsSeek(walk, link, stop), NEW e \in Links, NEW m \in Int,
             StopsAt(PathFrom(link, e), stop, m)
      PROVE  walk[e] = PathAt(PathFrom(link, e), m)
  <2> DEFINE s == PathFrom(link, e)
             Bad == {i \in 0 .. (m - 1) : walk[PathAt(s, m - i)] # PathAt(s, m)}
  <2>1. /\ s \in Seq(Entries) /\ PathAt(s, 1) = e /\ Len(s) \in Nat /\ DOMAIN s = 1 .. Len(s)
        /\ \A i \in 1 .. Len(s) : link[s[i]] = PathAt(s, i + 1)
    <3>1. IsPath(s, e, link)
      BY PathFromIs
    <3> HIDE DEF s
    <3>2. QED
      BY <3>1, LenProperties DEF IsPath
  <2>2. \A x \in Links : walk[x] = IF x \in stop THEN x ELSE walk[link[x]]
    BY <1>3 DEF IsSeek, Links
  <2>3. /\ m \in 1 .. (Len(s) + 1) /\ PathAt(s, m) \in stop
        /\ \A l \in 1 .. (m - 1) : PathAt(s, l) \notin stop
    BY <1>3 DEF StopsAt
  <2> HIDE DEF s
  <2>4. Bad = {}
    <3>1. SUFFICES ASSUME Bad # {} PROVE FALSE
      OBVIOUS
    <3>2. Bad \subseteq Nat
      OBVIOUS
    <3>3. PICK n \in Bad : \A k \in Bad : n <= k
      <4> HIDE DEF Bad
      <4>1. QED
        BY <3>1, <3>2, LeastNumber
    <3>4. n \in 0 .. (m - 1) /\ walk[PathAt(s, m - n)] # PathAt(s, m)
      OBVIOUS
    <3>5. PathAt(s, m) \in Links /\ walk[PathAt(s, m)] = PathAt(s, m)
      <4>1. PathAt(s, m) \in Links
        BY <2>1, PathAtIs
      <4>2. QED
        BY <2>2, <2>3, <4>1
    <3>6. n # 0
      <4>1. m - 0 = m
        OBVIOUS
      <4>2. QED
        BY <3>4, <3>5, <4>1
    <3>7. /\ n - 1 \in 0 .. (m - 1) /\ ~(n <= n - 1)
          /\ m - n \in 1 .. (m - 1) /\ m - n \in 1 .. Len(s) /\ m - n \in Int /\ (m - n) + 1 = m - (n - 1)
      BY <2>1, <2>3, <3>4, <3>6
    <3>8. walk[PathAt(s, m - (n - 1))] = PathAt(s, m)
      BY <3>3, <3>7
    <3>9. PathAt(s, m - n) = s[m - n] /\ PathAt(s, m - n) \in Links
      BY <2>1, <3>7, PathAtIs
    <3>10. link[s[m - n]] = PathAt(s, m - (n - 1))
      BY <2>1, <3>7
    <3>11. PathAt(s, m - n) \notin stop
      BY <2>3, <3>7
    <3>12. walk[PathAt(s, m - n)] = walk[PathAt(s, m - (n - 1))]
      BY <2>2, <3>9, <3>10, <3>11
    <3>13. QED
      BY <3>4, <3>8, <3>12
  <2>5. m - 1 \in 0 .. (m - 1) /\ m - (m - 1) = 1
    BY <2>1, <2>3
  <2>6. walk[PathAt(s, m - (m - 1))] = PathAt(s, m)
    BY <2>4, <2>5
  <2>7. QED
    BY <2>1, <2>5, <2>6 DEF s
<1>4. QED
  BY <1>2, <1>3

-----------------------------------------------------------------------------
(* What a table holds                                                      *)

Arrays == UNION {[0 .. m -> Links] : m \in Nat}

Table == [array : Arrays, max : Nat, count : Nat, made : Nat, free : Links,
          next : [Entries -> Links], key : [Entries -> Keys \cup {Nil}], val : [Entries -> Vals \cup {Nil}]]

TableTypes(t) == t \in Table /\ t.array \in [0 .. t.max -> Links]

\* The chains C of the array have the entries S among them, each in the chain
\* of its key.
Rows(t, C, S) ==
  /\ C \in [0 .. t.max -> Seq(Entries)] /\ S \in SUBSET Entries
  /\ \A i \in 0 .. t.max : IsPath(C[i], t.array[i], t.next) /\ IsInjective(C[i])
  /\ \A i \in 0 .. t.max : \A e \in Entries : e \in ToSet(C[i]) <=> e \in S /\ Bucket(t, t.key[e]) = i
  /\ \A e \in S : t.key[e] \in Keys /\ t.val[e] \in Vals

\* The entries that were ever allocated are S and those of the free list F;
\* the others are blank.
Covers(t, F, S) ==
  /\ IsPath(F, t.free, t.next) /\ IsInjective(F) /\ ToSet(F) \cap S = {}
  /\ t.made \in 0 .. Cardinality(Keys)
  /\ \A e \in Entries : e <= t.made <=> e \in S \cup ToSet(F)
  /\ \A e \in Entries : ~(e <= t.made) => t.next[e] = Nil

Counts(t, S) == /\ t.count = Cardinality(S)
                /\ \A e, f \in S : t.key[e] = t.key[f] => e = f

Holds(t, C, F, S) == TableTypes(t) /\ Rows(t, C, S) /\ Covers(t, F, S) /\ Counts(t, S)

\* What a table's fields are.
LEMMA TableSays ==
  ASSUME NEW t, TableTypes(t)
  PROVE  /\ t.max \in Nat /\ t.count \in Nat /\ t.made \in Nat /\ t.free \in Links
         /\ t.array \in [0 .. t.max -> Links] /\ t.next \in [Entries -> Links]
         /\ t.key \in [Entries -> Keys \cup {Nil}] /\ t.val \in [Entries -> Vals \cup {Nil}]
BY DEF TableTypes, Table

\* Numbers of keys and entries, and the slots of keys.
LEMMA EntriesAre ==
  /\ IsFiniteSet(Keys) /\ Cardinality(Keys) \in Nat /\ Nil \notin Keys /\ Nil \notin Vals
  /\ Entries = 1 .. Cardinality(Keys) /\ IsFiniteSet(Entries) /\ Cardinality(Entries) = Cardinality(Keys)
  /\ Nil \notin Entries /\ \A e \in Entries : e \in Nat
<1>1. IsFiniteSet(Keys) /\ Nil \notin Keys /\ Nil \notin Vals /\ Nil \notin Entries
  BY HashAssumption
<1>2. Cardinality(Keys) \in Nat
  BY <1>1, FS_CardinalityType
<1>3. Entries = 1 .. Cardinality(Keys)
  BY DEF Entries
<1> DEFINE n == Cardinality(Keys)
<1>4. IsFiniteSet(1 .. n) /\ Cardinality(1 .. n) = n
  <2> HIDE DEF n
  <2>1. IsFiniteSet(1 .. n) /\ Cardinality(1 .. n) = IF 1 > n THEN 0 ELSE n - 1 + 1
    BY <1>2, FS_Interval DEF n
  <2>2. QED
    BY <1>2, <2>1 DEF n
<1>5. \A e \in Entries : e \in Nat
  BY <1>2, <1>3
<1>6. QED
  BY <1>1, <1>2, <1>3, <1>4, <1>5

\* The slot of a key is one of the array.
LEMMA BucketIs ==
  ASSUME NEW t, t.max \in Nat, NEW k \in Keys
  PROVE  Bucket(t, k) \in 0 .. t.max
<1> DEFINE h == Hash[k]
           n == t.max + 1
<1>1. h \in Nat /\ n \in Nat /\ n > 0
  BY HashAssumption
<1>2. h % n \in 0 .. (n - 1)
  <2> HIDE DEF h, n
  <2>1. QED
    BY <1>1
<1>3. n - 1 = t.max
  OBVIOUS
<1>4. QED
  BY <1>2, <1>3 DEF Bucket

\* The links of a table lead to an end from everywhere: the chains and the
\* free list are the paths from their heads.
LEMMA HeldLinks ==
  ASSUME NEW t, NEW C, NEW F, NEW S, Holds(t, C, F, S)
  PROVE  /\ Grounded(t.next)
         /\ \A i \in 0 .. t.max : C[i] = PathFrom(t.next, t.array[i]) /\ C[i] = ChainFrom(t, t.array[i])
         /\ F = PathFrom(t.next, t.free) /\ F = ChainFrom(t, t.free)
<1>1. TableTypes(t) /\ Rows(t, C, S) /\ Covers(t, F, S)
  BY DEF Holds
<1>2. t.max \in Nat /\ t.array \in [0 .. t.max -> Links] /\ t.free \in Links
  BY <1>1, TableSays
<1>3. ASSUME NEW s, NEW h, IsPath(s, h, t.next), NEW e \in ToSet(s)
      PROVE  \E u : IsPath(u, e, t.next)
  <2>1. s \in Seq(Entries) /\ Len(s) \in Nat /\ DOMAIN s = 1 .. Len(s)
    BY <1>3, LenProperties DEF IsPath
  <2>2. PICK m \in 1 .. Len(s) : e = s[m]
    BY <2>1 DEF ToSet
  <2>3. m \in 1 .. (Len(s) + 1) /\ m \in Int
    BY <2>1
  <2>4. PathAt(s, m) = e
    BY <2>1, <2>2, <2>3, PathAtIs
  <2>5. QED
    BY <1>3, <2>3, <2>4, PathBehind
<1>4. ASSUME NEW e \in Links PROVE \E u : IsPath(u, e, t.next)
  <2>1. CASE e = Nil
    <3>1. << >> \in Seq(Entries) /\ DOMAIN << >> = {}
      OBVIOUS
    <3>2. IsPath(<< >>, Nil, t.next)
      BY <3>1 DEF IsPath, PathAt
    <3>3. QED
      BY <2>1, <3>2
  <2>2. CASE e \in S
    <3>1. t.key[e] \in Keys
      BY <1>1, <2>2 DEF Rows
    <3>2. Bucket(t, t.key[e]) \in 0 .. t.max
      BY <1>2, <3>1, BucketIs
    <3>3. e \in Entries
      BY <1>1, <2>2 DEF Rows
    <3>4. PICK i \in 0 .. t.max : e \in ToSet(C[i])
      BY <1>1, <2>2, <3>2, <3>3 DEF Rows
    <3>5. IsPath(C[i], t.array[i], t.next)
      BY <1>1 DEF Rows
    <3>6. QED
      BY <1>3, <3>4, <3>5
  <2>3. CASE e \in ToSet(F)
    BY <1>1, <1>3, <2>3 DEF Covers
  <2>4. CASE e \in Entries /\ e \notin S /\ e \notin ToSet(F)
    <3>1. t.next[e] = Nil
      BY <1>1, <2>4 DEF Covers
    <3>2. << >> \in Seq(Entries) /\ DOMAIN << >> = {}
      OBVIOUS
    <3>3. IsPath(<< >>, t.next[e], t.next)
      BY <3>1, <3>2 DEF IsPath, PathAt
    <3>4. QED
      BY <2>4, <3>3, PathOf
  <2>5. QED
    BY <2>1, <2>2, <2>3, <2>4 DEF Links
<1>5. Grounded(t.next)
  BY <1>4 DEF Grounded
<1>6. ASSUME NEW i \in 0 .. t.max
      PROVE  C[i] = PathFrom(t.next, t.array[i]) /\ C[i] = ChainFrom(t, t.array[i])
  <2>1. IsPath(C[i], t.array[i], t.next) /\ t.array[i] \in Links
    BY <1>1, <1>2 DEF Rows
  <2>2. C[i] = PathFrom(t.next, t.array[i])
    BY <1>5, <2>1, PathFromIs
  <2>3. ChainFrom(t, t.array[i]) = PathFrom(t.next, t.array[i])
    BY <1>5, <2>1, ChainFromIs
  <2>4. QED
    BY <2>2, <2>3
<1>7. F = PathFrom(t.next, t.free) /\ F = ChainFrom(t, t.free)
  <2>1. IsPath(F, t.free, t.next)
    BY <1>1 DEF Covers
  <2>2. F = PathFrom(t.next, t.free)
    BY <1>2, <1>5, <2>1, PathFromIs
  <2>3. ChainFrom(t, t.free) = PathFrom(t.next, t.free)
    BY <1>2, <1>5, ChainFromIs
  <2>4. QED
    BY <2>2, <2>3
<1>8. QED
  BY <1>5, <1>6, <1>7

\* find_entry stops at the m-th entry of the key's chain, or at its end.
FoundAt(t, s, k, m) == /\ m \in 1 .. (Len(s) + 1) /\ FindEntry(t, k) = PathAt(s, m)
                       /\ \A l \in 1 .. (m - 1) : t.key[s[l]] # k
                       /\ m \in 1 .. Len(s) => t.key[s[m]] = k

\* find_entry walks along the chain of the key's slot.
LEMMA WalkFinds ==
  ASSUME NEW t, NEW C, NEW F, NEW S, Holds(t, C, F, S), NEW k \in Keys
  PROVE  \E m \in Int : FoundAt(t, C[Bucket(t, k)], k, m)
<1> DEFINE i == Bucket(t, k)
           link == t.next
           stop == {e \in Links : e = Nil \/ t.key[e] = k}
           walk == CHOOSE w : IsSeek(w, link, stop)
           chosen == CHOOSE w : w = [e \in Entries \cup {Nil} |-> IF e = Nil \/ t.key[e] = k THEN e ELSE w[t.next[e]]]
<1>1. TableTypes(t) /\ Rows(t, C, S)
  BY DEF Holds
<1>2. t.max \in Nat /\ t.array \in [0 .. t.max -> Links]
  BY <1>1, TableSays
<1>3. i \in 0 .. t.max
  BY <1>2, BucketIs
<1>4. Grounded(link) /\ C[i] = PathFrom(link, t.array[i]) /\ t.array[i] \in Links
  BY <1>2, <1>3, HeldLinks
<1> DEFINE s == C[i]
<1>5. s \in Seq(Entries) /\ Len(s) \in Nat
  BY <1>1, <1>3, LenProperties DEF Rows
<1>6. Nil \in stop
  BY DEF Links
<1>7. \A w : IsSeek(w, link, stop) <=>
               w = [e \in Entries \cup {Nil} |-> IF e = Nil \/ t.key[e] = k THEN e ELSE w[t.next[e]]]
  <2>1. \A e \in Entries \cup {Nil} : e \in stop <=> e = Nil \/ t.key[e] = k
    BY DEF Links
  <2> HIDE DEF stop
  <2>2. TAKE w
  <2>3. [e \in Entries \cup {Nil} |-> IF e \in stop THEN e ELSE w[link[e]]] =
        [e \in Entries \cup {Nil} |-> IF e = Nil \/ t.key[e] = k THEN e ELSE w[t.next[e]]]
    BY <2>1
  <2>4. QED
    BY <2>3 DEF IsSeek
<1>8. FindEntry(t, k) = chosen[t.array[i]]
  BY DEF FindEntry
<1>9. IsSeek(chosen, link, stop)
  <2>1. \E w : IsSeek(w, link, stop)
    <3> HIDE DEF stop
    <3>1. QED
      BY <1>4, <1>6, SeekIs
  <2> HIDE DEF stop
  <2>2. QED
    BY <1>7, <2>1
<1> DEFINE m == FirstStop(s, stop)
<1> HIDE DEF chosen, stop, s
<1>10. StopsAt(s, stop, m)
  BY <1>5, <1>6, FirstStopIs
<1>11. m \in 1 .. (Len(s) + 1) /\ PathAt(s, m) \in stop /\ \A l \in 1 .. (m - 1) : PathAt(s, l) \notin stop
  BY <1>10 DEF StopsAt
<1> HIDE DEF m
<1>12. m \in Int /\ \A l \in 1 .. (m - 1) : l \in 1 .. Len(s) /\ l \in Int
  BY <1>5, <1>11
<1>13. FindEntry(t, k) = PathAt(s, m)
  <2>1. StopsAt(PathFrom(link, t.array[i]), stop, m)
    BY <1>4, <1>10 DEF s
  <2>2. chosen[t.array[i]] = PathAt(PathFrom(link, t.array[i]), m)
    BY <1>4, <1>6, <1>9, <1>12, <2>1, SeekIs
  <2>3. QED
    BY <1>4, <1>8, <2>2 DEF s
<1>14. \A l \in 1 .. Len(s) : PathAt(s, l) = s[l] /\ s[l] \in Entries /\ s[l] # Nil
  BY <1>5, PathAtIs, EntriesAre
<1>15. \A l \in 1 .. (m - 1) : t.key[s[l]] # k
  BY <1>11, <1>12, <1>14 DEF stop, Links
<1>16. m \in 1 .. Len(s) => t.key[s[m]] = k
  BY <1>11, <1>14 DEF stop
<1>17. QED
  BY <1>11, <1>12, <1>13, <1>15, <1>16 DEF FoundAt, s

\* find_entry finds the entry of the key, if there is one.
LEMMA FindIs ==
  ASSUME NEW t, NEW C, NEW F, NEW S, Holds(t, C, F, S), NEW k \in Keys
  PROVE  /\ FindEntry(t, k) = Nil => \A e \in S : t.key[e] # k
         /\ FindEntry(t, k) # Nil => FindEntry(t, k) \in S /\ t.key[FindEntry(t, k)] = k
         /\ \A e \in S : t.key[e] = k => FindEntry(t, k) = e
         /\ FindEntry(t, k) \in Links
<1> DEFINE i == Bucket(t, k)
           s == C[i]
<1>1. TableTypes(t) /\ Rows(t, C, S) /\ Counts(t, S)
  BY DEF Holds
<1>2. t.max \in Nat /\ i \in 0 .. t.max
  BY <1>1, TableSays, BucketIs
<1>3. s \in Seq(Entries) /\ Len(s) \in Nat /\ DOMAIN s = 1 .. Len(s)
  BY <1>1, <1>2, LenProperties DEF Rows
<1>4. \A e \in Entries : e \in ToSet(s) <=> e \in S /\ Bucket(t, t.key[e]) = i
  BY <1>1, <1>2 DEF Rows
<1>5. S \subseteq Entries
  BY <1>1 DEF Rows
<1>6. PICK m \in Int : FoundAt(t, s, k, m)
  BY WalkFinds
<1>7. \A e \in S : t.key[e] = k => e \in ToSet(s)
  BY <1>4, <1>5
<1>8. \A e \in ToSet(s) : \E l \in 1 .. Len(s) : s[l] = e
  BY <1>3 DEF ToSet
<1> HIDE DEF s, i
<1>9. /\ m \in 1 .. (Len(s) + 1) /\ FindEntry(t, k) = PathAt(s, m)
      /\ \A l \in 1 .. (m - 1) : t.key[s[l]] # k
      /\ m \in 1 .. Len(s) => t.key[s[m]] = k
  BY <1>6 DEF FoundAt
<1>10. CASE m \in 1 .. Len(s)
  <2>1. PathAt(s, m) = s[m] /\ s[m] \in ToSet(s) /\ s[m] \in Entries
    BY <1>3, <1>10, PathAtIs
  <2>2. s[m] \in S /\ t.key[s[m]] = k /\ FindEntry(t, k) = s[m] /\ s[m] # Nil /\ s[m] \in Links
    BY <1>4, <1>9, <1>10, <2>1, EntriesAre DEF Links
  <2>3. \A e \in S : t.key[e] = k => e = s[m]
    BY <1>1, <2>2 DEF Counts
  <2>4. QED
    BY <2>2, <2>3
<1>11. CASE m \notin 1 .. Len(s)
  <2>1. m = Len(s) + 1
    BY <1>3, <1>9, <1>11
  <2>2. FindEntry(t, k) = Nil
    BY <1>3, <1>9, <1>11, PathAtIs
  <2>3. \A l \in 1 .. Len(s) : t.key[s[l]] # k
    <3>1. (Len(s) + 1) - 1 = Len(s)
      BY <1>3
    <3>2. QED
      BY <1>9, <2>1, <3>1
  <2>4. \A e \in S : t.key[e] # k
    BY <1>7, <1>8, <2>3
  <2>5. QED
    BY <2>2, <2>4 DEF Links
<1>12. QED
  BY <1>10, <1>11

\* Where the link in front of the found place is, it is changed to x.
LEMMA RelinkIs ==
  ASSUME NEW t, NEW C, NEW F, NEW S, Holds(t, C, F, S), NEW k \in Keys, NEW x \in Links,
         NEW m \in Int, FoundAt(t, C[Bucket(t, k)], k, m)
  PROVE  Relink(t, k, x) = IF m = 1 THEN [t EXCEPT !.array[Bucket(t, k)] = x]
                           ELSE [t EXCEPT !.next[C[Bucket(t, k)][m - 1]] = x]
<1> DEFINE i == Bucket(t, k)
           s == C[i]
           link == t.next
           old == FindEntry(t, k)
           stop == {e \in Links : e = Nil \/ t.next[e] = old}
           before == CHOOSE b : b = [y \in Entries \cup {Nil} |-> IF y = Nil \/ t.next[y] = old THEN y ELSE b[t.next[y]]]
<1>1. TableTypes(t) /\ Rows(t, C, S)
  BY DEF Holds
<1>2. t.max \in Nat /\ t.array \in [0 .. t.max -> Links]
  BY <1>1, TableSays
<1>3. i \in 0 .. t.max
  BY <1>2, BucketIs
<1>4. Grounded(link) /\ s = PathFrom(link, t.array[i]) /\ t.array[i] \in Links
  BY <1>2, <1>3, HeldLinks
<1>5. s \in Seq(Entries) /\ Len(s) \in Nat /\ DOMAIN s = 1 .. Len(s) /\ IsInjective(s)
      /\ t.array[i] = PathAt(s, 1)
      /\ \A l \in 1 .. Len(s) : link[s[l]] = PathAt(s, l + 1)
  <2>1. IsPath(s, t.array[i], link) /\ IsInjective(s)
    BY <1>1, <1>3 DEF Rows
  <2> HIDE DEF s, i
  <2>2. QED
    BY <2>1, LenProperties DEF IsPath
<1>6. Relink(t, k, x) = IF t.array[i] = old THEN [t EXCEPT !.array[i] = x]
                        ELSE [t EXCEPT !.next[before[t.array[i]]] = x]
  BY DEF Relink
<1>7. \A b : IsSeek(b, link, stop) <=>
               b = [y \in Entries \cup {Nil} |-> IF y = Nil \/ t.next[y] = old THEN y ELSE b[t.next[y]]]
  <2>1. \A e \in Entries \cup {Nil} : e \in stop <=> e = Nil \/ t.next[e] = old
    BY DEF Links
  <2> HIDE DEF stop, old
  <2>2. TAKE b
  <2>3. [e \in Entries \cup {Nil} |-> IF e \in stop THEN e ELSE b[link[e]]] =
        [y \in Entries \cup {Nil} |-> IF y = Nil \/ t.next[y] = old THEN y ELSE b[t.next[y]]]
    BY <2>1
  <2>4. QED
    BY <2>3 DEF IsSeek
<1>8. Nil \in stop
  BY DEF Links
<1>9. IsSeek(before, link, stop)
  <2>1. \E b : IsSeek(b, link, stop)
    <3> HIDE DEF stop
    <3>1. QED
      BY <1>4, <1>8, SeekIs
  <2> HIDE DEF stop, old
  <2>2. QED
    BY <1>7, <2>1
<1>10. m \in 1 .. (Len(s) + 1) /\ old = PathAt(s, m)
  BY DEF FoundAt
<1> HIDE DEF s, i, before, old, stop
<1>11. \A p, q \in 1 .. (Len(s) + 1) : PathAt(s, p) = PathAt(s, q) => p = q
  <2>1. SUFFICES ASSUME NEW p \in 1 .. (Len(s) + 1), NEW q \in 1 .. (Len(s) + 1), PathAt(s, p) = PathAt(s, q)
                 PROVE  p = q
    OBVIOUS
  <2>2. p \in Int /\ q \in Int
    OBVIOUS
  <2>3. p \in 1 .. Len(s) <=> q \in 1 .. Len(s)
    <3>1. PathAt(s, p) = Nil <=> p \notin 1 .. Len(s)
      BY <1>5, <2>2, PathAtIs
    <3>2. PathAt(s, q) = Nil <=> q \notin 1 .. Len(s)
      BY <1>5, <2>2, PathAtIs
    <3>3. QED
      BY <2>1, <3>1, <3>2
  <2>4. CASE p \in 1 .. Len(s)
    <3>1. PathAt(s, p) = s[p] /\ PathAt(s, q) = s[q]
      BY <1>5, <2>2, <2>3, <2>4, PathAtIs
    <3>2. QED
      BY <1>5, <2>1, <2>3, <2>4, <3>1 DEF IsInjective
  <2>5. CASE p \notin 1 .. Len(s)
    BY <1>5, <2>3, <2>5
  <2>6. QED
    BY <2>4, <2>5
<1>12. t.array[i] = old <=> m = 1
  <2>1. 1 \in 1 .. (Len(s) + 1)
    BY <1>5
  <2>2. QED
    BY <1>5, <1>10, <1>11, <2>1
<1>13. CASE m = 1
  BY <1>6, <1>12, <1>13 DEF i
<1>14. CASE m # 1
  <2>1. m - 1 \in 1 .. (Len(s) + 1) /\ m - 1 \in 1 .. Len(s) /\ m - 1 \in Int /\ (m - 1) + 1 = m
    BY <1>5, <1>10, <1>14
  <2>2. \A l \in 1 .. Len(s) : PathAt(s, l) = s[l] /\ s[l] \in Entries /\ s[l] # Nil /\ s[l] \in Links
    BY <1>5, PathAtIs, EntriesAre DEF Links
  <2>3. PathAt(s, m - 1) \in stop
    <3>1. link[s[m - 1]] = old
      BY <1>5, <1>10, <2>1
    <3>2. QED
      BY <2>1, <2>2, <3>1 DEF stop
  <2>4. \A l \in 1 .. ((m - 1) - 1) : PathAt(s, l) \notin stop
    <3>1. TAKE l \in 1 .. ((m - 1) - 1)
    <3>2. l \in 1 .. Len(s) /\ l + 1 \in 1 .. (Len(s) + 1) /\ l + 1 # m
      BY <1>5, <1>10, <2>1
    <3>3. link[s[l]] # old
      BY <1>5, <1>10, <1>11, <3>2
    <3>4. QED
      BY <2>2, <3>2, <3>3 DEF stop
  <2>5. StopsAt(s, stop, m - 1)
    BY <2>1, <2>3, <2>4 DEF StopsAt
  <2>6. before[t.array[i]] = PathAt(s, m - 1)
    BY <1>4, <1>8, <1>9, <2>1, <2>5, SeekIs
  <2>7. before[t.array[i]] = s[m - 1]
    BY <2>1, <2>2, <2>6
  <2>8. QED
    BY <1>6, <1>12, <1>14, <2>7 DEF s, i
<1>15. QED
  BY <1>13, <1>14

-----------------------------------------------------------------------------
(* Paths that change                                                       *)

\* A path whose entries keep their links is still one.
LEMMA PathKept ==
  ASSUME NEW s, NEW e, NEW link, IsPath(s, e, link), NEW new, \A x \in ToSet(s) : new[x] = link[x]
  PROVE  IsPath(s, e, new)
<1>1. \A i \in DOMAIN s : s[i] \in ToSet(s)
  BY DEF ToSet
<1>2. QED
  BY <1>1 DEF IsPath

\* A path without one of its entries, when the link in front of it skips it.
LEMMA PathWithout ==
  ASSUME NEW s, NEW e, NEW link, IsPath(s, e, link), IsInjective(s), NEW k \in 1 .. Len(s), NEW new,
         \A x \in ToSet(s) \ {s[k]} :
           new[x] = IF k # 1 /\ x = s[k - 1] THEN PathAt(s, k + 1) ELSE link[x]
  PROVE  IsPath(RemoveAt(s, k), IF k = 1 THEN PathAt(s, 2) ELSE e, new)
<1> DEFINE u == RemoveAt(s, k)
           n == Len(s) - 1
<1>1. s \in Seq(Entries) /\ Len(s) \in Nat /\ DOMAIN s = 1 .. Len(s)
  BY LenProperties DEF IsPath
<1>2. /\ u \in Seq(Entries) /\ Len(u) = n
      /\ \A i \in 1 .. n : u[i] = IF i < k THEN s[i] ELSE s[i + 1]
  BY <1>1, RemovedAt
<1> HIDE DEF u
<1>3. DOMAIN u = 1 .. n
  BY <1>2, LenProperties
<1>4. ASSUME NEW i \in Nat \ {0} PROVE PathAt(u, i) = IF i < k THEN PathAt(s, i) ELSE PathAt(s, i + 1)
  <2>1. CASE i < k
    <3>1. i \in 1 .. n /\ i \in 1 .. Len(s)
      BY <1>1, <2>1
    <3>2. QED
      BY <1>1, <1>2, <1>3, <2>1, <3>1 DEF PathAt
  <2>2. CASE ~(i < k)
    <3>1. i \in 1 .. n <=> i + 1 \in 1 .. Len(s)
      BY <1>1
    <3>2. QED
      BY <1>1, <1>2, <1>3, <2>2, <3>1 DEF PathAt
  <2>3. QED
    BY <2>1, <2>2
<1>5. ASSUME NEW i \in 1 .. Len(s) PROVE link[s[i]] = PathAt(s, i + 1) /\ s[i] \in ToSet(s)
  BY <1>1 DEF IsPath, ToSet
<1>6. ASSUME NEW i \in 1 .. Len(s), NEW j \in 1 .. Len(s), s[i] = s[j] PROVE i = j
  BY <1>1, <1>6 DEF IsInjective
<1>7. ASSUME NEW i \in DOMAIN u PROVE new[u[i]] = PathAt(u, i + 1)
  <2>1. i \in 1 .. n /\ i \in Nat \ {0} /\ i + 1 \in Nat \ {0} /\ i \in 1 .. Len(s) /\ i + 1 \in 1 .. Len(s)
    BY <1>1, <1>3
  <2>2. PathAt(u, i + 1) = IF i + 1 < k THEN PathAt(s, i + 1) ELSE PathAt(s, (i + 1) + 1)
    BY <1>4, <2>1
  <2>3. CASE i < k
    <3>1. i # k /\ u[i] = s[i]
      BY <1>2, <2>1, <2>3
    <3>2. s[i] \in ToSet(s) \ {s[k]} /\ link[s[i]] = PathAt(s, i + 1)
      BY <1>5, <1>6, <2>1, <3>1
    <3>3. CASE i = k - 1
      <4>1. k # 1 /\ s[i] = s[k - 1] /\ (i + 1) + 1 = k + 1 /\ ~(i + 1 < k)
        BY <2>1, <3>3
      <4>2. new[s[i]] = PathAt(s, k + 1)
        BY <3>2, <4>1
      <4>3. QED
        BY <2>2, <3>1, <4>1, <4>2
    <3>4. CASE i # k - 1
      <4>1. i + 1 < k /\ k # 1 /\ k - 1 \in 1 .. Len(s)
        BY <1>1, <2>1, <2>3, <3>4
      <4>2. s[i] # s[k - 1]
        BY <1>6, <2>1, <3>4, <4>1
      <4>3. new[s[i]] = link[s[i]]
        BY <3>2, <4>2
      <4>4. QED
        BY <2>2, <3>1, <3>2, <4>1, <4>3
    <3>5. QED
      BY <3>3, <3>4
  <2>4. CASE ~(i < k)
    <3>1. u[i] = s[i + 1] /\ i + 1 # k /\ (k # 1 => i + 1 # k - 1 /\ k - 1 \in 1 .. Len(s)) /\ ~(i + 1 < k)
      BY <1>1, <1>2, <2>1, <2>4
    <3>2. s[i + 1] # s[k]
      BY <1>6, <2>1, <3>1
    <3>3. k # 1 => s[i + 1] # s[k - 1]
      BY <1>6, <2>1, <3>1
    <3>4. s[i + 1] \in ToSet(s) /\ link[s[i + 1]] = PathAt(s, (i + 1) + 1)
      BY <1>5, <2>1
    <3>5. new[s[i + 1]] = link[s[i + 1]]
      BY <3>2, <3>3, <3>4
    <3>6. QED
      BY <2>2, <3>1, <3>4, <3>5
  <2>5. QED
    BY <2>3, <2>4
<1>8. PathAt(u, 1) = IF k = 1 THEN PathAt(s, 2) ELSE e
  <2>1. 1 \in Nat \ {0} /\ (1 < k <=> k # 1) /\ 1 + 1 = 2
    OBVIOUS
  <2>2. PathAt(s, 1) = e
    BY DEF IsPath
  <2>3. QED
    BY <1>4, <2>1, <2>2
<1>9. QED
  BY <1>2, <1>7, <1>8 DEF IsPath, u

\* A path with another entry at its end.
LEMMA PathAppended ==
  ASSUME NEW s, NEW e, NEW link, IsPath(s, e, link), IsInjective(s), NEW x \in Entries, x \notin ToSet(s),
         NEW new, new[x] = Nil,
         \A y \in ToSet(s) : new[y] = IF y = s[Len(s)] THEN x ELSE link[y]
  PROVE  IsPath(Append(s, x), IF Len(s) = 0 THEN x ELSE e, new)
<1> DEFINE u == Append(s, x)
           n == Len(s)
<1>1. s \in Seq(Entries) /\ n \in Nat /\ DOMAIN s = 1 .. n
  BY LenProperties DEF IsPath
<1>2. /\ u \in Seq(Entries) /\ Len(u) = n + 1 /\ u[n + 1] = x
      /\ \A i \in 1 .. n : u[i] = s[i]
  BY <1>1, AppendProperties
<1>3. \A i \in 1 .. n : s[i] \in ToSet(s) /\ link[s[i]] = PathAt(s, i + 1)
  BY <1>1 DEF ToSet, IsPath
<1>4. \A i, j \in 1 .. n : s[i] = s[j] => i = j
  BY <1>1 DEF IsInjective
<1>5. PathAt(s, 1) = e
  BY DEF IsPath
<1> HIDE DEF u, n
<1>6. DOMAIN u = 1 .. (n + 1)
  BY <1>1, <1>2, LenProperties
<1>7. \A i \in 1 .. n : PathAt(u, i) = s[i] /\ PathAt(s, i) = s[i]
  <2>1. \A i \in 1 .. n : i \in 1 .. (n + 1)
    BY <1>1
  <2>2. QED
    BY <1>1, <1>2, <1>6, <2>1 DEF PathAt
<1>8. PathAt(u, n + 1) = x /\ PathAt(u, n + 2) = Nil
  <2>1. n + 1 \in 1 .. (n + 1) /\ n + 2 \notin 1 .. (n + 1)
    BY <1>1
  <2>2. QED
    BY <1>2, <1>6, <2>1 DEF PathAt
<1>9. ASSUME NEW i \in DOMAIN u PROVE new[u[i]] = PathAt(u, i + 1)
  <2>1. CASE i = n + 1
    <3>1. i + 1 = n + 2
      BY <1>1, <2>1
    <3>2. QED
      BY <1>2, <1>8, <2>1, <3>1
  <2>2. CASE i = n
    <3>1. i \in 1 .. n
      BY <1>1, <1>6, <2>2
    <3>2. s[i] = s[Len(s)]
      BY <2>2 DEF n
    <3>3. new[s[i]] = x
      BY <1>3, <3>1, <3>2
    <3>4. QED
      BY <1>2, <1>8, <2>2, <3>1, <3>3
  <2>3. CASE i # n + 1 /\ i # n
    <3>1. i \in 1 .. n /\ i + 1 \in 1 .. n /\ n \in 1 .. n
      BY <1>1, <1>6, <2>3
    <3>2. s[i] # s[Len(s)]
      BY <1>4, <2>3, <3>1 DEF n
    <3>3. new[s[i]] = link[s[i]]
      BY <1>3, <3>1, <3>2
    <3>4. QED
      BY <1>2, <1>3, <1>7, <3>1, <3>3
  <2>4. QED
    BY <2>1, <2>2, <2>3
<1>10. PathAt(u, 1) = IF Len(s) = 0 THEN x ELSE e
  <2>1. CASE n = 0
    <3>1. n + 1 = 1
      BY <2>1
    <3>2. QED
      BY <1>8, <2>1, <3>1 DEF n
  <2>2. CASE n # 0
    <3>1. 1 \in 1 .. n
      BY <1>1, <2>2
    <3>2. QED
      BY <1>5, <1>7, <2>2, <3>1 DEF n
  <2>3. QED
    BY <2>1, <2>2
<1>11. QED
  BY <1>2, <1>9, <1>10 DEF IsPath, u

\* ogs_hash_set to NULL, field by field.
LEMMA RemovedFields ==
  ASSUME NEW t, NEW C, NEW F, NEW S, Holds(t, C, F, S), NEW k \in Keys,
         NEW i, i = Bucket(t, k), NEW s, s = C[i], NEW r, r = Removed(t, k),
         NEW m \in 1 .. Len(s), FoundAt(t, s, k, m), NEW e, e = s[m]
  PROVE  /\ r.max = t.max /\ r.made = t.made /\ r.count = t.count - 1 /\ r.free = e
         /\ r.array = IF m = 1 THEN [t.array EXCEPT ![i] = t.next[e]] ELSE t.array
         /\ r.next = [x \in Entries |-> IF x = e THEN t.free
                                        ELSE IF m # 1 /\ x = s[m - 1] THEN t.next[e] ELSE t.next[x]]
         /\ r.key = [t.key EXCEPT ![e] = Nil] /\ r.val = [t.val EXCEPT ![e] = Nil]
         /\ t.count - 1 \in Nat => TableTypes(r)
<1> DEFINE old == t.next[e]
           u == Relink(t, k, old)
<1>1. TableTypes(t) /\ Rows(t, C, S)
  BY DEF Holds
<1>2. /\ t.max \in Nat /\ t.array \in [0 .. t.max -> Links] /\ t.next \in [Entries -> Links]
      /\ t.key \in [Entries -> Keys \cup {Nil}] /\ t.val \in [Entries -> Vals \cup {Nil}]
      /\ t.free \in Links /\ t.count \in Nat /\ t.made \in Nat /\ t \in Table
  <2>1. t \in Table
    BY <1>1 DEF TableTypes
  <2>2. QED
    BY <1>1, <2>1, TableSays
<1>3. i \in 0 .. t.max
  BY <1>2, BucketIs
<1>4. s \in Seq(Entries) /\ Len(s) \in Nat /\ IsInjective(s) /\ DOMAIN s = 1 .. Len(s)
  BY <1>1, <1>3, LenProperties DEF Rows
<1>5. e \in Entries /\ PathAt(s, m) = e /\ old \in Links
  <2>1. e \in Entries /\ PathAt(s, m) = e
    BY <1>4, PathAtIs
  <2>2. QED
    BY <1>2, <2>1
<1>6. FindEntry(t, k) = e
  BY <1>5 DEF FoundAt
<1>7. r = [u EXCEPT !.next[e] = t.free, !.free = e, !.count = @ - 1, !.key[e] = Nil, !.val[e] = Nil]
  BY <1>6 DEF Removed
<1>8. u = IF m = 1 THEN [t EXCEPT !.array[i] = old] ELSE [t EXCEPT !.next[s[m - 1]] = old]
  BY <1>5, RelinkIs
<1>9. m # 1 => s[m - 1] \in Entries /\ s[m - 1] # e
  <2>1. m # 1 => m - 1 \in 1 .. Len(s)
    BY <1>4
  <2>2. m # 1 => s[m - 1] \in Entries
    BY <1>4, <2>1, ElementOfSeq
  <2>3. ASSUME m # 1 PROVE s[m - 1] # e
    BY <1>4, <2>1, <2>3 DEF IsInjective
  <2>4. QED
    BY <2>2, <2>3
<1> HIDE DEF old, u
<1> DEFINE array == IF m = 1 THEN [t.array EXCEPT ![i] = old] ELSE t.array
           link == IF m = 1 THEN t.next ELSE [t.next EXCEPT ![s[m - 1]] = old]
<1>10. /\ u \in Table /\ u.max = t.max /\ u.made = t.made /\ u.count = t.count /\ u.free = t.free
       /\ u.array = array /\ u.next = link /\ u.key = t.key /\ u.val = t.val
  <2>1. array \in [0 .. t.max -> Links] /\ link \in [Entries -> Links]
    BY <1>2, <1>3, <1>5, <1>9
  <2>2. array \in Arrays
    <3> HIDE DEF array
    <3>1. QED
      BY <1>2, <2>1 DEF Arrays
  <2>3. CASE m = 1
    <3>1. u = [t EXCEPT !.array[i] = old] /\ array = [t.array EXCEPT ![i] = old] /\ link = t.next
      BY <1>8, <2>3
    <3> HIDE DEF array, link
    <3>2. QED
      BY <1>2, <2>1, <2>2, <3>1 DEF Table
  <2>4. CASE m # 1
    <3>1. u = [t EXCEPT !.next[s[m - 1]] = old] /\ array = t.array /\ link = [t.next EXCEPT ![s[m - 1]] = old]
      BY <1>8, <2>4
    <3> HIDE DEF array, link
    <3>2. QED
      BY <1>2, <2>1, <2>2, <3>1 DEF Table
  <2>5. QED
    BY <2>3, <2>4
<1>11. /\ r.max = t.max /\ r.made = t.made /\ r.count = t.count - 1 /\ r.free = e
       /\ r.array = array /\ r.next = [link EXCEPT ![e] = t.free]
       /\ r.key = [t.key EXCEPT ![e] = Nil] /\ r.val = [t.val EXCEPT ![e] = Nil]
  <2> HIDE DEF array, link
  <2>1. QED
    BY <1>2, <1>7, <1>10 DEF Table
<1>12. r.next = [x \in Entries |-> IF x = e THEN t.free
                                   ELSE IF m # 1 /\ x = s[m - 1] THEN old ELSE t.next[x]]
  BY <1>2, <1>5, <1>9, <1>11
<1>13. ASSUME t.count - 1 \in Nat PROVE TableTypes(r)
  <2> DEFINE links == [link EXCEPT ![e] = t.free]
             keys == [t.key EXCEPT ![e] = Nil]
             vals == [t.val EXCEPT ![e] = Nil]
             n == t.count - 1
  <2>1. /\ array \in [0 .. t.max -> Links] /\ links \in [Entries -> Links]
        /\ keys \in [Entries -> Keys \cup {Nil}] /\ vals \in [Entries -> Vals \cup {Nil}]
    BY <1>2, <1>3, <1>5, <1>9
  <2>2. r = [u EXCEPT !.next = links, !.free = e, !.count = n, !.key = keys, !.val = vals]
    <3>1. u.next = link /\ u.count = t.count /\ u.key = t.key /\ u.val = t.val
      BY <1>10
    <3>2. r = [u EXCEPT !.next = [u.next EXCEPT ![e] = t.free], !.free = e, !.count = u.count - 1,
                        !.key = [u.key EXCEPT ![e] = Nil], !.val = [u.val EXCEPT ![e] = Nil]]
      BY <1>7
    <3> HIDE DEF link
    <3>3. QED
      BY <3>1, <3>2
  <2>3. e \in Links /\ n \in Nat
    BY <1>5, <1>13 DEF Links
  <2> HIDE DEF array, link, links, keys, vals, n
  <2>4. r \in Table
    BY <1>10, <2>1, <2>2, <2>3 DEF Table
  <2>5. r.array \in [0 .. r.max -> Links]
    BY <1>11, <2>1
  <2>6. QED
    BY <2>4, <2>5 DEF TableTypes
<1>14. QED
  BY <1>11, <1>12, <1>13 DEF old

\* r is the table t without the entry e of S: the others keep their keys,
\* values and paths.
Loses(t, S, e, r) ==
  /\ \E D, G : Holds(r, D, G, S \ {e})
  /\ r.max = t.max /\ r.count = t.count - 1
  /\ \A x \in S \ {e} : r.key[x] = t.key[x] /\ r.val[x] = t.val[x]
  /\ \A g \in Links : e \notin ToSet(PathFrom(t.next, g)) => PathFrom(r.next, g) = PathFrom(t.next, g)
  /\ \A i \in 0 .. t.max : t.array[i] # e => r.array[i] = t.array[i]

\* ogs_hash_set to NULL takes the entry of the key away.
LEMMA RemovedIs ==
  ASSUME NEW t, NEW C, NEW F, NEW S, Holds(t, C, F, S), NEW k \in Keys, NEW e \in S, t.key[e] = k,
         NEW r, r = Removed(t, k)
  PROVE  Loses(t, S, e, r)
<1> DEFINE i == Bucket(t, k)
           s == C[i]
           T == S \ {e}
<1>1. TableTypes(t) /\ Rows(t, C, S) /\ Covers(t, F, S) /\ Counts(t, S)
  BY DEF Holds
<1>2. /\ t.max \in Nat /\ t.array \in [0 .. t.max -> Links] /\ t.next \in [Entries -> Links]
      /\ t.key \in [Entries -> Keys \cup {Nil}] /\ t.val \in [Entries -> Vals \cup {Nil}]
      /\ t.free \in Links /\ t.count \in Nat
  BY <1>1, TableSays
<1>3. i \in 0 .. t.max
  BY <1>2, BucketIs
<1>4. IsPath(s, t.array[i], t.next) /\ IsInjective(s)
  BY <1>1, <1>3 DEF Rows
<1>5. s \in Seq(Entries) /\ Len(s) \in Nat /\ DOMAIN s = 1 .. Len(s)
      /\ \A l \in 1 .. Len(s) : t.next[s[l]] = PathAt(s, l + 1)
  BY <1>4, LenProperties DEF IsPath
<1>6. S \subseteq Entries /\ e \in Entries /\ e # Nil
  <2>1. S \subseteq Entries
    BY <1>1 DEF Rows
  <2>2. QED
    BY <2>1, EntriesAre
<1>7. PICK m \in Int : FoundAt(t, s, k, m)
  BY WalkFinds
<1>8. FindEntry(t, k) = e
  BY FindIs
<1>9. m \in 1 .. Len(s) /\ s[m] = e
  <2>1. PathAt(s, m) = e
    BY <1>7, <1>8 DEF FoundAt
  <2>2. QED
    BY <1>5, <1>6, <2>1, PathAtIs
<1>10. /\ r.max = t.max /\ r.made = t.made /\ r.count = t.count - 1 /\ r.free = e
       /\ r.array = IF m = 1 THEN [t.array EXCEPT ![i] = t.next[e]] ELSE t.array
       /\ r.next = [x \in Entries |-> IF x = e THEN t.free
                                      ELSE IF m # 1 /\ x = s[m - 1] THEN t.next[e] ELSE t.next[x]]
       /\ r.key = [t.key EXCEPT ![e] = Nil] /\ r.val = [t.val EXCEPT ![e] = Nil]
       /\ t.count - 1 \in Nat => TableTypes(r)
  <2> DEFINE q == r
  <2>1. q = Removed(t, k) /\ i = Bucket(t, k) /\ s = C[i] /\ FoundAt(t, s, k, m)
    BY <1>7
  <2> HIDE DEF q, s, i
  <2>2. /\ q.max = t.max /\ q.made = t.made /\ q.count = t.count - 1 /\ q.free = e
        /\ q.array = IF m = 1 THEN [t.array EXCEPT ![i] = t.next[e]] ELSE t.array
        /\ q.next = [x \in Entries |-> IF x = e THEN t.free
                                       ELSE IF m # 1 /\ x = s[m - 1] THEN t.next[e] ELSE t.next[x]]
        /\ q.key = [t.key EXCEPT ![e] = Nil] /\ q.val = [t.val EXCEPT ![e] = Nil]
        /\ t.count - 1 \in Nat => TableTypes(q)
    BY <1>9, <2>1, RemovedFields
  <2>3. QED
    BY <2>2 DEF q
<1>11. t.next[e] = PathAt(s, m + 1)
  BY <1>5, <1>9
<1>12. \A j \in 0 .. t.max : \A x \in Entries : x \in ToSet(C[j]) <=> x \in S /\ Bucket(t, t.key[x]) = j
  BY <1>1 DEF Rows
<1>13. \A x \in S : t.key[x] \in Keys /\ t.val[x] \in Vals
  BY <1>1 DEF Rows
<1>14. \A x \in S : Bucket(t, t.key[x]) \in 0 .. t.max
  BY <1>2, <1>13, BucketIs
<1>15. m # 1 => m - 1 \in 1 .. Len(s) /\ s[m - 1] \in ToSet(s) /\ s[m - 1] \in Entries /\ s[m - 1] \in S
  <2>1. m # 1 => m - 1 \in 1 .. Len(s)
    BY <1>5, <1>9
  <2>2. m # 1 => s[m - 1] \in ToSet(s) /\ s[m - 1] \in Entries
    BY <1>5, <2>1, ElementOfSeq DEF ToSet
  <2>3. QED
    BY <1>3, <1>12, <2>1, <2>2
\* Counts
<1>16. IsFiniteSet(S) /\ IsFiniteSet(T) /\ Cardinality(T) = Cardinality(S) - 1 /\ Cardinality(T) \in Nat
  <2>1. IsFiniteSet(S)
    BY <1>6, EntriesAre, FS_Subset
  <2>2. IsFiniteSet(T) /\ Cardinality(T) = Cardinality(S) - 1
    BY <2>1, FS_RemoveElement
  <2>3. QED
    BY <2>1, <2>2, FS_CardinalityType
<1>17. TableTypes(r)
  <2>1. t.count - 1 \in Nat
    BY <1>1, <1>16 DEF Counts
  <2>2. QED
    BY <1>10, <2>1
<1>18. \A x \in T : r.key[x] = t.key[x] /\ r.val[x] = t.val[x]
  BY <1>2, <1>6, <1>10
<1>19. Counts(r, T)
  <2>1. r.count = Cardinality(T)
    BY <1>1, <1>10, <1>16 DEF Counts
  <2>2. \A x, y \in T : r.key[x] = r.key[y] => x = y
    BY <1>1, <1>18 DEF Counts
  <2>3. QED
    BY <2>1, <2>2 DEF Counts
\* the free list
<1> DEFINE G == <<e>> \o F
<1>20. Covers(r, G, T)
  <2>1. /\ IsPath(F, t.free, t.next) /\ IsInjective(F) /\ ToSet(F) \cap S = {}
        /\ t.made \in 0 .. Cardinality(Keys)
        /\ \A x \in Entries : x <= t.made <=> x \in S \cup ToSet(F)
        /\ \A x \in Entries : ~(x <= t.made) => t.next[x] = Nil
    BY <1>1 DEF Covers
  <2>2. F \in Seq(Entries) /\ ToSet(F) \subseteq Entries
    <3>1. F \in Seq(Entries)
      BY <2>1 DEF IsPath
    <3>2. QED
      BY <3>1, ElementOfSeq, LenProperties DEF ToSet
  <2>3. \A x \in Entries \ S : r.next[x] = t.next[x]
    BY <1>6, <1>10, <1>15
  <2>4. IsPath(F, t.free, r.next)
    <3>1. \A x \in ToSet(F) : r.next[x] = t.next[x]
      BY <2>1, <2>2, <2>3
    <3>2. QED
      BY <2>1, <3>1, PathKept
  <2>5. r.next[e] = t.free
    BY <1>6, <1>10
  <2>6. IsPath(G, e, r.next)
    BY <1>6, <2>4, <2>5, PathOf
  <2>7. ToSet(G) = {e} \cup ToSet(F) /\ IsInjective(G)
    <3>1. <<e>> \in Seq(Entries) /\ ToSet(<<e>>) = {e} /\ IsInjective(<<e>>)
      BY <1>6 DEF ToSet, IsInjective
    <3>2. {e} \cap ToSet(F) = {}
      BY <2>1
    <3> DEFINE one == <<e>>
    <3>3. one \in Seq(Entries) /\ ToSet(one) = {e} /\ IsInjective(one) /\ G = one \o F
      BY <3>1
    <3> HIDE DEF one, G
    <3>4. ToSet(one \o F) = ToSet(one) \cup ToSet(F)
      BY <2>2, <3>3, InjectiveConcat
    <3>5. ToSet(one) \cap ToSet(F) = {}
      BY <3>2, <3>3
    <3>6. IsInjective(one \o F)
      BY <2>1, <2>2, <3>3, <3>5, InjectiveConcat
    <3>7. QED
      BY <3>3, <3>4, <3>6
  <2> HIDE DEF G
  <2>8. ToSet(G) \cap T = {}
    BY <2>1, <2>7
  <2>9. \A x \in Entries : x <= r.made <=> x \in T \cup ToSet(G)
    BY <1>10, <2>1, <2>7
  <2>10. \A x \in Entries : ~(x <= r.made) => r.next[x] = Nil
    BY <1>10, <2>1, <2>3
  <2>11. r.free = e /\ r.made \in 0 .. Cardinality(Keys)
    BY <1>10, <2>1
  <2>12. QED
    BY <2>6, <2>7, <2>8, <2>9, <2>10, <2>11 DEF Covers
\* the chains
<1> DEFINE E == [j \in 0 .. t.max |-> IF j = i THEN RemoveAt(s, m) ELSE C[j]]
<1>21. /\ RemoveAt(s, m) \in Seq(Entries) /\ IsInjective(RemoveAt(s, m))
       /\ ToSet(RemoveAt(s, m)) = ToSet(s) \ {e}
  BY <1>4, <1>5, <1>9, InjectiveRemove
<1>22. IsPath(RemoveAt(s, m), r.array[i], r.next)
  <2>1. \A x \in ToSet(s) \ {s[m]} :
          r.next[x] = IF m # 1 /\ x = s[m - 1] THEN PathAt(s, m + 1) ELSE t.next[x]
    <3>1. \A x \in ToSet(s) : x \in Entries
      BY <1>5, ElementOfSeq DEF ToSet
    <3>2. QED
      BY <1>9, <1>10, <1>11, <3>1
  <2>2. IsPath(RemoveAt(s, m), IF m = 1 THEN PathAt(s, 2) ELSE t.array[i], r.next)
    <3> DEFINE new == r.next
    <3>1. \A x \in ToSet(s) \ {s[m]} :
            new[x] = IF m # 1 /\ x = s[m - 1] THEN PathAt(s, m + 1) ELSE t.next[x]
      BY <2>1
    <3> HIDE DEF new, s, i
    <3>2. IsPath(RemoveAt(s, m), IF m = 1 THEN PathAt(s, 2) ELSE t.array[i], new)
      BY <1>4, <1>9, <3>1, PathWithout
    <3>3. QED
      BY <3>2 DEF new
  <2>3. r.array[i] = IF m = 1 THEN PathAt(s, 2) ELSE t.array[i]
    <3>1. m = 1 => m + 1 = 2
      OBVIOUS
    <3>2. QED
      BY <1>2, <1>3, <1>10, <1>11, <3>1
  <2>4. QED
    BY <2>2, <2>3
<1>23. ASSUME NEW j \in 0 .. t.max, j # i PROVE IsPath(C[j], r.array[j], r.next) /\ IsInjective(C[j])
  <2>1. IsPath(C[j], t.array[j], t.next) /\ IsInjective(C[j]) /\ C[j] \in Seq(Entries)
    BY <1>1 DEF Rows
  <2>2. \A x \in ToSet(C[j]) : x \in Entries
    BY <2>1, ElementOfSeq, LenProperties DEF ToSet
  <2>3. e \in ToSet(s) /\ (m # 1 => s[m - 1] \in ToSet(s))
    BY <1>5, <1>9, <1>15 DEF ToSet
  <2>4. e \notin ToSet(C[j]) /\ (m # 1 => s[m - 1] \notin ToSet(C[j]))
    BY <1>3, <1>6, <1>12, <1>15, <1>23, <2>3
  <2>5. \A x \in ToSet(C[j]) : r.next[x] = t.next[x]
    BY <1>10, <2>2, <2>4
  <2>6. IsPath(C[j], t.array[j], r.next)
    BY <2>1, <2>5, PathKept
  <2>7. r.array[j] = t.array[j]
    BY <1>2, <1>3, <1>10, <1>23
  <2>8. QED
    BY <2>1, <2>6, <2>7
<1>24. Rows(r, E, T)
  <2>1. r.max = t.max
    BY <1>10
  <2>2. E \in [0 .. r.max -> Seq(Entries)] /\ T \in SUBSET Entries
    <3>1. C \in [0 .. t.max -> Seq(Entries)]
      BY <1>1 DEF Rows
    <3> HIDE DEF s
    <3>2. QED
      BY <1>6, <1>21, <2>1, <3>1
  <2>3. \A j \in 0 .. t.max : IsPath(E[j], r.array[j], r.next) /\ IsInjective(E[j])
    BY <1>21, <1>22, <1>23
  <2>4. \A k1 : Bucket(r, k1) = Bucket(t, k1)
    BY <2>1 DEF Bucket
  <2>5. ASSUME NEW j \in 0 .. t.max, NEW x \in Entries
        PROVE  x \in ToSet(E[j]) <=> x \in T /\ Bucket(r, r.key[x]) = j
    <3>1. ToSet(E[j]) = ToSet(C[j]) \ {e}
      <4>1. CASE j = i
        BY <1>3, <1>21, <4>1
      <4>2. CASE j # i
        <5>1. E[j] = C[j]
          BY <4>2
        <5>2. e \notin ToSet(C[j])
          <6>1. Bucket(t, t.key[e]) = i
            OBVIOUS
          <6>2. QED
            BY <1>6, <1>12, <4>2, <6>1
        <5>3. QED
          BY <5>1, <5>2
      <4>3. QED
        BY <4>1, <4>2
    <3>2. x \in T => Bucket(r, r.key[x]) = Bucket(t, t.key[x])
      BY <1>18, <2>4
    <3> HIDE DEF E
    <3>3. QED
      BY <1>12, <3>1, <3>2
  <2>6. \A x \in T : r.key[x] \in Keys /\ r.val[x] \in Vals
    BY <1>13, <1>18
  <2> HIDE DEF E
  <2>7. QED
    BY <2>1, <2>2, <2>3, <2>5, <2>6 DEF Rows
<1>25. Holds(r, E, G, T)
  BY <1>17, <1>19, <1>20, <1>24 DEF Holds
\* the other paths
<1>26. ASSUME NEW g \in Links, e \notin ToSet(PathFrom(t.next, g))
       PROVE  PathFrom(r.next, g) = PathFrom(t.next, g)
  <2> DEFINE p == PathFrom(t.next, g)
  <2>1. Grounded(t.next) /\ Grounded(r.next)
    BY <1>25, HeldLinks
  <2>2. IsPath(p, g, t.next)
    BY <2>1, PathFromIs
  <2> HIDE DEF p
  <2>3. p \in Seq(Entries) /\ Len(p) \in Nat /\ DOMAIN p = 1 .. Len(p)
        /\ \A l \in 1 .. Len(p) : t.next[p[l]] = PathAt(p, l + 1) /\ p[l] \in Entries
    BY <2>2, LenProperties, ElementOfSeq DEF IsPath
  <2>4. \A x \in ToSet(p) : t.next[x] # e /\ x # e /\ x \in Entries
    <3>1. SUFFICES ASSUME NEW l \in 1 .. Len(p), t.next[p[l]] = e PROVE FALSE
      BY <1>26, <2>3 DEF ToSet, p
    <3>2. l + 1 \in Int /\ PathAt(p, l + 1) = e
      BY <2>3, <3>1
    <3>3. l + 1 \in 1 .. Len(p) /\ p[l + 1] = e
      BY <1>6, <2>3, <3>2, PathAtIs
    <3>4. e \in ToSet(p)
      BY <2>3, <3>3 DEF ToSet
    <3>5. QED
      BY <1>26, <3>4 DEF p
  <2>5. m # 1 => t.next[s[m - 1]] = e
    <3>1. m # 1 => t.next[s[m - 1]] = PathAt(s, (m - 1) + 1) /\ (m - 1) + 1 = m
      BY <1>5, <1>9, <1>15
    <3>2. PathAt(s, m) = e
      BY <1>5, <1>9 DEF PathAt
    <3>3. QED
      BY <3>1, <3>2
  <2>6. \A x \in ToSet(p) : r.next[x] = t.next[x]
    BY <1>10, <2>4, <2>5
  <2>7. IsPath(p, g, r.next)
    BY <2>2, <2>6, PathKept
  <2>8. QED
    BY <2>1, <2>7, PathFromIs DEF p
<1>27. ASSUME NEW j \in 0 .. t.max, t.array[j] # e PROVE r.array[j] = t.array[j]
  <2>1. CASE m = 1
    <3>1. t.array[i] = e
      BY <1>4, <1>5, <1>9, <2>1 DEF IsPath, PathAt
    <3>2. QED
      BY <1>2, <1>3, <1>10, <1>27, <3>1
  <2>2. CASE m # 1
    BY <1>10, <2>2
  <2>3. QED
    BY <2>1, <2>2
<1>28. QED
  <2> HIDE DEF E, G
  <2>1. \E D1, G1 : Holds(r, D1, G1, T)
    BY <1>25
  <2>2. QED
    BY <1>10, <1>18, <1>26, <1>27, <2>1 DEF Loses

\* The entry of a new key: the first one on the free list, or the next one.
NewEntry(t) == IF t.free # Nil THEN t.free ELSE t.made + 1

\* There is an entry for a key that has none.
LEMMA NewEntryIs ==
  ASSUME NEW t, NEW C, NEW F, NEW S, Holds(t, C, F, S), NEW k \in Keys, \A e \in S : t.key[e] # k
  PROVE  /\ NewEntry(t) \in Entries \ S
         /\ IsFiniteSet(S) /\ Cardinality(S) \in Nat /\ Cardinality(S) < Cardinality(Keys)
         /\ t.free # Nil => /\ F # << >> /\ Head(F) = t.free
                            /\ IsPath(Tail(F), t.next[t.free], t.next)
                            /\ IsInjective(Tail(F)) /\ ToSet(Tail(F)) = ToSet(F) \ {t.free}
                            /\ t.free \in ToSet(F)
         /\ t.free = Nil => F = << >> /\ ToSet(F) = {}
<1>1. TableTypes(t) /\ Rows(t, C, S) /\ Covers(t, F, S) /\ Counts(t, S)
  BY DEF Holds
<1>2. t.free \in Links /\ t.key \in [Entries -> Keys \cup {Nil}] /\ t.made \in Nat
  BY <1>1, TableSays
<1>3. S \subseteq Entries /\ \A e \in S : t.key[e] \in Keys
  BY <1>1 DEF Rows
<1>4. IsFiniteSet(S) /\ Cardinality(S) \in Nat
  BY <1>3, EntriesAre, FS_Subset, FS_CardinalityType
<1>5. Cardinality(S) < Cardinality(Keys)
  <2> DEFINE T == Keys \ {k}
             f == [e \in S |-> t.key[e]]
  <2>1. IsFiniteSet(T) /\ Cardinality(T) = Cardinality(Keys) - 1
    BY EntriesAre, FS_RemoveElement
  <2>2. f \in [S -> T]
    BY <1>3
  <2>3. \A x, y \in S : f[x] = f[y] => x = y
    BY <1>1 DEF Counts
  <2> HIDE DEF T, f
  <2>4. f \in Injection(S, T)
    BY <2>2, <2>3 DEF Injection, IsInjective
  <2>5. Cardinality(S) <= Cardinality(T)
    BY <2>1, <2>4, FS_Injection
  <2>6. QED
    BY <1>4, <2>1, <2>5, EntriesAre
<1>6. /\ IsPath(F, t.free, t.next) /\ IsInjective(F) /\ ToSet(F) \cap S = {}
      /\ t.made \in 0 .. Cardinality(Keys)
      /\ \A e \in Entries : e <= t.made <=> e \in S \cup ToSet(F)
  BY <1>1 DEF Covers
<1>7. F \in Seq(Entries) /\ Len(F) \in Nat /\ DOMAIN F = 1 .. Len(F) /\ t.free = PathAt(F, 1)
  BY <1>6, LenProperties DEF IsPath
<1>8. CASE t.free # Nil
  <2>1. 1 \in 1 .. Len(F) /\ F[1] = t.free
    BY <1>7, <1>8, PathAtIs
  <2>2. F # << >> /\ Head(F) = F[1]
    BY <1>7, <2>1, EmptySeq
  <2>3. IsInjective(Tail(F)) /\ ToSet(Tail(F)) = ToSet(F) \ {t.free} /\ t.free \in ToSet(F) /\ t.free \in Entries
    BY <1>6, <1>7, <2>1, <2>2, InjectiveTail
  <2>4. IsPath(Tail(F), t.next[t.free], t.next)
    <3>1. 2 \in 1 .. (Len(F) + 1) /\ 1 + 1 = 2
      BY <1>7, <2>1
    <3> DEFINE two == 2
    <3> HIDE DEF two
    <3>2. PICK u : /\ IsPath(u, PathAt(F, two), t.next) /\ Len(u) = Len(F) + 1 - two
                   /\ \A i \in Nat \ {0} : PathAt(u, i) = PathAt(F, two - 1 + i)
      <4>1. two \in 1 .. (Len(F) + 1)
        BY <3>1 DEF two
      <4>2. QED
        BY <1>6, <4>1, PathBehind
    <3> USE DEF two
    <3>3. PathAt(F, 2) = t.next[t.free]
      BY <1>6, <1>7, <2>1, <3>1 DEF IsPath
    <3>4. u \in Seq(Entries) /\ DOMAIN u = 1 .. Len(u) /\ Len(u) = Len(F) - 1
      BY <1>7, <3>2, LenProperties DEF IsPath
    <3>5. Tail(F) \in Seq(Entries) /\ Len(Tail(F)) = Len(F) - 1
          /\ \A i \in 1 .. (Len(F) - 1) : Tail(F)[i] = F[i + 1]
      BY <1>7, <2>2, HeadTailProperties
    <3>6. \A i \in 1 .. (Len(F) - 1) : u[i] = F[i + 1]
      <4>1. TAKE i \in 1 .. (Len(F) - 1)
      <4>2. i \in Nat \ {0} /\ 2 - 1 + i = i + 1 /\ i + 1 \in 1 .. Len(F)
        BY <1>7
      <4>3. PathAt(u, i) = PathAt(F, i + 1)
        BY <3>2, <4>2
      <4>4. QED
        BY <1>7, <3>4, <4>2, <4>3 DEF PathAt
    <3>7. Tail(F) = u
      BY <3>4, <3>5, <3>6, SeqEqual
    <3>8. QED
      BY <3>2, <3>3, <3>7
  <2>5. NewEntry(t) \in Entries \ S
    BY <1>6, <1>8, <2>3 DEF NewEntry
  <2>6. QED
    BY <1>4, <1>5, <1>8, <2>1, <2>2, <2>3, <2>4, <2>5
<1>9. CASE t.free = Nil
  <2>1. F = << >> /\ ToSet(F) = {}
    <3>1. 1 \notin 1 .. Len(F)
      BY <1>7, <1>9, PathAtIs
    <3>2. Len(F) = 0
      BY <1>7, <3>1
    <3>3. F = << >>
      BY <1>7, <3>2, EmptySeq
    <3>4. QED
      BY <3>3 DEF ToSet
  <2>2. S = 1 .. t.made
    <3>1. \A e \in 1 .. t.made : e \in Entries /\ e <= t.made
      BY <1>6, EntriesAre
    <3>2. \A e \in S : e \in Entries /\ e \in Nat /\ e <= t.made /\ e # 0
      BY <1>3, <1>6, EntriesAre
    <3>3. \A e \in 1 .. t.made : e \in S
      BY <1>6, <2>1, <3>1
    <3>4. \A e \in S : e \in 1 .. t.made
      BY <1>2, <3>2
    <3>5. QED
      BY <3>3, <3>4
  <2>3. Cardinality(1 .. t.made) = t.made
    <3> DEFINE n == t.made
    <3>1. n \in Nat
      BY <1>2
    <3> HIDE DEF n
    <3>2. Cardinality(1 .. n) = IF 1 > n THEN 0 ELSE n - 1 + 1
      BY <3>1, FS_Interval
    <3>3. Cardinality(1 .. n) = n
      BY <3>1, <3>2
    <3>4. QED
      BY <3>3 DEF n
  <2>4. t.made + 1 \in Entries /\ t.made + 1 \notin S
    BY <1>2, <1>5, <2>2, <2>3, EntriesAre
  <2>5. QED
    BY <1>4, <1>5, <1>9, <2>1, <2>4 DEF NewEntry
<1>10. QED
  BY <1>8, <1>9

\* ogs_hash_set of a key that is not there, field by field, before the array
\* grows.
LEMMA AddedFields ==
  ASSUME NEW t, NEW C, NEW F, NEW S, Holds(t, C, F, S), NEW k \in Keys, FindEntry(t, k) = Nil,
         NEW v \in Vals, NEW i, i = Bucket(t, k), NEW s, s = C[i], NEW n, n = Len(s),
         NEW a, a = Added(t, k, v), NEW e, e = NewEntry(t), e \in Entries
  PROVE  /\ a.max = t.max /\ a.count = t.count + 1
         /\ a.made = (IF t.free # Nil THEN t.made ELSE t.made + 1)
         /\ a.free = (IF t.free # Nil THEN t.next[e] ELSE Nil)
         /\ a.array = IF n = 0 THEN [t.array EXCEPT ![i] = e] ELSE t.array
         /\ a.next = [x \in Entries |-> IF x = e THEN Nil ELSE IF n # 0 /\ x = s[n] THEN e ELSE t.next[x]]
         /\ a.key = [t.key EXCEPT ![e] = k] /\ a.val = [t.val EXCEPT ![e] = v]
         /\ TableTypes(a)
<1> DEFINE u == Relink(t, k, e)
<1>1. TableTypes(t) /\ Rows(t, C, S)
  BY DEF Holds
<1>2. /\ t.max \in Nat /\ t.array \in [0 .. t.max -> Links] /\ t.next \in [Entries -> Links]
      /\ t.key \in [Entries -> Keys \cup {Nil}] /\ t.val \in [Entries -> Vals \cup {Nil}]
      /\ t.free \in Links /\ t.count \in Nat /\ t.made \in Nat /\ t \in Table
  <2>1. t \in Table
    BY <1>1 DEF TableTypes
  <2>2. QED
    BY <1>1, <2>1, TableSays
<1>3. i \in 0 .. t.max
  BY <1>2, BucketIs
<1>4. s \in Seq(Entries) /\ n \in Nat
  BY <1>1, <1>3, LenProperties DEF Rows
<1>5. PICK m \in Int : FoundAt(t, s, k, m)
  BY WalkFinds
<1>6. m = n + 1
  <2>1. m \in 1 .. (n + 1) /\ PathAt(s, m) = Nil
    BY <1>5 DEF FoundAt
  <2>2. m \notin 1 .. n
    BY <1>4, <2>1, PathAtIs
  <2>3. QED
    BY <1>4, <2>1, <2>2
<1>7. e \in Links
  BY DEF Links
<1>8. u = IF n = 0 THEN [t EXCEPT !.array[i] = e] ELSE [t EXCEPT !.next[s[n]] = e]
  <2>1. u = IF m = 1 THEN [t EXCEPT !.array[i] = e] ELSE [t EXCEPT !.next[s[m - 1]] = e]
    BY <1>5, <1>7, RelinkIs
  <2>2. (m = 1 <=> n = 0) /\ m - 1 = n
    BY <1>4, <1>6
  <2> HIDE DEF u
  <2>3. QED
    BY <2>1, <2>2
<1>9. n # 0 => s[n] \in Entries
  <2>1. n # 0 => n \in 1 .. Len(s)
    BY <1>4
  <2>2. QED
    BY <1>4, <2>1, ElementOfSeq
<1> DEFINE array == IF n = 0 THEN [t.array EXCEPT ![i] = e] ELSE t.array
           link == IF n = 0 THEN t.next ELSE [t.next EXCEPT ![s[n]] = e]
           links == [link EXCEPT ![e] = Nil]
           keys == [t.key EXCEPT ![e] = k]
           vals == [t.val EXCEPT ![e] = v]
           free2 == IF t.free # Nil THEN t.next[e] ELSE Nil
           made == IF t.free # Nil THEN t.made ELSE t.made + 1
           count == t.count + 1
<1> HIDE DEF u
<1>10. /\ array \in [0 .. t.max -> Links] /\ link \in [Entries -> Links] /\ links \in [Entries -> Links]
       /\ keys \in [Entries -> Keys \cup {Nil}] /\ vals \in [Entries -> Vals \cup {Nil}]
       /\ free2 \in Links /\ made \in Nat /\ count \in Nat
  <2>1. Nil \in Links
    BY DEF Links
  <2>2. QED
    BY <1>2, <1>3, <1>7, <1>9, <2>1
<1>11. array \in Arrays
  <2>1. t.max \in Nat /\ array \in [0 .. t.max -> Links]
    BY <1>2, <1>10
  <2> HIDE DEF array
  <2>2. QED
    BY <2>1 DEF Arrays
<1>12. /\ u \in Table /\ u.max = t.max /\ u.made = t.made /\ u.count = t.count /\ u.free = t.free
       /\ u.array = array /\ u.next = link /\ u.key = t.key /\ u.val = t.val
  <2>1. CASE n = 0
    <3>1. u = [t EXCEPT !.array[i] = e] /\ array = [t.array EXCEPT ![i] = e] /\ link = t.next
      BY <1>8, <2>1
    <3> HIDE DEF array, link
    <3>2. QED
      BY <1>2, <1>10, <1>11, <3>1 DEF Table
  <2>2. CASE n # 0
    <3>1. u = [t EXCEPT !.next[s[n]] = e] /\ array = t.array /\ link = [t.next EXCEPT ![s[n]] = e]
      BY <1>8, <2>2
    <3> HIDE DEF array, link
    <3>2. QED
      BY <1>2, <1>10, <1>11, <3>1 DEF Table
  <2>3. QED
    BY <2>1, <2>2
<1>13. a = [u EXCEPT !.free = free2, !.made = made, !.next = links, !.key = keys, !.val = vals, !.count = count]
  <2>1. u.next = link /\ u.count = t.count /\ u.key = t.key /\ u.val = t.val /\ u.made = t.made
    BY <1>12
  <2>2. a = [u EXCEPT !.free = free2, !.made = IF t.free # Nil THEN u.made ELSE u.made + 1,
                      !.next = [u.next EXCEPT ![e] = Nil], !.key = [u.key EXCEPT ![e] = k],
                      !.val = [u.val EXCEPT ![e] = v], !.count = u.count + 1]
    BY DEF Added, NewEntry, u
  <2> HIDE DEF link, free2
  <2>3. QED
    BY <2>1, <2>2
<1> HIDE DEF array, link, links, keys, vals, free2, made, count
<1>14. /\ a \in Table /\ a.max = t.max /\ a.array = array /\ a.next = links /\ a.key = keys /\ a.val = vals
       /\ a.free = free2 /\ a.made = made /\ a.count = count
  BY <1>10, <1>12, <1>13 DEF Table
<1>15. TableTypes(a)
  BY <1>10, <1>14 DEF TableTypes
<1>16. links = [x \in Entries |-> IF x = e THEN Nil ELSE IF n # 0 /\ x = s[n] THEN e ELSE t.next[x]]
  BY <1>2, <1>9 DEF links, link
<1>17. QED
  BY <1>14, <1>15, <1>16 DEF array, keys, vals, free2, made, count

\* a is the table t with the entry e for the key k besides those of S.
Gains(t, S, k, v, e, a) ==
  /\ \E D, G : Holds(a, D, G, S \cup {e})
  /\ e \in Entries \ S
  /\ a.max = t.max /\ a.count = t.count + 1
  /\ a.key[e] = k /\ a.val[e] = v
  /\ \A x \in S : a.key[x] = t.key[x] /\ a.val[x] = t.val[x]

\* A new key gets an entry, and the others keep theirs.
LEMMA AddedIs ==
  ASSUME NEW t, NEW C, NEW F, NEW S, Holds(t, C, F, S), NEW k \in Keys, FindEntry(t, k) = Nil, NEW v \in Vals,
         NEW a, a = Added(t, k, v)
  PROVE  \E e : Gains(t, S, k, v, e, a)
<1> DEFINE i == Bucket(t, k)
           s == C[i]
           n == Len(s)
           e == NewEntry(t)
           T == S \cup {e}
           G == IF t.free # Nil THEN Tail(F) ELSE F
           D == [j \in 0 .. t.max |-> IF j = i THEN Append(s, e) ELSE C[j]]
<1>1. TableTypes(t) /\ Rows(t, C, S) /\ Covers(t, F, S) /\ Counts(t, S)
  BY DEF Holds
<1>2. /\ t.max \in Nat /\ t.array \in [0 .. t.max -> Links] /\ t.next \in [Entries -> Links]
      /\ t.key \in [Entries -> Keys \cup {Nil}] /\ t.val \in [Entries -> Vals \cup {Nil}]
      /\ t.free \in Links /\ t.count \in Nat /\ t.made \in Nat
  BY <1>1, TableSays
<1>3. i \in 0 .. t.max
  BY <1>2, BucketIs
<1>4. \A x \in S : t.key[x] # k
  BY FindIs
<1>5. /\ e \in Entries \ S
      /\ IsFiniteSet(S) /\ Cardinality(S) \in Nat /\ Cardinality(S) < Cardinality(Keys)
      /\ t.free # Nil => /\ F # << >> /\ Head(F) = t.free
                         /\ IsPath(Tail(F), t.next[t.free], t.next)
                         /\ IsInjective(Tail(F)) /\ ToSet(Tail(F)) = ToSet(F) \ {t.free}
                         /\ t.free \in ToSet(F)
      /\ t.free = Nil => F = << >> /\ ToSet(F) = {}
  BY <1>4, NewEntryIs
<1>6. e = IF t.free # Nil THEN t.free ELSE t.made + 1
  BY DEF NewEntry
<1>7. IsPath(s, t.array[i], t.next) /\ IsInjective(s)
  BY <1>1, <1>3 DEF Rows
<1>8. s \in Seq(Entries) /\ n \in Nat /\ DOMAIN s = 1 .. n
  BY <1>7, LenProperties DEF IsPath
<1>9. \A j \in 0 .. t.max : \A x \in Entries : x \in ToSet(C[j]) <=> x \in S /\ Bucket(t, t.key[x]) = j
  BY <1>1 DEF Rows
<1>10. S \subseteq Entries /\ \A x \in S : t.key[x] \in Keys /\ t.val[x] \in Vals
  BY <1>1 DEF Rows
<1>11. /\ IsPath(F, t.free, t.next) /\ IsInjective(F) /\ ToSet(F) \cap S = {}
       /\ t.made \in 0 .. Cardinality(Keys)
       /\ \A x \in Entries : x <= t.made <=> x \in S \cup ToSet(F)
       /\ \A x \in Entries : ~(x <= t.made) => t.next[x] = Nil
  BY <1>1 DEF Covers
<1> HIDE DEF i, s, n, e
<1>12. /\ a.max = t.max /\ a.count = t.count + 1
       /\ a.made = (IF t.free # Nil THEN t.made ELSE t.made + 1)
       /\ a.free = (IF t.free # Nil THEN t.next[e] ELSE Nil)
       /\ a.array = IF n = 0 THEN [t.array EXCEPT ![i] = e] ELSE t.array
       /\ a.next = [x \in Entries |-> IF x = e THEN Nil ELSE IF n # 0 /\ x = s[n] THEN e ELSE t.next[x]]
       /\ a.key = [t.key EXCEPT ![e] = k] /\ a.val = [t.val EXCEPT ![e] = v]
       /\ TableTypes(a)
  <2>1. e \in Entries /\ e = NewEntry(t) /\ i = Bucket(t, k) /\ s = C[i] /\ n = Len(s)
    BY <1>5 DEF i, s, n, e
  <2>2. QED
    BY <2>1, AddedFields
<1>13. n # 0 => n \in 1 .. n /\ s[n] \in ToSet(s) /\ s[n] \in Entries /\ s[n] \in S
  <2>1. n # 0 => n \in 1 .. n
    BY <1>8
  <2>2. n = Len(s)
    BY DEF n
  <2>3. n # 0 => s[n] \in ToSet(s) /\ s[n] \in Entries
    BY <1>8, <2>1, <2>2, ElementOfSeq DEF ToSet
  <2>4. s = C[i]
    BY DEF s
  <2>5. QED
    BY <1>3, <1>9, <2>1, <2>3, <2>4
<1>14. \A x \in S : a.key[x] = t.key[x] /\ a.val[x] = t.val[x]
  BY <1>2, <1>5, <1>10, <1>12
<1>15. a.key[e] = k /\ a.val[e] = v
  BY <1>2, <1>5, <1>12
<1>16. Counts(a, T)
  <2>1. Cardinality(T) = Cardinality(S) + 1
    BY <1>5, FS_AddElement
  <2>2. a.count = Cardinality(T)
    BY <1>1, <1>12, <2>1 DEF Counts
  <2>3. \A x, y \in T : a.key[x] = a.key[y] => x = y
    BY <1>1, <1>4, <1>14, <1>15 DEF Counts
  <2>4. QED
    BY <2>2, <2>3 DEF Counts
\* the free list
<1>17. ToSet(G) = ToSet(F) \ {e} /\ IsInjective(G) /\ IsPath(G, a.free, t.next) /\ \A x \in ToSet(G) : x \in Entries
  <2>1. CASE t.free # Nil
    <3>1. IsPath(G, a.free, t.next) /\ ToSet(G) = ToSet(F) \ {e} /\ IsInjective(G)
      BY <1>5, <1>6, <1>12, <2>1
    <3> HIDE DEF G
    <3>2. G \in Seq(Entries)
      BY <3>1 DEF IsPath
    <3>3. \A x \in ToSet(G) : x \in Entries
      BY <3>2, ElementOfSeq, LenProperties DEF ToSet
    <3>4. QED
      BY <3>1, <3>3
  <2>2. CASE t.free = Nil
    BY <1>5, <1>11, <1>12, <2>2
  <2>3. QED
    BY <2>1, <2>2
<1> HIDE DEF G
<1>18. Covers(a, G, T)
  <2>1. \A x \in Entries : x \notin T => a.next[x] = t.next[x]
    BY <1>12, <1>13
  <2>2. \A x \in ToSet(G) : x \notin T
    BY <1>11, <1>17
  <2>3. \A x \in ToSet(G) : a.next[x] = t.next[x]
    BY <1>17, <2>1, <2>2
  <2>4. IsPath(G, a.free, a.next)
    BY <1>17, <2>3, PathKept
  <2>5. ToSet(G) \cap T = {}
    BY <2>2
  <2>6. a.made \in 0 .. Cardinality(Keys)
    BY <1>2, <1>5, <1>6, <1>11, <1>12, EntriesAre
  <2>7. \A x \in Entries : x <= a.made <=> x \in T \cup ToSet(G)
    <3>1. CASE t.free # Nil
      <4>1. e \in ToSet(F) /\ a.made = t.made
        BY <1>5, <1>6, <1>12, <3>1
      <4>2. QED
        BY <1>11, <1>17, <4>1
    <3>2. CASE t.free = Nil
      <4>1. ToSet(G) = {} /\ ToSet(F) = {} /\ a.made = t.made + 1 /\ e = t.made + 1
        BY <1>5, <1>6, <1>12, <1>17, <3>2
      <4>2. \A x \in Entries : x <= t.made + 1 <=> x <= t.made \/ x = t.made + 1
        BY <1>2, EntriesAre
      <4>3. QED
        BY <1>11, <4>1, <4>2
    <3>3. QED
      BY <3>1, <3>2
  <2>8. \A x \in Entries : ~(x <= a.made) => a.next[x] = Nil
    <3>1. \A x \in Entries : ~(x <= a.made) => ~(x <= t.made)
      BY <1>2, <1>12, EntriesAre
    <3>2. QED
      BY <1>11, <2>1, <2>7, <3>1
  <2>9. QED
    BY <1>17, <2>4, <2>5, <2>6, <2>7, <2>8 DEF Covers
\* the chains
<1>19. e \notin ToSet(s)
  <2>1. s = C[i]
    BY DEF s
  <2>2. QED
    BY <1>3, <1>5, <1>9, <2>1
<1>20. /\ Append(s, e) \in Seq(Entries) /\ IsInjective(Append(s, e))
       /\ ToSet(Append(s, e)) = ToSet(s) \cup {e}
  BY <1>5, <1>7, <1>8, <1>19, InjectiveAppend
<1>21. IsPath(Append(s, e), a.array[i], a.next)
  <2>1. n = Len(s)
    BY DEF n
  <2>2. \A y \in ToSet(s) : a.next[y] = IF y = s[Len(s)] THEN e ELSE t.next[y]
    <3>1. \A y \in ToSet(s) : y \in Entries /\ y # e /\ n # 0
      BY <1>8, <1>19, <2>1, ElementOfSeq DEF ToSet
    <3>2. QED
      BY <1>12, <2>1, <3>1
  <2>3. a.next[e] = Nil
    BY <1>5, <1>12
  <2>4. IsPath(Append(s, e), IF Len(s) = 0 THEN e ELSE t.array[i], a.next)
    <3> DEFINE new == a.next
    <3>1. new[e] = Nil /\ \A y \in ToSet(s) : new[y] = IF y = s[Len(s)] THEN e ELSE t.next[y]
      BY <2>2, <2>3
    <3> HIDE DEF new
    <3>2. IsPath(Append(s, e), IF Len(s) = 0 THEN e ELSE t.array[i], new)
      BY <1>5, <1>7, <1>19, <3>1, PathAppended
    <3>3. QED
      BY <3>2 DEF new
  <2>5. a.array[i] = IF Len(s) = 0 THEN e ELSE t.array[i]
    BY <1>2, <1>3, <1>12, <2>1
  <2>6. QED
    BY <2>4, <2>5
<1>22. ASSUME NEW j \in 0 .. t.max, j # i PROVE IsPath(C[j], a.array[j], a.next) /\ IsInjective(C[j])
  <2>1. IsPath(C[j], t.array[j], t.next) /\ IsInjective(C[j]) /\ C[j] \in Seq(Entries)
    BY <1>1 DEF Rows
  <2>2. \A x \in ToSet(C[j]) : x \in Entries
    BY <2>1, ElementOfSeq, LenProperties DEF ToSet
  <2>3. s = C[i]
    BY DEF s
  <2>4. e \notin ToSet(C[j]) /\ (n # 0 => s[n] \notin ToSet(C[j]))
    BY <1>3, <1>5, <1>9, <1>13, <1>22, <2>3
  <2>5. \A x \in ToSet(C[j]) : a.next[x] = t.next[x]
    BY <1>12, <2>2, <2>4
  <2>6. IsPath(C[j], t.array[j], a.next)
    BY <2>1, <2>5, PathKept
  <2>7. a.array[j] = t.array[j]
    BY <1>2, <1>3, <1>12, <1>22
  <2>8. QED
    BY <2>1, <2>6, <2>7
<1>23. Rows(a, D, T)
  <2>1. a.max = t.max
    BY <1>12
  <2>2. D \in [0 .. a.max -> Seq(Entries)] /\ T \in SUBSET Entries
    <3>1. C \in [0 .. t.max -> Seq(Entries)]
      BY <1>1 DEF Rows
    <3>2. QED
      BY <1>5, <1>10, <1>20, <2>1, <3>1
  <2>3. \A j \in 0 .. t.max : IsPath(D[j], a.array[j], a.next) /\ IsInjective(D[j])
    BY <1>20, <1>21, <1>22
  <2>4. \A k1 : Bucket(a, k1) = Bucket(t, k1)
    BY <2>1 DEF Bucket
  <2>5. ASSUME NEW j \in 0 .. t.max, NEW x \in Entries
        PROVE  x \in ToSet(D[j]) <=> x \in T /\ Bucket(a, a.key[x]) = j
    <3>1. ToSet(D[j]) = IF j = i THEN ToSet(C[j]) \cup {e} ELSE ToSet(C[j])
      BY <1>20 DEF s
    <3>2. x \in S => x # e /\ Bucket(a, a.key[x]) = Bucket(t, t.key[x])
      BY <1>5, <1>14, <2>4
    <3>3. Bucket(a, a.key[e]) = i
      BY <1>15, <2>4 DEF i
    <3>4. x \in ToSet(C[j]) <=> x \in S /\ Bucket(t, t.key[x]) = j
      BY <1>9
    <3> HIDE DEF D
    <3>5. CASE x = e
      BY <1>5, <3>1, <3>3, <3>4, <3>5
    <3>6. CASE x # e
      BY <3>1, <3>2, <3>4, <3>6
    <3>7. QED
      BY <3>5, <3>6
  <2>6. \A x \in T : a.key[x] \in Keys /\ a.val[x] \in Vals
    BY <1>10, <1>14, <1>15
  <2> HIDE DEF D, T
  <2>7. QED
    BY <2>1, <2>2, <2>3, <2>5, <2>6 DEF Rows
<1> HIDE DEF D
<1>24. Holds(a, D, G, S \cup {e})
  BY <1>12, <1>16, <1>18, <1>23 DEF Holds
<1>25. Gains(t, S, k, v, e, a)
  BY <1>5, <1>12, <1>14, <1>15, <1>24 DEF Gains
<1>26. QED
  BY <1>25

-----------------------------------------------------------------------------
(* All entries of a table                                                  *)

\* FlattenSeq appends its sequences one by one.
LEMMA FlattenIsRounds ==
  ASSUME NEW N \in Nat \ {0}, NEW seqs, Len(seqs) = N
  PROVE  \E f : /\ f[1] = seqs[1] /\ \A n \in 2 .. N : f[n] = f[n - 1] \o seqs[n]
               /\ FlattenSeq(seqs) = f[N]
<1> DEFINE Round(g, n) == IF n = 1 THEN seqs[n] ELSE g[n - 1] \o seqs[n]
           Rounds(m, g) == g = [n \in 1 .. m |-> Round(g, n)]
           Bad == {m \in 1 .. N : \A g : ~Rounds(m, g)}
<1>1. Bad = {}
  <2>1. SUFFICES ASSUME Bad # {} PROVE FALSE
    OBVIOUS
  <2>2. Bad \subseteq Nat
    <3> HIDE DEF Rounds
    <3>1. QED
      OBVIOUS
  <2>3. PICK m \in Bad : \A k1 \in Bad : m <= k1
    <3> HIDE DEF Bad
    <3>1. QED
      BY <2>1, <2>2, LeastNumber
  <2>4. m \in 1 .. N /\ \A g : ~Rounds(m, g)
    OBVIOUS
  <2>5. CASE m = 1
    <3> DEFINE g == [n \in 1 .. 1 |-> seqs[n]]
    <3>1. \A n \in 1 .. 1 : Round(g, n) = seqs[n]
      OBVIOUS
    <3>2. Rounds(1, g)
      <4> HIDE DEF Round
      <4>1. QED
        BY <3>1
    <3>3. QED
      BY <2>4, <2>5, <3>2
  <2>6. CASE m # 1
    <3>1. m - 1 \in 1 .. N /\ ~(m <= m - 1)
      BY <2>4, <2>6
    <3>2. m - 1 \notin Bad
      BY <2>3, <3>1
    <3>3. PICK g : Rounds(m - 1, g)
      BY <3>1, <3>2
    <3> DEFINE last1 == g[m - 1] \o seqs[m]
               h == [n \in 1 .. m |-> IF n = m THEN last1 ELSE g[n]]
    <3>4. \A n \in 1 .. m : n # 1 => n - 1 \in 1 .. (m - 1) /\ n - 1 \in 1 .. m /\ n - 1 # m
      BY <2>4
    <3>5. ASSUME NEW n \in 1 .. m PROVE h[n] = Round(h, n)
      <4>1. n # 1 => h[n - 1] = g[n - 1]
        BY <3>4, SMTT(30)
      <4>2. CASE n = m
        <5>1. h[n] = last1 /\ Round(h, n) = h[m - 1] \o seqs[m] /\ h[m - 1] = g[m - 1]
          BY <2>6, <4>1, <4>2
        <5>2. QED
          BY <5>1
      <4>3. CASE n # m
        <5>1. n \in 1 .. (m - 1)
          BY <2>4, <4>3
        <5>2. g[n] = Round(g, n)
          BY <3>3, <5>1
        <5>3. h[n] = g[n]
          BY <4>3
        <5>4. Round(h, n) = Round(g, n)
          BY <4>1
        <5>5. QED
          BY <5>2, <5>3, <5>4
      <4>4. QED
        BY <4>2, <4>3
    <3>6. Rounds(m, h)
      <4>1. h = [n \in 1 .. m |-> h[n]]
        OBVIOUS
      <4> HIDE DEF h, Round
      <4>2. QED
        BY <3>5, <4>1
    <3>7. QED
      BY <2>4, <3>6
  <2>7. QED
    BY <2>5, <2>6
<1>2. \E g : Rounds(N, g)
  <2>1. N \in 1 .. N
    OBVIOUS
  <2> HIDE DEF Rounds
  <2>2. QED
    BY <1>1, <2>1
<1> DEFINE f == CHOOSE g : g = [i \in 1 .. Len(seqs) |-> IF i = 1 THEN seqs[i] ELSE g[i - 1] \o seqs[i]]
<1>3. FlattenSeq(seqs) = f[N]
  BY DEF FlattenSeq
<1>4. f = [i \in 1 .. N |-> IF i = 1 THEN seqs[i] ELSE f[i - 1] \o seqs[i]]
  BY <1>2
<1> HIDE DEF f
<1>5. f[1] = seqs[1] /\ \A n \in 2 .. N : f[n] = f[n - 1] \o seqs[n]
  <2>1. 1 \in 1 .. N /\ \A n \in 2 .. N : n \in 1 .. N /\ n # 1
    OBVIOUS
  <2>2. QED
    BY <1>4, <2>1
<1>6. QED
  BY <1>3, <1>5


\* What FlattenSeq makes of sequences that share nothing.
LEMMA FlattenIs ==
  ASSUME NEW N \in Nat \ {0}, NEW seqs, Len(seqs) = N,
         \A i \in 1 .. N : seqs[i] \in Seq(Entries) /\ IsInjective(seqs[i]),
         \A i, j \in 1 .. N : i # j => ToSet(seqs[i]) \cap ToSet(seqs[j]) = {}
  PROVE  /\ FlattenSeq(seqs) \in Seq(Entries) /\ IsInjective(FlattenSeq(seqs))
         /\ \A x : x \in ToSet(FlattenSeq(seqs)) <=> \E i \in 1 .. N : x \in ToSet(seqs[i])
<1>1. PICK f : /\ f[1] = seqs[1] /\ \A n \in 2 .. N : f[n] = f[n - 1] \o seqs[n]
               /\ FlattenSeq(seqs) = f[N]
  BY FlattenIsRounds
<1> DEFINE Good(n) == /\ f[n] \in Seq(Entries) /\ IsInjective(f[n])
                      /\ \A x : x \in ToSet(f[n]) <=> \E i \in 1 .. n : x \in ToSet(seqs[i])
           Bad == {n \in 1 .. N : ~Good(n)}
<1>2. Good(1)
  <2>1. 1 \in 1 .. N /\ \A i \in 1 .. 1 : i = 1
    OBVIOUS
  <2>2. QED
    BY <1>1, <2>1
<1>3. ASSUME NEW n \in 2 .. N, Good(n - 1) PROVE Good(n)
  <2> DEFINE a == f[n - 1]
             b == seqs[n]
  <2>1. a \in Seq(Entries) /\ IsInjective(a) /\ b \in Seq(Entries) /\ IsInjective(b)
        /\ \A x : x \in ToSet(a) <=> \E i \in 1 .. (n - 1) : x \in ToSet(seqs[i])
    BY <1>3
  <2>2. f[n] = a \o b
    BY <1>1
  <2>3. ToSet(a) \cap ToSet(b) = {}
    <3>1. \A i \in 1 .. (n - 1) : i \in 1 .. N /\ i # n
      OBVIOUS
    <3>2. n \in 1 .. N
      OBVIOUS
    <3>3. \A i \in 1 .. (n - 1) : ToSet(seqs[i]) \cap ToSet(b) = {}
      BY <3>1, <3>2
    <3> HIDE DEF a, b
    <3>4. QED
      BY <2>1, <3>3
  <2>4. \A x : x \in ToSet(b) <=> x \in ToSet(seqs[n])
    OBVIOUS
  <2> HIDE DEF a, b
  <2>5. /\ a \o b \in Seq(Entries) /\ ToSet(a \o b) = ToSet(a) \cup ToSet(b)
        /\ IsInjective(a \o b)
    BY <2>1, <2>3, InjectiveConcat
  <2>6. \A x : x \in ToSet(f[n]) <=> \E i \in 1 .. n : x \in ToSet(seqs[i])
    <3>1. \A i \in Int : i \in 1 .. n <=> i \in 1 .. (n - 1) \/ i = n
      OBVIOUS
    <3>2. ASSUME NEW x PROVE x \in ToSet(f[n]) <=> \E i \in 1 .. n : x \in ToSet(seqs[i])
      <4>1. x \in ToSet(f[n]) <=> x \in ToSet(a) \/ x \in ToSet(seqs[n])
        BY <2>2, <2>4, <2>5
      <4>2. x \in ToSet(a) <=> \E i \in 1 .. (n - 1) : x \in ToSet(seqs[i])
        BY <2>1
      <4>3. n \in 1 .. n
        OBVIOUS
      <4>4. \A i \in 1 .. (n - 1) : i \in 1 .. n
        OBVIOUS
      <4>5. \A i \in 1 .. n : i \in 1 .. (n - 1) \/ i = n
        OBVIOUS
      <4>6. QED
        BY <4>1, <4>2, <4>3, <4>4, <4>5
    <3>3. QED
      BY <3>2
  <2>7. QED
    BY <2>2, <2>5, <2>6
<1>4. Bad = {}
  <2>1. SUFFICES ASSUME Bad # {} PROVE FALSE
    OBVIOUS
  <2>2. Bad \subseteq Nat
    <3> HIDE DEF Good
    <3>1. QED
      OBVIOUS
  <2>3. PICK m \in Bad : \A k \in Bad : m <= k
    <3> HIDE DEF Bad
    <3>1. QED
      BY <2>1, <2>2, LeastNumber
  <2>4. m \in 1 .. N /\ ~Good(m)
    <3> HIDE DEF Good
    <3>1. QED
      OBVIOUS
  <2> HIDE DEF Good
  <2>5. m # 1 /\ m \in 2 .. N /\ m - 1 \in 1 .. N /\ ~(m <= m - 1)
    BY <1>2, <2>4
  <2>6. m - 1 \notin Bad
    BY <2>3, <2>5
  <2>7. QED
    BY <1>3, <2>4, <2>5, <2>6
<1>5. Good(N)
  <2> HIDE DEF Good
  <2>1. N \in 1 .. N
    OBVIOUS
  <2>2. QED
    BY <1>4, <2>1
<1>6. QED
  BY <1>1, <1>5

\* AllEntries is what the chains hold, each entry once.
LEMMA AllEntriesAre ==
  ASSUME NEW t, NEW C, NEW F, NEW S, Holds(t, C, F, S)
  PROVE  /\ AllEntries(t) \in Seq(Entries) /\ IsInjective(AllEntries(t))
         /\ ToSet(AllEntries(t)) = S
         /\ Len(AllEntries(t)) = t.count /\ t.count \in Nat
<1>1. TableTypes(t) /\ Rows(t, C, S) /\ Counts(t, S)
  BY DEF Holds
<1>2. t.max \in Nat /\ t.array \in [0 .. t.max -> Links]
  BY <1>1, TableSays
<1> DEFINE N == t.max + 1
           seqs == [i \in 1 .. N |-> C[i - 1]]
           q == AllEntries(t)
<1>3. N \in Nat \ {0} /\ \A i \in 1 .. N : i - 1 \in 0 .. t.max
  BY <1>2
<1>4. q = FlattenSeq(seqs)
  <2>1. \A i \in 1 .. t.max + 1 : ChainFrom(t, t.array[i - 1]) = C[i - 1]
    BY <1>3, HeldLinks
  <2>2. [i \in 1 .. t.max + 1 |-> ChainFrom(t, t.array[i - 1])] = seqs
    BY <2>1
  <2>3. QED
    BY <2>2 DEF AllEntries
<1>5. \A i \in 0 .. t.max : C[i] \in Seq(Entries) /\ IsInjective(C[i])
  BY <1>1 DEF Rows
<1>6. S \subseteq Entries /\ \A x \in S : t.key[x] \in Keys
  BY <1>1 DEF Rows
<1>7. \A i \in 0 .. t.max : \A x \in Entries : x \in ToSet(C[i]) <=> x \in S /\ Bucket(t, t.key[x]) = i
  BY <1>1 DEF Rows
<1>8. \A i \in 0 .. t.max : \A x \in ToSet(C[i]) : x \in Entries
  BY <1>5, ElementOfSeq, LenProperties DEF ToSet
<1>9. \A i, j \in 0 .. t.max : i # j => ToSet(C[i]) \cap ToSet(C[j]) = {}
  BY <1>7, <1>8
<1>10. \A i \in 1 .. N : seqs[i] = C[i - 1]
  OBVIOUS
<1>11. Len(seqs) = N
  <2>1. seqs \in Seq(Seq(Entries))
    <3>1. \A i \in 1 .. N : C[i - 1] \in Seq(Entries)
      BY <1>3, <1>5
    <3> HIDE DEF N
    <3>2. QED
      BY <1>3, <3>1, IsASeq
  <2>2. DOMAIN seqs = 1 .. N
    OBVIOUS
  <2> HIDE DEF seqs, N
  <2>3. QED
    BY <1>3, <2>1, <2>2, LenProperties
<1> HIDE DEF seqs, q
<1>12. \A i \in 1 .. N : seqs[i] \in Seq(Entries) /\ IsInjective(seqs[i])
  BY <1>3, <1>5, <1>10
<1>13. \A i, j \in 1 .. N : i # j => ToSet(seqs[i]) \cap ToSet(seqs[j]) = {}
  <2>1. SUFFICES ASSUME NEW i \in 1 .. N, NEW j \in 1 .. N, i # j
                 PROVE  ToSet(seqs[i]) \cap ToSet(seqs[j]) = {}
    OBVIOUS
  <2>2. i - 1 \in 0 .. t.max /\ j - 1 \in 0 .. t.max /\ i - 1 # j - 1
    BY <1>2, <2>1
  <2>3. QED
    BY <1>9, <1>10, <2>2
<1> HIDE DEF N
<1>14. /\ q \in Seq(Entries) /\ IsInjective(q)
       /\ \A x : x \in ToSet(q) <=> \E i \in 1 .. N : x \in ToSet(seqs[i])
  BY <1>3, <1>4, <1>11, <1>12, <1>13, FlattenIs
<1>15. \A x : x \in ToSet(q) <=> x \in S
  <2>1. ASSUME NEW x, x \in ToSet(q) PROVE x \in S
    <3>1. PICK i \in 1 .. N : x \in ToSet(seqs[i])
      BY <1>14, <2>1
    <3>2. QED
      BY <1>3, <1>7, <1>8, <1>10, <3>1
  <2>2. ASSUME NEW x \in S PROVE x \in ToSet(q)
    <3> DEFINE i == Bucket(t, t.key[x])
    <3>1. i \in 0 .. t.max
      BY <1>2, <1>6, BucketIs
    <3>2. x \in ToSet(C[i])
      BY <1>6, <1>7, <3>1
    <3> HIDE DEF i
    <3>3. i + 1 \in 1 .. N /\ (i + 1) - 1 = i
      BY <1>2, <3>1 DEF N
    <3>4. x \in ToSet(seqs[i + 1])
      BY <1>10, <3>2, <3>3
    <3>5. QED
      BY <1>14, <3>3, <3>4
  <2>3. QED
    BY <2>1, <2>2
<1>16. ToSet(q) = S
  BY <1>15
<1>17. Len(q) = Cardinality(S) /\ Len(q) \in Nat
  BY <1>14, <1>16, ElementsAreFinite, LenProperties
<1>18. QED
  BY <1>1, <1>14, <1>16, <1>17 DEF q, Counts

-----------------------------------------------------------------------------
(* Rounds over all entries                                                 *)

\* f is defined by rounds: z, and what step makes of the round before.
IsRounds(f, N, z, step) == f = [n \in 0 .. N |-> IF n = 0 THEN z ELSE step[<<f[n - 1], n>>]]

\* A function that is defined by rounds exists.
LEMMA RoundsExist ==
  ASSUME NEW N \in Nat, NEW z, NEW step
  PROVE  \E f : IsRounds(f, N, z, step)
<1> DEFINE Round(g, n) == IF n = 0 THEN z ELSE step[<<g[n - 1], n>>]
           Rounds(m, g) == g = [n \in 0 .. m |-> Round(g, n)]
           Bad == {m \in 0 .. N : \A g : ~Rounds(m, g)}
<1>1. Bad = {}
  <2>1. SUFFICES ASSUME Bad # {} PROVE FALSE
    OBVIOUS
  <2>2. Bad \subseteq Nat
    <3> HIDE DEF Rounds
    <3>1. QED
      OBVIOUS
  <2>3. PICK m \in Bad : \A k1 \in Bad : m <= k1
    <3> HIDE DEF Bad
    <3>1. QED
      BY <2>1, <2>2, LeastNumber
  <2>4. m \in 0 .. N /\ \A g : ~Rounds(m, g)
    OBVIOUS
  <2>5. CASE m = 0
    <3> DEFINE g == [n \in 0 .. 0 |-> z]
    <3>1. \A n \in 0 .. 0 : Round(g, n) = z
      OBVIOUS
    <3>2. Rounds(0, g)
      <4> HIDE DEF Round
      <4>1. QED
        BY <3>1
    <3>3. QED
      BY <2>4, <2>5, <3>2
  <2>6. CASE m # 0
    <3>1. m - 1 \in 0 .. N /\ ~(m <= m - 1)
      BY <2>4, <2>6
    <3>2. m - 1 \notin Bad
      BY <2>3, <3>1
    <3>3. PICK g : Rounds(m - 1, g)
      BY <3>1, <3>2
    <3> DEFINE latest == step[<<g[m - 1], m>>]
               h == [n \in 0 .. m |-> IF n = m THEN latest ELSE g[n]]
    <3>4. \A n \in 0 .. m : n # 0 => n - 1 \in 0 .. (m - 1) /\ n - 1 \in 0 .. m /\ n - 1 # m
      BY <2>4
    <3>5. ASSUME NEW n \in 0 .. m PROVE h[n] = Round(h, n)
      <4>1. n # 0 => h[n - 1] = g[n - 1]
        BY <3>4
      <4>2. CASE n = m
        <5>1. h[n] = latest /\ Round(h, n) = step[<<h[m - 1], m>>] /\ h[m - 1] = g[m - 1]
          BY <2>6, <4>1, <4>2
        <5>2. QED
          BY <5>1
      <4>3. CASE n # m
        <5>1. n \in 0 .. (m - 1)
          BY <2>4, <4>3
        <5>2. g[n] = Round(g, n)
          BY <3>3, <5>1
        <5>3. h[n] = g[n]
          BY <4>3
        <5>4. Round(h, n) = Round(g, n)
          <6> HIDE DEF h
          <6>1. QED
            BY <4>1, Zenon
        <5>5. QED
          BY <5>2, <5>3, <5>4
      <4>4. QED
        BY <4>2, <4>3
    <3>6. Rounds(m, h)
      <4>1. h = [n \in 0 .. m |-> h[n]]
        OBVIOUS
      <4> HIDE DEF h, Round
      <4>2. QED
        BY <3>5, <4>1
    <3>7. QED
      BY <2>4, <3>6
  <2>7. QED
    BY <2>5, <2>6
<1>2. \E g : Rounds(N, g)
  <2>1. N \in 0 .. N
    OBVIOUS
  <2> HIDE DEF Rounds
  <2>2. QED
    BY <1>1, <2>1
<1>3. QED
  BY <1>2 DEF IsRounds

\* The first n entries of an order.
Upto(q, n) == {q[j] : j \in 1 .. n}

\* What a round makes of the sets of entries before it and behind it.
LEMMA UptoIs ==
  ASSUME NEW q \in Seq(Entries), IsInjective(q), NEW n \in 1 .. Len(q)
  PROVE  /\ q[n] \in Entries /\ q[n] \in ToSet(q) /\ q[n] \notin Upto(q, n - 1)
         /\ Upto(q, n) = Upto(q, n - 1) \cup {q[n]}
         /\ Upto(q, 0) = {} /\ Upto(q, Len(q)) = ToSet(q)
         /\ Upto(q, n) \subseteq ToSet(q)
<1>1. Len(q) \in Nat /\ DOMAIN q = 1 .. Len(q)
  BY LenProperties
<1>2. q[n] \in Entries /\ q[n] \in ToSet(q)
  BY <1>1, ElementOfSeq DEF ToSet
<1>3. q[n] \notin Upto(q, n - 1)
  <2>1. \A j \in 1 .. (n - 1) : j \in DOMAIN q /\ j # n /\ n \in DOMAIN q
    BY <1>1
  <2>2. QED
    BY <2>1 DEF Upto, IsInjective
<1>4. Upto(q, n) = Upto(q, n - 1) \cup {q[n]}
  <2>1. \A j \in Int : j \in 1 .. n <=> j \in 1 .. (n - 1) \/ j = n
    OBVIOUS
  <2>2. \A x : x \in Upto(q, n) <=> x \in Upto(q, n - 1) \/ x = q[n]
    <3>1. ASSUME NEW x, x \in Upto(q, n) PROVE x \in Upto(q, n - 1) \/ x = q[n]
      <4>1. PICK j \in 1 .. n : x = q[j]
        BY <3>1 DEF Upto
      <4>2. j \in 1 .. (n - 1) \/ j = n
        OBVIOUS
      <4>3. QED
        BY <4>1, <4>2 DEF Upto
    <3>2. ASSUME NEW x, x \in Upto(q, n - 1) PROVE x \in Upto(q, n)
      <4>1. PICK j \in 1 .. (n - 1) : x = q[j]
        BY <3>2 DEF Upto
      <4>2. j \in 1 .. n
        OBVIOUS
      <4>3. QED
        BY <4>1, <4>2 DEF Upto
    <3>3. n \in 1 .. n
      OBVIOUS
    <3>4. q[n] \in Upto(q, n)
      BY <3>3 DEF Upto
    <3>5. QED
      BY <3>1, <3>2, <3>4
  <2>3. QED
    BY <2>2
<1>5. Upto(q, 0) = {}
  BY DEF Upto
<1>6. Upto(q, Len(q)) = ToSet(q)
  BY <1>1 DEF Upto, ToSet
<1>7. Upto(q, n) \subseteq ToSet(q)
  <2>1. \A j \in 1 .. n : j \in DOMAIN q
    BY <1>1
  <2>2. QED
    BY <2>1 DEF Upto, ToSet
<1>8. QED
  BY <1>2, <1>3, <1>4, <1>5, <1>6, <1>7

-----------------------------------------------------------------------------
(* The array grows                                                         *)

\* An entry that is not in the table goes to the front of a chain.
Prepended(w, e, s) == [w EXCEPT !.next[e] = w.array[s], !.array[s] = e]

\* What that changes.
LEMMA PrependedFields ==
  ASSUME NEW w, TableTypes(w), NEW e \in Entries, NEW s \in 0 .. w.max, NEW p, p = Prepended(w, e, s),
         NEW link, link = [w.next EXCEPT ![e] = w.array[s]], NEW array, array = [w.array EXCEPT ![s] = e]
  PROVE  /\ TableTypes(p) /\ p.max = w.max /\ p.count = w.count /\ p.made = w.made /\ p.free = w.free
         /\ p.key = w.key /\ p.val = w.val /\ p.next = link /\ p.array = array
<1>1. /\ w.max \in Nat /\ w.array \in [0 .. w.max -> Links] /\ w.next \in [Entries -> Links]
      /\ w \in Table
  <2>1. w \in Table
    BY DEF TableTypes
  <2>2. QED
    BY <2>1, TableSays
<1>2. e \in Links
  BY DEF Links
<1>3. link \in [Entries -> Links] /\ array \in [0 .. w.max -> Links]
  BY <1>1, <1>2
<1>4. array \in Arrays
  BY <1>1, <1>3 DEF Arrays
<1>5. p = [w EXCEPT !.next = link, !.array = array]
  BY DEF Prepended
<1>6. /\ p \in Table /\ p.max = w.max /\ p.count = w.count /\ p.made = w.made /\ p.free = w.free
      /\ p.key = w.key /\ p.val = w.val /\ p.next = link /\ p.array = array
  BY <1>1, <1>3, <1>4, <1>5 DEF Table
<1>7. TableTypes(p)
  BY <1>3, <1>6 DEF TableTypes
<1>8. QED
  BY <1>6, <1>7

\* The chains then have it too.
LEMMA PrependedIs ==
  ASSUME NEW w, TableTypes(w), NEW D, NEW T, Rows(w, D, T), NEW e \in Entries \ T,
         w.key[e] \in Keys, w.val[e] \in Vals, NEW s, s = Bucket(w, w.key[e]),
         NEW p, p = Prepended(w, e, s)
  PROVE  \E E : Rows(p, E, T \cup {e})
<1> DEFINE U == T \cup {e}
           one == <<e>>
           E == [j \in 0 .. w.max |-> IF j = s THEN one \o D[j] ELSE D[j]]
<1>1. /\ w.max \in Nat /\ w.array \in [0 .. w.max -> Links] /\ w.next \in [Entries -> Links]
  BY TableSays
<1>2. s \in 0 .. w.max
  BY <1>1, BucketIs
<1>3. /\ p.max = w.max /\ p.key = w.key /\ p.val = w.val
      /\ p.next = [w.next EXCEPT ![e] = w.array[s]] /\ p.array = [w.array EXCEPT ![s] = e]
  <2> DEFINE link == [w.next EXCEPT ![e] = w.array[s]]
             array == [w.array EXCEPT ![s] = e]
  <2>1. link = [w.next EXCEPT ![e] = w.array[s]] /\ array = [w.array EXCEPT ![s] = e]
    OBVIOUS
  <2> HIDE DEF link, array
  <2>2. p.max = w.max /\ p.key = w.key /\ p.val = w.val /\ p.next = link /\ p.array = array
    BY <1>2, <2>1, PrependedFields
  <2>3. QED
    BY <2>1, <2>2
<1>4. /\ D \in [0 .. w.max -> Seq(Entries)] /\ T \in SUBSET Entries
      /\ \A j \in 0 .. w.max : IsPath(D[j], w.array[j], w.next) /\ IsInjective(D[j])
      /\ \A j \in 0 .. w.max : \A x \in Entries : x \in ToSet(D[j]) <=> x \in T /\ Bucket(w, w.key[x]) = j
      /\ \A x \in T : w.key[x] \in Keys /\ w.val[x] \in Vals
  BY DEF Rows
<1>5. one \in Seq(Entries) /\ ToSet(one) = {e} /\ IsInjective(one)
  BY DEF ToSet, IsInjective
<1>6. \A j \in 0 .. w.max : e \notin ToSet(D[j])
  BY <1>4
<1>7. ASSUME NEW j \in 0 .. w.max
      PROVE  /\ D[j] \in Seq(Entries) /\ \A x \in ToSet(D[j]) : x \in Entries
             /\ IsPath(D[j], w.array[j], p.next)
  <2>1. D[j] \in Seq(Entries)
    BY <1>4
  <2>2. \A x \in ToSet(D[j]) : x \in Entries
    BY <2>1, ElementOfSeq, LenProperties DEF ToSet
  <2>3. \A x \in ToSet(D[j]) : p.next[x] = w.next[x]
    BY <1>1, <1>3, <1>6, <2>2
  <2>4. IsPath(D[j], w.array[j], w.next)
    BY <1>4
  <2>5. IsPath(D[j], w.array[j], p.next)
    BY <2>3, <2>4, PathKept
  <2>6. QED
    BY <2>1, <2>2, <2>5
<1>8. p.next[e] = w.array[s] /\ p.array[s] = e
  BY <1>1, <1>2, <1>3
<1>9. IsPath(one \o D[s], e, p.next)
  <2>1. IsPath(D[s], p.next[e], p.next)
    BY <1>2, <1>7, <1>8
  <2>2. IsPath(<<e>> \o D[s], e, p.next)
    BY <2>1, PathOf
  <2>3. QED
    BY <2>2
<1> HIDE DEF one
<1>10. /\ one \o D[s] \in Seq(Entries) /\ ToSet(one \o D[s]) = {e} \cup ToSet(D[s])
       /\ IsInjective(one \o D[s])
  <2>1. D[s] \in Seq(Entries) /\ IsInjective(D[s]) /\ ToSet(one) \cap ToSet(D[s]) = {}
    BY <1>2, <1>4, <1>5, <1>6, <1>7
  <2>2. one \o D[s] \in Seq(Entries) /\ ToSet(one \o D[s]) = ToSet(one) \cup ToSet(D[s])
    BY <1>5, <2>1, InjectiveConcat
  <2>3. IsInjective(one \o D[s])
    BY <1>5, <2>1, InjectiveConcat
  <2>4. QED
    BY <1>5, <2>2, <2>3
<1>11. ASSUME NEW j \in 0 .. p.max
       PROVE  /\ E[j] \in Seq(Entries) /\ IsPath(E[j], p.array[j], p.next) /\ IsInjective(E[j])
              /\ \A x : x \in ToSet(E[j]) <=> x \in ToSet(D[j]) \/ (j = s /\ x = e)
  <2>1. CASE j = s
    <3>1. E[j] = one \o D[s]
      BY <1>3, <2>1
    <3> HIDE DEF E
    <3>2. QED
      BY <1>8, <1>9, <1>10, <2>1, <3>1
  <2>2. CASE j # s
    <3>1. E[j] = D[j] /\ p.array[j] = w.array[j]
      BY <1>1, <1>2, <1>3, <2>2
    <3> HIDE DEF E
    <3>2. QED
      BY <1>3, <1>4, <1>7, <2>2, <3>1
  <2>3. QED
    BY <2>1, <2>2
<1>12. E \in [0 .. p.max -> Seq(Entries)]
  <2>1. E = [j \in 0 .. p.max |-> E[j]]
    BY <1>3
  <2> HIDE DEF E
  <2>2. QED
    BY <1>11, <2>1
<1> HIDE DEF E
<1>13. ASSUME NEW j \in 0 .. p.max, NEW x \in Entries
       PROVE  x \in ToSet(E[j]) <=> x \in U /\ Bucket(p, p.key[x]) = j
  <2>1. Bucket(p, p.key[x]) = Bucket(w, w.key[x])
    BY <1>3 DEF Bucket
  <2>2. x \in ToSet(D[j]) <=> x \in T /\ Bucket(w, w.key[x]) = j
    BY <1>3, <1>4
  <2>3. QED
    BY <1>11, <2>1, <2>2, SMTT(30)
<1>14. \A x \in U : p.key[x] \in Keys /\ p.val[x] \in Vals
  BY <1>3, <1>4
<1>15. U \in SUBSET Entries
  BY <1>4
<1> HIDE DEF U
<1>16. Rows(p, E, U)
  BY <1>11, <1>12, <1>13, <1>14, <1>15 DEF Rows
<1>17. QED
  BY <1>16 DEF U

\* The table with an empty array of twice the size.
Widened(t) == [t EXCEPT !.max = t.max * 2 + 1, !.array = [i \in 0 .. t.max * 2 + 1 |-> Nil]]

\* Round n of expand_array.
MovedOne(t, x, n) == Prepended(x, AllEntries(t)[n], Bucket(Widened(t), t.key[AllEntries(t)[n]]))

\* What n rounds of expand_array lead to.
HalfMoved(t, x, n) ==
  /\ TableTypes(x) /\ x.max = t.max * 2 + 1 /\ x.count = t.count /\ x.made = t.made /\ x.free = t.free
  /\ x.key = t.key /\ x.val = t.val
  /\ \A y \in Entries \ Upto(AllEntries(t), n) : x.next[y] = t.next[y]
  /\ \E D : Rows(x, D, Upto(AllEntries(t), n))

\* The empty array has no entries.
LEMMA WidenedIs ==
  ASSUME NEW t, TableTypes(t), NEW x, x = Widened(t)
  PROVE  HalfMoved(t, x, 0)
<1> DEFINE m == t.max * 2 + 1
           array == [i \in 0 .. m |-> Nil]
           D == [i \in 0 .. m |-> << >>]
<1>1. /\ t.max \in Nat /\ t \in Table /\ t.next \in [Entries -> Links]
  BY TableSays DEF TableTypes
<1>2. m \in Nat /\ array \in [0 .. m -> Links]
  BY <1>1 DEF Links
<1>3. x = [t EXCEPT !.max = m, !.array = array]
  BY DEF Widened
<1>4. \A i \in 0 .. m : array[i] = Nil /\ D[i] = << >>
  OBVIOUS
<1>5. D \in [0 .. m -> Seq(Entries)]
  OBVIOUS
<1> HIDE DEF m, array, D
<1>6. array \in Arrays
  BY <1>2 DEF Arrays
<1>7. /\ x \in Table /\ x.max = m /\ x.array = array /\ x.next = t.next /\ x.key = t.key /\ x.val = t.val
      /\ x.count = t.count /\ x.made = t.made /\ x.free = t.free
  BY <1>1, <1>2, <1>3, <1>6 DEF Table
<1>8. TableTypes(x)
  BY <1>2, <1>7 DEF TableTypes
<1>9. /\ \A link : IsPath(<< >>, Nil, link)
      /\ IsInjective(<< >>) /\ ToSet(<< >>) = {}
  <2>1. << >> \in Seq(Entries) /\ DOMAIN << >> = {} /\ \A i \in {} : FALSE
    OBVIOUS
  <2>2. ASSUME NEW link PROVE IsPath(<< >>, Nil, link)
    BY <2>1 DEF IsPath, PathAt
  <2>3. QED
    BY <2>1, <2>2 DEF IsInjective, ToSet
<1>10. Rows(x, D, {})
  <2>1. \A i \in 0 .. x.max : IsPath(D[i], x.array[i], x.next) /\ IsInjective(D[i]) /\ ToSet(D[i]) = {}
    BY <1>4, <1>7, <1>9
  <2>2. D \in [0 .. x.max -> Seq(Entries)]
    BY <1>5, <1>7
  <2>3. QED
    BY <2>1, <2>2 DEF Rows
<1>11. Upto(AllEntries(t), 0) = {}
  BY DEF Upto
<1>12. QED
  BY <1>7, <1>8, <1>10, <1>11 DEF HalfMoved, m

\* A round moves one more entry.
LEMMA MovedOneIs ==
  ASSUME NEW t, NEW C, NEW F, NEW S, Holds(t, C, F, S), NEW n \in 1 .. Len(AllEntries(t)),
         NEW x, HalfMoved(t, x, n - 1), NEW p, p = MovedOne(t, x, n),
         NEW e, e = AllEntries(t)[n], NEW s, s = Bucket(x, x.key[e])
  PROVE  HalfMoved(t, p, n) /\ x \in Table
<1> DEFINE q == AllEntries(t)
           T == Upto(q, n - 1)
<1>1. q \in Seq(Entries) /\ IsInjective(q) /\ ToSet(q) = S
  BY AllEntriesAre
<1>2. e \in Entries /\ e \in S /\ e \notin T /\ Upto(q, n) = T \cup {e}
  <2> DEFINE o == q
  <2>1. o \in Seq(Entries) /\ IsInjective(o) /\ n \in 1 .. Len(o)
    BY <1>1
  <2> HIDE DEF o
  <2>2. /\ o[n] \in Entries /\ o[n] \in ToSet(o) /\ o[n] \notin Upto(o, n - 1)
        /\ Upto(o, n) = Upto(o, n - 1) \cup {o[n]}
    BY <2>1, UptoIs
  <2>3. QED
    BY <1>1, <2>2 DEF o
<1>3. /\ TableTypes(x) /\ x.max = t.max * 2 + 1 /\ x.count = t.count /\ x.made = t.made /\ x.free = t.free
      /\ x.key = t.key /\ x.val = t.val
      /\ \A y \in Entries \ T : x.next[y] = t.next[y]
      /\ \E D : Rows(x, D, T)
  BY DEF HalfMoved
<1>4. t.key[e] \in Keys /\ t.val[e] \in Vals
  BY <1>2 DEF Holds, Rows
<1>5. s = Bucket(Widened(t), t.key[e])
  <2>1. Widened(t).max = t.max * 2 + 1
    <3>1. t \in Table
      BY DEF Holds, TableTypes
    <3>2. QED
      BY <3>1 DEF Widened, Table
  <2>2. QED
    BY <1>3, <2>1 DEF Bucket
<1>6. p = Prepended(x, e, s)
  BY <1>5 DEF MovedOne
<1>7. x.max \in Nat /\ x.next \in [Entries -> Links] /\ s \in 0 .. x.max
  BY <1>3, <1>4, TableSays, BucketIs
<1> HIDE DEF T, q
<1>8. /\ TableTypes(p) /\ p.max = x.max /\ p.count = x.count /\ p.made = x.made /\ p.free = x.free
      /\ p.key = x.key /\ p.val = x.val
      /\ p.next = [x.next EXCEPT ![e] = x.array[s]]
  <2>1. TableTypes(x) /\ e \in Entries /\ s \in 0 .. x.max /\ p = Prepended(x, e, s)
    BY <1>2, <1>3, <1>6, <1>7
  <2> DEFINE link == [x.next EXCEPT ![e] = x.array[s]]
             array == [x.array EXCEPT ![s] = e]
  <2>2. link = [x.next EXCEPT ![e] = x.array[s]] /\ array = [x.array EXCEPT ![s] = e]
    OBVIOUS
  <2> HIDE DEF link, array
  <2>3. /\ TableTypes(p) /\ p.max = x.max /\ p.count = x.count /\ p.made = x.made /\ p.free = x.free
        /\ p.key = x.key /\ p.val = x.val /\ p.next = link
    BY <2>1, <2>2, PrependedFields
  <2>4. QED
    BY <2>2, <2>3
<1>9. \E D : Rows(p, D, Upto(q, n))
  <2>1. PICK D : Rows(x, D, T)
    BY <1>3
  <2>2. s = Bucket(x, x.key[e]) /\ x.key[e] \in Keys /\ x.val[e] \in Vals /\ e \in Entries \ T
    BY <1>2, <1>3, <1>4
  <2>3. \E E : Rows(p, E, T \cup {e})
    BY <1>3, <1>6, <2>1, <2>2, PrependedIs
  <2>4. QED
    BY <1>2, <2>3
<1>10. \A y \in Entries \ Upto(q, n) : p.next[y] = t.next[y]
  BY <1>2, <1>3, <1>7, <1>8
<1>11. QED
  BY <1>3, <1>8, <1>9, <1>10 DEF HalfMoved, TableTypes, q

\* The recursion of Expanded.
IsGrowth(g, t) ==
  g = [n \in 0 .. Len(AllEntries(t)) |->
         IF n = 0 THEN Widened(t)
         ELSE LET s == Bucket(Widened(t), t.key[AllEntries(t)[n]])
              IN  [g[n - 1] EXCEPT !.next[AllEntries(t)[n]] = g[n - 1].array[s], !.array[s] = AllEntries(t)[n]]]

\* Its rounds, whatever function solves it.
LEMMA GrowthRounds ==
  ASSUME NEW t, NEW C, NEW F, NEW S, Holds(t, C, F, S), NEW N, N = Len(AllEntries(t)), NEW g,
         g[0] = Widened(t),
         \A n \in 1 .. N : HalfMoved(t, g[n - 1], n - 1) => g[n] = MovedOne(t, g[n - 1], n)
  PROVE  \A n \in 0 .. N : HalfMoved(t, g[n], n)
<1> DEFINE Bad == {n \in 0 .. N : ~HalfMoved(t, g[n], n)}
<1>1. N \in Nat
  BY AllEntriesAre
<1> SUFFICES ASSUME Bad # {} PROVE FALSE
  OBVIOUS
<1>2. Bad \subseteq Nat
  BY <1>1
<1>3. PICK m \in Bad : \A k \in Bad : m <= k
  <2> HIDE DEF Bad
  <2>1. QED
    BY <1>2, LeastNumber
<1>4. m \in 0 .. N /\ ~HalfMoved(t, g[m], m)
  OBVIOUS
<1>5. m # 0
  <2>1. TableTypes(t)
    BY DEF Holds
  <2>2. HalfMoved(t, g[0], 0)
    BY <2>1, WidenedIs
  <2>3. QED
    BY <1>4, <2>2
<1>6. m \in 1 .. N /\ m - 1 \in 0 .. N /\ ~(m <= m - 1)
  BY <1>1, <1>4, <1>5
<1>7. HalfMoved(t, g[m - 1], m - 1)
  BY <1>3, <1>6
<1>8. g[m] = MovedOne(t, g[m - 1], m)
  BY <1>6, <1>7
<1>9. HalfMoved(t, g[m], m)
  <2> DEFINE x == g[m - 1]
             p == g[m]
             e == AllEntries(t)[m]
             s == Bucket(x, x.key[e])
  <2>1. /\ m \in 1 .. Len(AllEntries(t)) /\ HalfMoved(t, x, m - 1) /\ p = MovedOne(t, x, m)
        /\ e = AllEntries(t)[m] /\ s = Bucket(x, x.key[e])
    BY <1>6, <1>7, <1>8
  <2> HIDE DEF x, p, e, s
  <2>2. HalfMoved(t, p, m)
    BY <2>1, MovedOneIs
  <2>3. QED
    BY <2>2 DEF p
<1>10. QED
  BY <1>4, <1>9

\* The function of expand_array's rounds solves its recursion.
LEMMA GrowthExists ==
  ASSUME NEW t, NEW C, NEW F, NEW S, Holds(t, C, F, S)
  PROVE  \E g : IsGrowth(g, t)
<1> DEFINE N == Len(AllEntries(t))
           Half == {x \in Table : \E n \in 0 .. N : HalfMoved(t, x, n)}
           step == [a \in Table \X (1 .. N) |-> MovedOne(t, a[1], a[2])]
<1>1. N \in Nat
  BY AllEntriesAre
<1>2. PICK g : g = [n \in 0 .. N |-> IF n = 0 THEN Widened(t) ELSE step[<<g[n - 1], n>>]]
  <2> HIDE DEF N, step
  <2>1. \E g : IsRounds(g, N, Widened(t), step)
    BY <1>1, RoundsExist
  <2>2. QED
    BY <2>1 DEF IsRounds
<1>3. g[0] = Widened(t) /\ \A n \in 1 .. N : g[n] = step[<<g[n - 1], n>>]
  <2> HIDE DEF step
  <2>1. 0 \in 0 .. N /\ \A n \in 1 .. N : n \in 0 .. N /\ n # 0
    BY <1>1
  <2>2. QED
    BY <1>2, <2>1
<1>4. \A n \in 1 .. N : \A x : HalfMoved(t, x, n - 1) => step[<<x, n>>] = MovedOne(t, x, n)
  <2>1. SUFFICES ASSUME NEW n \in 1 .. N, NEW x, HalfMoved(t, x, n - 1)
                 PROVE  step[<<x, n>>] = MovedOne(t, x, n)
    OBVIOUS
  <2>2. x \in Table
    BY <2>1 DEF HalfMoved, TableTypes
  <2>3. <<x, n>> \in Table \X (1 .. N) /\ <<x, n>>[1] = x /\ <<x, n>>[2] = n
    BY <2>2
  <2>4. QED
    BY <2>3
<1>5. \A n \in 1 .. N : HalfMoved(t, g[n - 1], n - 1) => g[n] = MovedOne(t, g[n - 1], n)
  BY <1>3, <1>4
<1>6. \A n \in 0 .. N : HalfMoved(t, g[n], n)
  <2> DEFINE M == N
  <2>1. M = Len(AllEntries(t)) /\ \A n \in 1 .. M : HalfMoved(t, g[n - 1], n - 1) => g[n] = MovedOne(t, g[n - 1], n)
    BY <1>5
  <2> HIDE DEF M
  <2>2. \A n \in 0 .. M : HalfMoved(t, g[n], n)
    BY <1>3, <2>1, GrowthRounds
  <2>3. QED
    BY <2>2 DEF M
<1> DEFINE Next1(n) == LET s == Bucket(Widened(t), t.key[AllEntries(t)[n]])
                       IN  [g[n - 1] EXCEPT !.next[AllEntries(t)[n]] = g[n - 1].array[s],
                                            !.array[s] = AllEntries(t)[n]]
<1>7. ASSUME NEW n \in 0 .. N PROVE g[n] = IF n = 0 THEN Widened(t) ELSE Next1(n)
  <2>1. CASE n = 0
    BY <1>3, <2>1
  <2>2. CASE n # 0
    <3>1. n \in 1 .. N /\ n - 1 \in 0 .. N
      BY <1>1, <2>2
    <3>2. g[n] = MovedOne(t, g[n - 1], n)
      BY <1>5, <1>6, <3>1
    <3>3. MovedOne(t, g[n - 1], n) = Next1(n)
      BY DEF MovedOne, Prepended
    <3>4. QED
      BY <2>2, <3>2, <3>3
  <2>3. QED
    BY <2>1, <2>2
<1>8. g = [n \in 0 .. N |-> g[n]]
  <2> HIDE DEF step, N
  <2>1. QED
    BY <1>2
<1>9. g = [n \in 0 .. N |-> IF n = 0 THEN Widened(t) ELSE Next1(n)]
  <2> HIDE DEF Next1, N
  <2>1. QED
    BY <1>7, <1>8
<1>10. QED
  BY <1>9 DEF IsGrowth

\* r is the table t with an array of twice the size.
Grows(t, S, r) ==
  /\ \E D, G : Holds(r, D, G, S)
  /\ r.max = t.max * 2 + 1 /\ r.count = t.count /\ r.key = t.key /\ r.val = t.val

\* expand_array keeps what the table holds: the same entries, each in the chain
\* of its key's new slot.
LEMMA ExpandedIs ==
  ASSUME NEW t, NEW C, NEW F, NEW S, Holds(t, C, F, S), NEW r, r = Expanded(t)
  PROVE  Grows(t, S, r)
<1> DEFINE N == Len(AllEntries(t))
           g == CHOOSE f : IsGrowth(f, t)
<1>1. N \in Nat /\ AllEntries(t) \in Seq(Entries) /\ ToSet(AllEntries(t)) = S
  BY AllEntriesAre
<1>2. r = g[N]
  BY DEF Expanded, IsGrowth, Widened
<1>3. IsGrowth(g, t)
  BY GrowthExists
<1> HIDE DEF g
<1>4. g[0] = Widened(t) /\ \A n \in 1 .. N : g[n] = MovedOne(t, g[n - 1], n)
  <2>1. 0 \in 0 .. N /\ \A n \in 1 .. N : n \in 0 .. N /\ n # 0
    BY <1>1
  <2> DEFINE Step(n) == LET s == Bucket(Widened(t), t.key[AllEntries(t)[n]])
                        IN  [g[n - 1] EXCEPT !.next[AllEntries(t)[n]] = g[n - 1].array[s],
                                             !.array[s] = AllEntries(t)[n]]
  <2>2. g = [n \in 0 .. N |-> IF n = 0 THEN Widened(t) ELSE Step(n)]
    BY <1>3 DEF IsGrowth
  <2>3. \A n \in 1 .. N : Step(n) = MovedOne(t, g[n - 1], n)
    BY DEF MovedOne, Prepended
  <2> HIDE DEF Step, N
  <2>4. QED
    BY <2>1, <2>2, <2>3
<1>5. HalfMoved(t, r, N)
  <2> DEFINE M == N
  <2>1. M = Len(AllEntries(t)) /\ \A n \in 1 .. M : HalfMoved(t, g[n - 1], n - 1) => g[n] = MovedOne(t, g[n - 1], n)
    BY <1>4
  <2>2. M \in 0 .. M
    BY <1>1
  <2> HIDE DEF M
  <2>3. \A n \in 0 .. M : HalfMoved(t, g[n], n)
    BY <1>4, <2>1, GrowthRounds
  <2>4. HalfMoved(t, g[M], M)
    BY <2>2, <2>3
  <2>5. QED
    BY <1>2, <2>4 DEF M
<1>6. Upto(AllEntries(t), N) = S
  <2>1. DOMAIN AllEntries(t) = 1 .. N
    BY <1>1, LenProperties
  <2>2. QED
    BY <1>1, <2>1 DEF Upto, ToSet
<1>7. /\ TableTypes(r) /\ r.max = t.max * 2 + 1 /\ r.count = t.count /\ r.made = t.made /\ r.free = t.free
      /\ r.key = t.key /\ r.val = t.val
      /\ \A y \in Entries \ S : r.next[y] = t.next[y]
      /\ \E D : Rows(r, D, S)
  BY <1>5, <1>6 DEF HalfMoved
<1>8. PICK D : Rows(r, D, S)
  BY <1>7
<1>9. Counts(r, S)
  BY <1>7 DEF Holds, Counts
<1>10. Covers(r, F, S)
  <2>1. /\ IsPath(F, t.free, t.next) /\ IsInjective(F) /\ ToSet(F) \cap S = {}
        /\ t.made \in 0 .. Cardinality(Keys)
        /\ \A e \in Entries : e <= t.made <=> e \in S \cup ToSet(F)
        /\ \A e \in Entries : ~(e <= t.made) => t.next[e] = Nil
    BY DEF Holds, Covers
  <2>2. \A x \in ToSet(F) : x \in Entries
    BY <2>1, ElementOfSeq, LenProperties DEF ToSet, IsPath
  <2>3. \A x \in ToSet(F) : r.next[x] = t.next[x]
    BY <1>7, <2>1, <2>2
  <2>4. IsPath(F, t.free, r.next)
    BY <2>1, <2>3, PathKept
  <2>5. \A e \in Entries : ~(e <= r.made) => r.next[e] = Nil
    BY <1>7, <2>1
  <2>6. QED
    BY <1>7, <2>1, <2>4, <2>5 DEF Covers
<1>11. QED
  BY <1>7, <1>8, <1>9, <1>10 DEF Holds, Grows

-----------------------------------------------------------------------------
(* ogs_hash_clear                                                          *)

\* Round n of ogs_hash_clear.
ClearedOne(t, x, n) == Removed(x, t.key[AllEntries(t)[n]])

\* What n rounds of ogs_hash_clear lead to.
HalfCleared(t, x, S, n) ==
  /\ TableTypes(x) /\ x.max = t.max
  /\ \E D, G : Holds(x, D, G, S \ Upto(AllEntries(t), n))
  /\ \A y \in S \ Upto(AllEntries(t), n) : x.key[y] = t.key[y]

\* A round removes one more entry.
LEMMA ClearedOneIs ==
  ASSUME NEW t, NEW C, NEW F, NEW S, Holds(t, C, F, S), NEW n \in 1 .. Len(AllEntries(t)),
         NEW x, HalfCleared(t, x, S, n - 1)
  PROVE  HalfCleared(t, ClearedOne(t, x, n), S, n)
<1> DEFINE q == AllEntries(t)
           e == q[n]
           k == t.key[e]
           p == ClearedOne(t, x, n)
           T == S \ Upto(q, n - 1)
<1>1. q \in Seq(Entries) /\ IsInjective(q) /\ ToSet(q) = S
  BY AllEntriesAre
<1>2. e \in Entries /\ e \in T /\ S \ Upto(q, n) = T \ {e}
  <2> DEFINE o == q
  <2>1. o \in Seq(Entries) /\ IsInjective(o) /\ n \in 1 .. Len(o)
    BY <1>1
  <2> HIDE DEF o
  <2>2. /\ o[n] \in Entries /\ o[n] \in ToSet(o) /\ o[n] \notin Upto(o, n - 1)
        /\ Upto(o, n) = Upto(o, n - 1) \cup {o[n]}
    BY <2>1, UptoIs
  <2>3. S \ Upto(o, n) = (S \ Upto(o, n - 1)) \ {o[n]}
    BY <2>2
  <2>4. QED
    BY <1>1, <2>2, <2>3 DEF o
<1>3. /\ TableTypes(x) /\ x.max = t.max /\ \E D, G : Holds(x, D, G, T) /\ \A y \in T : x.key[y] = t.key[y]
  BY DEF HalfCleared
<1>4. k \in Keys /\ x.key[e] = k
  BY <1>2, <1>3 DEF Holds, Rows
<1>5. p = Removed(x, k)
  BY DEF ClearedOne
<1> HIDE DEF T, q, e, k, p
<1>6. PICK D, G : Holds(x, D, G, T)
  BY <1>3
<1>7. /\ \E D1, G1 : Holds(p, D1, G1, T \ {e})
      /\ p.max = x.max
      /\ \A y \in T \ {e} : p.key[y] = x.key[y] /\ p.val[y] = x.val[y]
  <2>1. Loses(x, T, e, p)
    BY <1>2, <1>4, <1>5, <1>6, RemovedIs
  <2>2. QED
    BY <2>1 DEF Loses
<1>8. TableTypes(p)
  BY <1>7 DEF Holds
<1>9. /\ \E D1, G1 : Holds(p, D1, G1, S \ Upto(q, n))
      /\ \A y \in S \ Upto(q, n) : p.key[y] = t.key[y]
  BY <1>2, <1>3, <1>7
<1>10. QED
  BY <1>3, <1>7, <1>8, <1>9 DEF HalfCleared, q, p

\* The recursion of Cleared.
IsClearing(g, t) ==
  g = [n \in 0 .. Len(AllEntries(t)) |-> IF n = 0 THEN t ELSE Removed(g[n - 1], t.key[AllEntries(t)[n]])]

\* Its rounds, whatever function solves it.
LEMMA ClearRounds ==
  ASSUME NEW t, NEW C, NEW F, NEW S, Holds(t, C, F, S), NEW N, N = Len(AllEntries(t)), NEW g,
         g[0] = t,
         \A n \in 1 .. N : HalfCleared(t, g[n - 1], S, n - 1) => g[n] = ClearedOne(t, g[n - 1], n)
  PROVE  \A n \in 0 .. N : HalfCleared(t, g[n], S, n)
<1> DEFINE Bad == {n \in 0 .. N : ~HalfCleared(t, g[n], S, n)}
<1>1. N \in Nat
  BY AllEntriesAre
<1> SUFFICES ASSUME Bad # {} PROVE FALSE
  OBVIOUS
<1>2. Bad \subseteq Nat
  BY <1>1
<1>3. PICK m \in Bad : \A k \in Bad : m <= k
  <2> HIDE DEF Bad
  <2>1. QED
    BY <1>2, LeastNumber
<1>4. m \in 0 .. N /\ ~HalfCleared(t, g[m], S, m)
  OBVIOUS
<1>5. m # 0
  <2>1. Upto(AllEntries(t), 0) = {}
    BY DEF Upto
  <2>2. S \ Upto(AllEntries(t), 0) = S
    BY <2>1
  <2>3. TableTypes(t) /\ Holds(t, C, F, S \ Upto(AllEntries(t), 0))
    BY <2>2 DEF Holds
  <2>4. HalfCleared(t, t, S, 0)
    BY <2>3 DEF HalfCleared
  <2>5. QED
    BY <1>4, <2>4
<1>6. m \in 1 .. N /\ m - 1 \in 0 .. N /\ ~(m <= m - 1)
  BY <1>1, <1>4, <1>5
<1>7. HalfCleared(t, g[m - 1], S, m - 1)
  BY <1>3, <1>6
<1>8. g[m] = ClearedOne(t, g[m - 1], m)
  BY <1>6, <1>7
<1>9. HalfCleared(t, g[m], S, m)
  <2> DEFINE x == g[m - 1]
  <2>1. m \in 1 .. Len(AllEntries(t)) /\ HalfCleared(t, x, S, m - 1) /\ g[m] = ClearedOne(t, x, m)
    BY <1>6, <1>7, <1>8
  <2> HIDE DEF x
  <2>2. HalfCleared(t, ClearedOne(t, x, m), S, m)
    BY <2>1, ClearedOneIs
  <2>3. QED
    BY <2>1, <2>2
<1>10. QED
  BY <1>4, <1>9

\* The function of ogs_hash_clear's rounds solves its recursion.
LEMMA ClearExists ==
  ASSUME NEW t, NEW C, NEW F, NEW S, Holds(t, C, F, S)
  PROVE  \E g : IsClearing(g, t)
<1> DEFINE N == Len(AllEntries(t))
           step == [a \in Table \X (1 .. N) |-> ClearedOne(t, a[1], a[2])]
<1>1. N \in Nat
  BY AllEntriesAre
<1>2. PICK g : g = [n \in 0 .. N |-> IF n = 0 THEN t ELSE step[<<g[n - 1], n>>]]
  <2> HIDE DEF N, step
  <2>1. \E g : IsRounds(g, N, t, step)
    BY <1>1, RoundsExist
  <2>2. QED
    BY <2>1 DEF IsRounds
<1>3. g[0] = t /\ \A n \in 1 .. N : g[n] = step[<<g[n - 1], n>>]
  <2> HIDE DEF step
  <2>1. 0 \in 0 .. N /\ \A n \in 1 .. N : n \in 0 .. N /\ n # 0
    BY <1>1
  <2>2. QED
    BY <1>2, <2>1
<1>4. \A n \in 1 .. N : \A x : HalfCleared(t, x, S, n - 1) => step[<<x, n>>] = ClearedOne(t, x, n)
  <2>1. SUFFICES ASSUME NEW n \in 1 .. N, NEW x, HalfCleared(t, x, S, n - 1)
                 PROVE  step[<<x, n>>] = ClearedOne(t, x, n)
    OBVIOUS
  <2>2. x \in Table
    BY <2>1 DEF HalfCleared, TableTypes
  <2>3. <<x, n>> \in Table \X (1 .. N) /\ <<x, n>>[1] = x /\ <<x, n>>[2] = n
    BY <2>2
  <2>4. QED
    BY <2>3
<1>5. \A n \in 1 .. N : HalfCleared(t, g[n - 1], S, n - 1) => g[n] = ClearedOne(t, g[n - 1], n)
  BY <1>3, <1>4
<1>6. \A n \in 0 .. N : HalfCleared(t, g[n], S, n)
  <2> DEFINE M == N
  <2>1. M = Len(AllEntries(t)) /\ \A n \in 1 .. M : HalfCleared(t, g[n - 1], S, n - 1) => g[n] = ClearedOne(t, g[n - 1], n)
    BY <1>5
  <2> HIDE DEF M
  <2>2. \A n \in 0 .. M : HalfCleared(t, g[n], S, n)
    BY <1>3, <2>1, ClearRounds
  <2>3. QED
    BY <2>2 DEF M
<1> DEFINE Step(n) == Removed(g[n - 1], t.key[AllEntries(t)[n]])
<1>7. ASSUME NEW n \in 0 .. N PROVE g[n] = IF n = 0 THEN t ELSE Step(n)
  <2>1. CASE n = 0
    BY <1>3, <2>1
  <2>2. CASE n # 0
    <3>1. n \in 1 .. N /\ n - 1 \in 0 .. N
      BY <1>1, <2>2
    <3>2. g[n] = ClearedOne(t, g[n - 1], n)
      BY <1>5, <1>6, <3>1
    <3>3. ClearedOne(t, g[n - 1], n) = Step(n)
      BY DEF ClearedOne
    <3>4. QED
      BY <2>2, <3>2, <3>3
  <2>3. QED
    BY <2>1, <2>2
<1>8. g = [n \in 0 .. N |-> g[n]]
  <2> HIDE DEF step, N
  <2>1. QED
    BY <1>2
<1>9. g = [n \in 0 .. N |-> IF n = 0 THEN t ELSE Step(n)]
  <2> HIDE DEF Step, N
  <2>1. QED
    BY <1>7, <1>8
<1>10. QED
  BY <1>9 DEF IsClearing

\* ogs_hash_clear empties the table, in the array it has.
LEMMA ClearedIs ==
  ASSUME NEW t, NEW C, NEW F, NEW S, Holds(t, C, F, S), NEW r, r = Cleared(t)
  PROVE  (\E D, G : Holds(r, D, G, {})) /\ r.max = t.max /\ r.count = 0
<1> DEFINE N == Len(AllEntries(t))
           g == CHOOSE f : IsClearing(f, t)
<1>1. N \in Nat /\ AllEntries(t) \in Seq(Entries) /\ ToSet(AllEntries(t)) = S
  BY AllEntriesAre
<1>2. r = g[N]
  BY DEF Cleared, IsClearing
<1>3. IsClearing(g, t)
  BY ClearExists
<1> HIDE DEF g
<1>4. g[0] = t /\ \A n \in 1 .. N : g[n] = ClearedOne(t, g[n - 1], n)
  <2>1. 0 \in 0 .. N /\ \A n \in 1 .. N : n \in 0 .. N /\ n # 0
    BY <1>1
  <2> DEFINE Step(n) == Removed(g[n - 1], t.key[AllEntries(t)[n]])
  <2>2. g = [n \in 0 .. N |-> IF n = 0 THEN t ELSE Step(n)]
    BY <1>3 DEF IsClearing
  <2>3. \A n \in 1 .. N : Step(n) = ClearedOne(t, g[n - 1], n)
    BY DEF ClearedOne
  <2> HIDE DEF Step, N
  <2>4. QED
    BY <2>1, <2>2, <2>3
<1>5. HalfCleared(t, r, S, N)
  <2> DEFINE M == N
  <2>1. M = Len(AllEntries(t)) /\ \A n \in 1 .. M : HalfCleared(t, g[n - 1], S, n - 1) => g[n] = ClearedOne(t, g[n - 1], n)
    BY <1>4
  <2>2. M \in 0 .. M
    BY <1>1
  <2> HIDE DEF M
  <2>3. \A n \in 0 .. M : HalfCleared(t, g[n], S, n)
    BY <1>4, <2>1, ClearRounds
  <2>4. HalfCleared(t, g[M], S, M)
    BY <2>2, <2>3
  <2>5. QED
    BY <1>2, <2>4 DEF M
<1>6. S \ Upto(AllEntries(t), N) = {}
  <2>1. DOMAIN AllEntries(t) = 1 .. N
    BY <1>1, LenProperties
  <2>2. QED
    BY <1>1, <2>1 DEF Upto, ToSet
<1>7. r.max = t.max /\ \E D, G : Holds(r, D, G, {})
  BY <1>5, <1>6 DEF HalfCleared
<1>8. r.count = 0
  <2>1. Cardinality({}) = 0
    BY FS_EmptySet
  <2>2. QED
    BY <1>7, <2>1 DEF Holds, Counts
<1>9. QED
  BY <1>7, <1>8

-----------------------------------------------------------------------------
(* The table as a map                                                      *)

MapOf(t) == [k \in Keys |-> Value(t, k)]

\* A key has the value of its entry.
LEMMA ValueIs ==
  ASSUME NEW t, NEW C, NEW F, NEW S, Holds(t, C, F, S), NEW k \in Keys
  PROVE  /\ \A e \in S : t.key[e] = k => Value(t, k) = t.val[e] /\ t.val[e] \in Vals /\ FindEntry(t, k) = e
         /\ (\A e \in S : t.key[e] # k) => Value(t, k) = Nil /\ FindEntry(t, k) = Nil
<1>1. S \subseteq Entries /\ \A e \in S : t.val[e] \in Vals /\ e # Nil
  BY EntriesAre DEF Holds, Rows
<1>2. /\ FindEntry(t, k) # Nil => FindEntry(t, k) \in S /\ t.key[FindEntry(t, k)] = k
      /\ \A e \in S : t.key[e] = k => FindEntry(t, k) = e
  BY FindIs
<1>3. QED
  BY <1>1, <1>2 DEF Value

\* Keys are there or not, and those that are have one entry.
LEMMA KeyIs ==
  ASSUME NEW t, NEW C, NEW F, NEW S, Holds(t, C, F, S)
  PROVE  /\ S \subseteq Entries /\ \A e \in S : t.key[e] \in Keys /\ t.val[e] \in Vals
         /\ \A e, f \in S : t.key[e] = t.key[f] => e = f
BY DEF Holds, Rows, Counts

\* Tables with the same entries are the same map.
LEMMA SameMap ==
  ASSUME NEW t, NEW C, NEW F, NEW S, Holds(t, C, F, S), NEW r, NEW D, NEW G, Holds(r, D, G, S),
         \A x \in S : r.key[x] = t.key[x] /\ r.val[x] = t.val[x]
  PROVE  MapOf(r) = MapOf(t)
<1>1. ASSUME NEW k \in Keys PROVE Value(r, k) = Value(t, k)
  <2>1. CASE \E e \in S : t.key[e] = k
    BY <2>1, ValueIs
  <2>2. CASE \A e \in S : t.key[e] # k
    BY <2>2, ValueIs
  <2>3. QED
    BY <2>1, <2>2
<1>2. QED
  BY <1>1 DEF MapOf

\* Adding sets the map at the key.
LEMMA AddedMap ==
  ASSUME NEW t, NEW C, NEW F, NEW S, Holds(t, C, F, S), NEW k \in Keys, \A x \in S : t.key[x] # k,
         NEW v, NEW e, NEW a, Gains(t, S, k, v, e, a)
  PROVE  MapOf(a) = [MapOf(t) EXCEPT ![k] = v]
<1> DEFINE T == S \cup {e}
<1>1. PICK D, G : Holds(a, D, G, T)
  BY DEF Gains
<1>2. /\ a.key[e] = k /\ a.val[e] = v /\ e \in T
      /\ \A x \in S : a.key[x] = t.key[x] /\ a.val[x] = t.val[x]
      /\ \A x \in T : x \in S \/ x = e
      /\ \A x \in S : x \in T
  BY DEF Gains
<1> HIDE DEF T
<1>3. ASSUME NEW j \in Keys PROVE Value(a, j) = IF j = k THEN v ELSE Value(t, j)
  <2>1. CASE j = k
    BY <1>1, <1>2, <2>1, ValueIs
  <2>2. CASE j # k /\ \E x \in S : t.key[x] = j
    <3>1. PICK x \in S : t.key[x] = j
      BY <2>2
    <3>2. Value(t, j) = t.val[x]
      BY <3>1, ValueIs
    <3>3. Value(a, j) = a.val[x]
      BY <1>1, <1>2, <3>1, ValueIs
    <3>4. QED
      BY <1>2, <2>2, <3>2, <3>3
  <2>3. CASE j # k /\ \A x \in S : t.key[x] # j
    <3>1. Value(t, j) = Nil
      BY <2>3, ValueIs
    <3>2. \A x \in T : a.key[x] # j
      BY <1>2, <2>3
    <3>3. Value(a, j) = Nil
      BY <1>1, <3>2, ValueIs
    <3>4. QED
      BY <2>3, <3>1, <3>3
  <2>4. QED
    BY <2>1, <2>2, <2>3
<1>4. QED
  BY <1>3 DEF MapOf

\* Removing clears it.
LEMMA RemovedMap ==
  ASSUME NEW t, NEW C, NEW F, NEW S, Holds(t, C, F, S), NEW e \in S, NEW k \in Keys, t.key[e] = k,
         NEW r, Loses(t, S, e, r)
  PROVE  MapOf(r) = [MapOf(t) EXCEPT ![k] = Nil]
<1> DEFINE T == S \ {e}
<1>1. PICK D, G : Holds(r, D, G, T)
  BY DEF Loses
<1>2. /\ \A x \in T : r.key[x] = t.key[x] /\ r.val[x] = t.val[x] /\ x \in S /\ x # e
      /\ \A x \in S : x # e => x \in T
  BY DEF Loses
<1>3. \A x \in T : t.key[x] # k
  BY <1>2, KeyIs
<1> HIDE DEF T
<1>4. ASSUME NEW j \in Keys PROVE Value(r, j) = IF j = k THEN Nil ELSE Value(t, j)
  <2>1. CASE j = k
    <3>1. \A x \in T : r.key[x] # j
      BY <1>2, <1>3, <2>1
    <3>2. QED
      BY <1>1, <2>1, <3>1, ValueIs
  <2>2. CASE j # k /\ \E x \in S : t.key[x] = j
    <3>1. PICK x \in S : t.key[x] = j
      BY <2>2
    <3>2. Value(t, j) = t.val[x]
      BY <3>1, ValueIs
    <3>3. x \in T /\ r.key[x] = j /\ r.val[x] = t.val[x]
      BY <1>2, <2>2, <3>1
    <3>4. Value(r, j) = r.val[x]
      BY <1>1, <3>3, ValueIs
    <3>5. QED
      BY <2>2, <3>2, <3>3, <3>4
  <2>3. CASE j # k /\ \A x \in S : t.key[x] # j
    <3>1. Value(t, j) = Nil
      BY <2>3, ValueIs
    <3>2. \A x \in T : r.key[x] # j
      BY <1>2, <2>3
    <3>3. Value(r, j) = Nil
      BY <1>1, <3>2, ValueIs
    <3>4. QED
      BY <2>3, <3>1, <3>3
  <2>4. QED
    BY <2>1, <2>2, <2>3
<1>5. QED
  BY <1>4 DEF MapOf

\* r is the table t with the value v in the entry e.
Stores(t, C, F, S, e, v, r) ==
  /\ Holds(r, C, F, S)
  /\ r.max = t.max /\ r.count = t.count /\ r.key = t.key /\ r.next = t.next /\ r.array = t.array
  /\ r.val[e] = v /\ \A x \in S : x # e => r.val[x] = t.val[x]

\* ogs_hash_set of a key that is there.
LEMMA StoredIs ==
  ASSUME NEW t, NEW C, NEW F, NEW S, Holds(t, C, F, S), NEW e \in S, NEW v \in Vals,
         NEW r, r = [t EXCEPT !.val[e] = v]
  PROVE  Stores(t, C, F, S, e, v, r)
<1>1. TableTypes(t) /\ t \in Table /\ t.val \in [Entries -> Vals \cup {Nil}] /\ e \in Entries
  BY KeyIs, TableSays DEF Holds, TableTypes
<1> DEFINE vals == [t.val EXCEPT ![e] = v]
<1>2. vals \in [Entries -> Vals \cup {Nil}] /\ vals[e] = v /\ \A x \in S : x # e => vals[x] = t.val[x]
  BY <1>1, KeyIs
<1>3. r = [t EXCEPT !.val = vals]
  OBVIOUS
<1> HIDE DEF vals
<1>4. /\ r \in Table /\ r.max = t.max /\ r.count = t.count /\ r.key = t.key /\ r.next = t.next
      /\ r.array = t.array /\ r.made = t.made /\ r.free = t.free /\ r.val = vals
  BY <1>1, <1>2, <1>3 DEF Table
<1>5. TableTypes(r)
  BY <1>4 DEF Holds, TableTypes
<1>6. Rows(r, C, S)
  <2>1. \A k : Bucket(r, k) = Bucket(t, k)
    BY <1>4 DEF Bucket
  <2>2. Rows(t, C, S)
    BY DEF Holds
  <2>3. \A x \in S : r.val[x] \in Vals
    BY <1>2, <1>4, <2>2 DEF Rows
  <2>4. QED
    BY <1>4, <2>1, <2>2, <2>3 DEF Rows
<1>7. Covers(r, F, S) /\ Counts(r, S)
  BY <1>4 DEF Holds, Covers, Counts
<1>8. QED
  BY <1>2, <1>4, <1>5, <1>6, <1>7 DEF Holds, Stores

\* It sets the map at its key.
LEMMA StoredMap ==
  ASSUME NEW t, NEW C, NEW F, NEW S, Holds(t, C, F, S), NEW e \in S, NEW k \in Keys, t.key[e] = k,
         NEW v, NEW r, Stores(t, C, F, S, e, v, r)
  PROVE  MapOf(r) = [MapOf(t) EXCEPT ![k] = v]
<1>1. /\ Holds(r, C, F, S) /\ r.key = t.key
      /\ r.val[e] = v /\ \A x \in S : x # e => r.val[x] = t.val[x]
  BY DEF Stores
<1>2. ASSUME NEW j \in Keys PROVE Value(r, j) = IF j = k THEN v ELSE Value(t, j)
  <2>1. CASE j = k
    BY <1>1, <2>1, ValueIs
  <2>2. CASE j # k /\ \E x \in S : t.key[x] = j
    <3>1. PICK x \in S : t.key[x] = j
      BY <2>2
    <3>2. Value(t, j) = t.val[x]
      BY <3>1, ValueIs
    <3>3. Value(r, j) = r.val[x]
      BY <1>1, <3>1, ValueIs
    <3>4. QED
      BY <1>1, <2>2, <3>1, <3>2, <3>3
  <2>3. CASE j # k /\ \A x \in S : t.key[x] # j
    <3>1. Value(t, j) = Nil
      BY <2>3, ValueIs
    <3>2. Value(r, j) = Nil
      BY <1>1, <2>3, ValueIs
    <3>3. QED
      BY <2>3, <3>1, <3>2
  <2>4. QED
    BY <2>1, <2>2, <2>3
<1>3. QED
  BY <1>2 DEF MapOf

-----------------------------------------------------------------------------
(* Loops over the table                                                    *)

\* The slot of an entry's key.
SlotOf(t, x) == Bucket(t, t.key[x])

\* The path from an entry of S is the rest of its chain.
LEMMA RestOfChain ==
  ASSUME NEW t, NEW C, NEW F, NEW S, Holds(t, C, F, S), NEW e \in S, NEW u, u = PathFrom(t.next, t.next[e])
  PROVE  /\ t.next[e] \in Links /\ e \notin ToSet(u)
         /\ \A x : x \in ToSet(PathFrom(t.next, e)) <=> x = e \/ x \in ToSet(u)
         /\ \A x \in ToSet(PathFrom(t.next, e)) : x \in S /\ SlotOf(t, x) = SlotOf(t, e)
         /\ t.next[e] # Nil => t.next[e] \in ToSet(u)
<1> DEFINE link == t.next
           i == SlotOf(t, e)
           s == C[i]
           w == PathFrom(link, e)
<1>1. TableTypes(t) /\ Rows(t, C, S) /\ e \in Entries /\ e # Nil /\ t.key[e] \in Keys
  BY KeyIs, EntriesAre DEF Holds
<1>2. i \in 0 .. t.max
  BY <1>1, TableSays, BucketIs DEF SlotOf
<1>3. /\ IsPath(s, t.array[i], link) /\ IsInjective(s)
      /\ \A x \in Entries : x \in ToSet(s) <=> x \in S /\ SlotOf(t, x) = i
  BY <1>1, <1>2 DEF Rows, SlotOf
<1>4. Grounded(link) /\ e \in Links
  BY <1>1, HeldLinks DEF Links
<1> HIDE DEF i, s
<1>5. s \in Seq(Entries) /\ Len(s) \in Nat /\ DOMAIN s = 1 .. Len(s)
  BY <1>3, LenProperties DEF IsPath
<1>6. SlotOf(t, e) = i
  BY DEF i
<1>7. PICK m \in 1 .. Len(s) : s[m] = e
  <2>1. e \in ToSet(s)
    BY <1>1, <1>3, <1>6
  <2>2. QED
    BY <1>5, <2>1 DEF ToSet
<1>8. m \in 1 .. (Len(s) + 1) /\ PathAt(s, m) = e
  <2>1. m \in Int /\ m \in 1 .. (Len(s) + 1)
    BY <1>5
  <2>2. QED
    BY <1>5, <1>7, <2>1, PathAtIs
<1>9. /\ Len(w) = Len(s) + 1 - m
      /\ \A l \in Nat \ {0} : PathAt(w, l) = PathAt(s, m - 1 + l)
  <2>1. PICK b : /\ IsPath(b, PathAt(s, m), link)
                 /\ Len(b) = Len(s) + 1 - m
                 /\ \A l \in Nat \ {0} : PathAt(b, l) = PathAt(s, m - 1 + l)
    BY <1>3, <1>8, PathBehind
  <2>2. b = w
    BY <1>4, <1>8, <2>1, PathFromIs
  <2>3. QED
    BY <2>1, <2>2
<1>10. w \in Seq(Entries) /\ Len(w) \in Nat /\ DOMAIN w = 1 .. Len(w)
  <2>1. w \in Seq(Entries)
    BY <1>4, PathFromIs
  <2> HIDE DEF w
  <2>2. QED
    BY <2>1, LenProperties
<1>11. link[e] \in Links
  BY <1>1, <1>4, PathFromIs
<1>12. u \in Seq(Entries) /\ Len(u) \in Nat /\ DOMAIN u = 1 .. Len(u) /\ PathAt(u, 1) = link[e]
  <2>1. IsPath(u, link[e], link)
    BY <1>4, <1>11, PathFromIs
  <2>2. QED
    BY <2>1, LenProperties DEF IsPath
<1>13. Len(w) = Len(u) + 1 /\ \A l \in Int : PathAt(w, l) = IF l = 1 THEN e ELSE PathAt(u, l - 1)
  <2>1. e # Nil
    BY <1>1
  <2> HIDE DEF link
  <2>2. /\ Len(PathFrom(link, e)) = Len(PathFrom(link, link[e])) + 1
        /\ \A l \in Int : PathAt(PathFrom(link, e), l) =
             IF l = 1 THEN e ELSE PathAt(PathFrom(link, link[e]), l - 1)
    BY <1>4, <2>1, PathFromIs
  <2>3. u = PathFrom(link, link[e])
    BY DEF link
  <2>4. QED
    BY <2>2, <2>3
<1> HIDE DEF w
<1>14. \A l \in 1 .. Len(w) : w[l] = PathAt(w, l) /\ l \in Int /\ l \in Nat \ {0}
  BY <1>10, PathAtIs
<1>15. \A l \in 1 .. Len(u) : u[l] = PathAt(u, l) /\ l + 1 \in 1 .. Len(w) /\ w[l + 1] = u[l]
  <2>1. TAKE l \in 1 .. Len(u)
  <2>2. l \in Int /\ l + 1 \in Int /\ l + 1 # 1 /\ (l + 1) - 1 = l /\ l + 1 \in 1 .. Len(w)
    BY <1>12, <1>13
  <2>3. u[l] = PathAt(u, l)
    BY <1>12, <2>2, PathAtIs
  <2>4. QED
    BY <1>13, <1>14, <2>2, <2>3
<1>16. \A l \in 1 .. Len(w) : m - 1 + l \in 1 .. Len(s) /\ w[l] = s[m - 1 + l]
  <2>1. TAKE l \in 1 .. Len(w)
  <2>2. m - 1 + l \in 1 .. Len(s) /\ m - 1 + l \in Int
    BY <1>5, <1>9, <1>10
  <2>3. PathAt(s, m - 1 + l) = s[m - 1 + l]
    BY <1>5, <2>2, PathAtIs
  <2>4. QED
    BY <1>9, <1>14, <2>2, <2>3
<1>17. \A x \in ToSet(w) : x \in S /\ SlotOf(t, x) = i
  <2>1. SUFFICES ASSUME NEW l \in 1 .. Len(w) PROVE w[l] \in S /\ SlotOf(t, w[l]) = i
    BY <1>10 DEF ToSet
  <2>2. w[l] \in ToSet(s) /\ w[l] \in Entries
    BY <1>5, <1>16, ElementOfSeq DEF ToSet
  <2>3. QED
    BY <1>3, <2>2
<1>18. e \notin ToSet(u)
  <2>1. SUFFICES ASSUME NEW l \in 1 .. Len(u), u[l] = e PROVE FALSE
    BY <1>12 DEF ToSet
  <2>2. l + 1 \in 1 .. Len(w) /\ w[l + 1] = e
    BY <1>15, <2>1
  <2>3. m - 1 + (l + 1) \in 1 .. Len(s) /\ s[m - 1 + (l + 1)] = e /\ m - 1 + (l + 1) # m
    BY <1>5, <1>12, <1>16, <2>2
  <2>4. QED
    BY <1>3, <1>5, <1>7, <2>3 DEF IsInjective
<1>19. \A x : x \in ToSet(w) <=> x = e \/ x \in ToSet(u)
  <2>1. ASSUME NEW x, x \in ToSet(w) PROVE x = e \/ x \in ToSet(u)
    <3>1. PICK l \in 1 .. Len(w) : x = w[l]
      BY <1>10, <2>1 DEF ToSet
    <3>2. CASE l = 1
      BY <1>13, <1>14, <3>1, <3>2
    <3>3. CASE l # 1
      <4>1. l - 1 \in 1 .. Len(u) /\ (l - 1) + 1 = l
        BY <1>12, <1>13, <3>3
      <4>2. u[l - 1] = x
        BY <1>15, <3>1, <4>1
      <4>3. QED
        BY <1>12, <4>1, <4>2 DEF ToSet
    <3>4. QED
      BY <3>2, <3>3
  <2>2. e \in ToSet(w)
    <3>1. 1 \in 1 .. Len(w)
      BY <1>12, <1>13
    <3>2. w[1] = e
      BY <1>13, <1>14, <3>1
    <3>3. QED
      BY <1>10, <3>1, <3>2 DEF ToSet
  <2>3. ASSUME NEW x, x \in ToSet(u) PROVE x \in ToSet(w)
    <3>1. PICK l \in 1 .. Len(u) : x = u[l]
      BY <1>12, <2>3 DEF ToSet
    <3>2. l + 1 \in 1 .. Len(w) /\ w[l + 1] = x
      BY <1>15, <3>1
    <3>3. QED
      BY <1>10, <3>2 DEF ToSet
  <2>4. QED
    BY <2>1, <2>2, <2>3
<1>20. link[e] # Nil => link[e] \in ToSet(u)
  <2>1. 1 \in Int
    OBVIOUS
  <2>2. link[e] # Nil => 1 \in 1 .. Len(u) /\ u[1] = link[e]
    BY <1>12, <2>1, PathAtIs
  <2>3. QED
    BY <1>12, <2>2 DEF ToSet
<1>21. QED
  BY <1>6, <1>11, <1>17, <1>18, <1>19, <1>20 DEF w

\* The chain of a slot, from its head.
LEMMA HeadOf ==
  ASSUME NEW t, NEW C, NEW F, NEW S, Holds(t, C, F, S), NEW i \in 0 .. t.max, NEW e, e = t.array[i]
  PROVE  /\ e \in Links
         /\ e = Nil => \A x \in S : SlotOf(t, x) # i
         /\ e # Nil => /\ e \in S /\ SlotOf(t, e) = i
                       /\ \A x \in S : SlotOf(t, x) = i <=> x \in ToSet(PathFrom(t.next, e))
<1> DEFINE s == C[i]
<1>1. TableTypes(t) /\ Rows(t, C, S) /\ S \subseteq Entries
  BY KeyIs DEF Holds
<1>2. e \in Links
  BY <1>1, TableSays
<1>3. /\ IsPath(s, e, t.next)
      /\ \A x \in Entries : x \in ToSet(s) <=> x \in S /\ SlotOf(t, x) = i
  BY <1>1 DEF Rows, SlotOf
<1>4. s = PathFrom(t.next, e)
  BY HeldLinks
<1> HIDE DEF s
<1>5. s \in Seq(Entries) /\ Len(s) \in Nat /\ DOMAIN s = 1 .. Len(s) /\ PathAt(s, 1) = e
  BY <1>3, LenProperties DEF IsPath
<1>6. 1 \in Int
  OBVIOUS
<1>7. CASE e = Nil
  <2>1. 1 \notin 1 .. Len(s)
    BY <1>5, <1>6, <1>7, PathAtIs
  <2>2. Len(s) = 0
    BY <1>5, <2>1
  <2>3. ToSet(s) = {}
    BY <1>5, <2>2 DEF ToSet
  <2>4. QED
    BY <1>1, <1>2, <1>3, <1>7, <2>3
<1>8. CASE e # Nil
  <2>1. 1 \in 1 .. Len(s) /\ s[1] = e
    BY <1>5, <1>6, <1>8, PathAtIs
  <2>2. e \in ToSet(s) /\ e \in Entries
    BY <1>5, <2>1, ElementOfSeq DEF ToSet
  <2>3. QED
    BY <1>1, <1>2, <1>3, <1>4, <1>8, <2>2
<1>9. QED
  BY <1>7, <1>8

Iterators == [index : Nat, this : Links, next : Links]

\* Where a loop whose iterator is h still has to go, and h itself is right:
\* its next entry is in a slot before its index.
Ahead(t, S, h) == {x \in S : x \in ToSet(PathFrom(t.next, h.next)) \/ SlotOf(t, x) >= h.index}
OnTrack(t, S, h) == h \in Iterators /\ (h.next = Nil \/ (h.next \in S /\ SlotOf(t, h.next) < h.index))

\* The first slot with a chain, from the iterator's index on.
LEMMA FirstSlot ==
  ASSUME NEW t, NEW h, h.index \in Nat, NEW rest, rest = {i \in h.index .. t.max : t.array[i] # Nil}, rest # {}
  PROVE  /\ Min(rest) \in h.index .. t.max /\ t.array[Min(rest)] # Nil
         /\ \A i \in h.index .. t.max : i < Min(rest) => t.array[i] = Nil
<1>1. rest \subseteq Nat
  OBVIOUS
<1>2. \E i \in rest : \A j \in rest : i <= j
  BY <1>1, LeastNumber
<1>3. Min(rest) \in rest /\ \A j \in rest : Min(rest) <= j
  BY <1>2 DEF Min
<1> DEFINE m == Min(rest)
<1>4. m \in h.index .. t.max /\ t.array[m] # Nil /\ \A j \in rest : m <= j
  BY <1>3
<1> HIDE DEF m
<1>5. \A i \in h.index .. t.max : i < m => ~(m <= i)
  BY <1>4
<1>6. \A i \in h.index .. t.max : i < m => t.array[i] = Nil
  BY <1>4, <1>5
<1>7. QED
  BY <1>4, <1>6 DEF m

\* ogs_hash_next leads to an iterator.
LEMMA AdvanceTypes ==
  ASSUME TableTypes(ht), NEW h \in Iterators
  PROVE  Advance(h) \in Iterators
<1>1. h.index \in Nat /\ h.this \in Links /\ h.next \in Links
  BY DEF Iterators
<1>2. ht.max \in Nat /\ ht.array \in [0 .. ht.max -> Links] /\ ht.next \in [Entries -> Links]
  BY TableSays
<1> DEFINE rest == {i \in h.index .. ht.max : ht.array[i] # Nil}
<1>3. CASE h.next # Nil
  <2>1. Advance(h) = [index |-> h.index, this |-> h.next, next |-> ht.next[h.next]]
    BY <1>3 DEF Advance
  <2>2. ht.next[h.next] \in Links
    BY <1>1, <1>2, <1>3 DEF Links
  <2>3. QED
    BY <1>1, <2>1, <2>2 DEF Iterators
<1>4. CASE h.next = Nil /\ rest # {}
  <2> DEFINE m == Min(rest)
  <2>1. Advance(h) = [index |-> m + 1, this |-> ht.array[m], next |-> ht.next[ht.array[m]]]
    BY <1>4 DEF Advance
  <2> DEFINE r1 == rest
             t == ht
  <2>2. r1 = {i \in h.index .. t.max : t.array[i] # Nil} /\ r1 # {}
    BY <1>4
  <2> HIDE DEF r1, t
  <2>3. Min(r1) \in h.index .. t.max /\ t.array[Min(r1)] # Nil
    BY <1>1, <2>2, FirstSlot
  <2>4. m \in h.index .. ht.max /\ ht.array[m] # Nil
    BY <2>3 DEF r1, t
  <2> HIDE DEF m
  <2>5. ht.array[m] \in Links /\ ht.next[ht.array[m]] \in Links
    BY <1>1, <1>2, <2>4 DEF Links
  <2>6. m + 1 \in Nat
    BY <1>1, <1>2, <2>4
  <2>7. QED
    BY <2>1, <2>5, <2>6 DEF Iterators
<1>5. CASE h.next = Nil /\ rest = {}
  <2>1. Advance(h) = NoLoop
    BY <1>5 DEF Advance
  <2>2. QED
    BY <2>1 DEF NoLoop, Iterators, Links
<1>6. QED
  BY <1>3, <1>4, <1>5

\* From h on, g is the iterator of the next visit: of an entry that is still
\* ahead of h, and of which g has only that one left behind it.
Advances(t, S, h, g) ==
  /\ g.this = Nil => Ahead(t, S, h) = {}
  /\ g.this # Nil => /\ g.this \in Ahead(t, S, h) /\ OnTrack(t, S, g)
                     /\ Ahead(t, S, g) = Ahead(t, S, h) \ {g.this}

\* ogs_hash_next visits an entry that was still ahead, and only at the end of
\* the loop there is none.
LEMMA AdvanceIs ==
  ASSUME NEW C, NEW F, NEW S, Holds(ht, C, F, S), NEW h, OnTrack(ht, S, h), NEW g, g = Advance(h)
  PROVE  Advances(ht, S, h, g)
<1> DEFINE t == ht
           link == t.next
           rest == {i \in h.index .. t.max : t.array[i] # Nil}
<1>1. /\ t.max \in Nat /\ t.array \in [0 .. t.max -> Links] /\ t.next \in [Entries -> Links]
      /\ TableTypes(t)
  BY TableSays DEF Holds
<1>2. h.index \in Nat /\ h.this \in Links /\ h.next \in Links /\ h \in Iterators
  BY DEF OnTrack, Iterators
<1>3. S \subseteq Entries /\ \A x \in S : t.key[x] \in Keys /\ x # Nil
  BY KeyIs, EntriesAre
<1>4. \A x \in S : SlotOf(t, x) \in 0 .. t.max
  BY <1>1, <1>3, BucketIs DEF SlotOf
<1>5. g \in Iterators
  BY <1>1, <1>2, AdvanceTypes
<1>6. PathFrom(link, Nil) = << >> /\ ToSet(<< >>) = {}
  <2>1. Grounded(link) /\ Nil \in Links
    BY HeldLinks DEF Links
  <2>2. PathFrom(link, Nil) = << >>
    BY <2>1, PathFromIs
  <2>3. QED
    BY <2>2 DEF ToSet
<1>7. CASE h.next # Nil
  <2> DEFINE e == h.next
             u == PathFrom(link, link[e])
  <2>1. g = [index |-> h.index, this |-> e, next |-> link[e]]
    BY <1>7 DEF Advance
  <2>2. e \in S /\ SlotOf(t, e) < h.index
    BY <1>7 DEF OnTrack
  <2>3. /\ link[e] \in Links /\ e \notin ToSet(u)
        /\ \A x : x \in ToSet(PathFrom(link, e)) <=> x = e \/ x \in ToSet(u)
        /\ \A x \in ToSet(PathFrom(link, e)) : x \in S /\ SlotOf(t, x) = SlotOf(t, e)
        /\ link[e] # Nil => link[e] \in ToSet(u)
    BY <2>2, RestOfChain
  <2>4. g.index = h.index /\ g.this = e /\ g.next = link[e]
    BY <2>1
  <2> HIDE DEF e, u, link
  <2>5. e \in Ahead(t, S, h)
    BY <2>2, <2>3 DEF Ahead, e, link
  <2>6. OnTrack(t, S, g)
    BY <1>5, <2>2, <2>3, <2>4 DEF OnTrack
  <2>7. ~(SlotOf(t, e) >= h.index)
    BY <1>2, <1>4, <2>2
  <2>8. \A x : x \in Ahead(t, S, g) <=> x \in Ahead(t, S, h) /\ x # e
    <3>1. \A x : x \in Ahead(t, S, g) <=> x \in S /\ (x \in ToSet(u) \/ SlotOf(t, x) >= h.index)
      BY <2>4 DEF Ahead, u, link
    <3>2. \A x : x \in Ahead(t, S, h) <=> x \in S /\ (x \in ToSet(PathFrom(link, e)) \/ SlotOf(t, x) >= h.index)
      BY DEF Ahead, e, link
    <3>3. QED
      BY <2>3, <2>7, <3>1, <3>2
  <2>9. Ahead(t, S, g) = Ahead(t, S, h) \ {e}
    BY <2>8
  <2>10. g.this # Nil
    BY <1>7, <2>4 DEF e
  <2>11. QED
    BY <2>4, <2>5, <2>6, <2>9, <2>10 DEF Advances
<1>8. CASE h.next = Nil /\ rest # {}
  <2> DEFINE m == Min(rest)
             e == t.array[m]
             u == PathFrom(link, link[e])
  <2>1. g = [index |-> m + 1, this |-> e, next |-> link[e]]
    BY <1>8 DEF Advance
  <2>2. m \in h.index .. t.max /\ e # Nil /\ \A i \in h.index .. t.max : i < m => t.array[i] = Nil
    <3> DEFINE r1 == rest
               t1 == t
    <3>1. r1 = {i \in h.index .. t1.max : t1.array[i] # Nil} /\ r1 # {}
      BY <1>8
    <3> HIDE DEF r1, t1
    <3>2. /\ Min(r1) \in h.index .. t1.max /\ t1.array[Min(r1)] # Nil
          /\ \A i \in h.index .. t1.max : i < Min(r1) => t1.array[i] = Nil
      BY <1>2, <3>1, FirstSlot
    <3>3. QED
      BY <3>2 DEF r1, t1
  <2> HIDE DEF m
  <2>3. m \in 0 .. t.max /\ m + 1 \in Nat
    BY <1>1, <1>2, <2>2
  <2>4. /\ e \in S /\ SlotOf(t, e) = m
        /\ \A x \in S : SlotOf(t, x) = m <=> x \in ToSet(PathFrom(link, e))
    <3> DEFINE e1 == e
    <3>1. e1 = t.array[m] /\ e1 # Nil
      BY <2>2
    <3> HIDE DEF e1
    <3>2. /\ e1 \in S /\ SlotOf(t, e1) = m
          /\ \A x \in S : SlotOf(t, x) = m <=> x \in ToSet(PathFrom(t.next, e1))
      BY <2>3, <3>1, HeadOf
    <3>3. QED
      BY <3>2 DEF e1
  <2>5. /\ link[e] \in Links /\ e \notin ToSet(u)
        /\ \A x : x \in ToSet(PathFrom(link, e)) <=> x = e \/ x \in ToSet(u)
        /\ \A x \in ToSet(PathFrom(link, e)) : x \in S /\ SlotOf(t, x) = SlotOf(t, e)
        /\ link[e] # Nil => link[e] \in ToSet(u)
    BY <2>4, RestOfChain
  <2>6. g.index = m + 1 /\ g.this = e /\ g.next = link[e]
    BY <2>1
  <2>7. \A x \in S : SlotOf(t, x) >= h.index => SlotOf(t, x) >= m
    <3>1. SUFFICES ASSUME NEW x \in S, SlotOf(t, x) >= h.index, ~(SlotOf(t, x) >= m) PROVE FALSE
      OBVIOUS
    <3> DEFINE i == SlotOf(t, x)
    <3>2. i \in 0 .. t.max /\ i >= h.index /\ ~(i >= m)
      BY <1>4, <3>1
    <3> HIDE DEF i
    <3>3. i \in h.index .. t.max /\ i < m
      BY <1>1, <1>2, <2>3, <3>2
    <3>4. t.array[i] = Nil
      BY <2>2, <3>3
    <3>5. SlotOf(t, x) # i
      <4> DEFINE none == t.array[i]
      <4>1. none = t.array[i] /\ none = Nil
        BY <3>4
      <4> HIDE DEF none
      <4>2. QED
        BY <3>1, <3>2, <4>1, HeadOf
    <3>6. QED
      BY <3>5 DEF i
  <2> HIDE DEF e, u, link
  <2>8. \A x : x \in Ahead(t, S, h) <=> x \in S /\ SlotOf(t, x) >= m
    <3>1. \A x : x \in Ahead(t, S, h) <=> x \in S /\ SlotOf(t, x) >= h.index
      BY <1>6, <1>8 DEF Ahead, link
    <3>2. \A x \in S : SlotOf(t, x) >= m => SlotOf(t, x) >= h.index
      BY <1>2, <1>4, <2>2
    <3>3. QED
      BY <2>7, <3>1, <3>2
  <2>9. e \in Ahead(t, S, h)
    BY <2>3, <2>4, <2>8
  <2>10. OnTrack(t, S, g)
    <3>1. m < m + 1
      BY <2>3
    <3>2. link[e] # Nil => link[e] \in S /\ SlotOf(t, link[e]) = m
      BY <2>4, <2>5
    <3>3. QED
      BY <1>5, <2>6, <3>1, <3>2 DEF OnTrack
  <2>11. \A x \in S : SlotOf(t, x) >= m <=> SlotOf(t, x) = m \/ SlotOf(t, x) >= m + 1
    BY <1>4, <2>3
  <2>12. \A x : x \in Ahead(t, S, g) <=> x \in Ahead(t, S, h) /\ x # e
    <3>1. \A x : x \in Ahead(t, S, g) <=> x \in S /\ (x \in ToSet(u) \/ SlotOf(t, x) >= m + 1)
      BY <2>6 DEF Ahead, u, link
    <3>2. ~(SlotOf(t, e) >= m + 1)
      BY <2>3, <2>4
    <3>3. QED
      BY <2>4, <2>5, <2>8, <2>11, <3>1, <3>2
  <2>13. Ahead(t, S, g) = Ahead(t, S, h) \ {e}
    BY <2>12
  <2>14. QED
    BY <2>2, <2>6, <2>9, <2>10, <2>13 DEF Advances
<1>9. CASE h.next = Nil /\ rest = {}
  <2>1. g.this = Nil
    BY <1>9 DEF Advance, NoLoop
  <2>2. \A x \in S : ~(SlotOf(t, x) >= h.index)
    <3>1. SUFFICES ASSUME NEW x \in S, SlotOf(t, x) >= h.index PROVE FALSE
      OBVIOUS
    <3> DEFINE i == SlotOf(t, x)
    <3>2. i \in 0 .. t.max /\ i >= h.index
      BY <1>4, <3>1
    <3> HIDE DEF i
    <3>3. i \in h.index .. t.max
      BY <1>1, <1>2, <3>2
    <3>4. t.array[i] = Nil
      BY <1>9, <3>3
    <3>5. SlotOf(t, x) # i
      <4> DEFINE none == t.array[i]
      <4>1. none = t.array[i] /\ none = Nil
        BY <3>4
      <4> HIDE DEF none
      <4>2. QED
        BY <3>1, <3>2, <4>1, HeadOf
    <3>6. QED
      BY <3>5 DEF i
  <2>3. Ahead(t, S, h) = {}
    BY <1>6, <1>9, <2>2 DEF Ahead
  <2>4. QED
    BY <2>1, <2>3 DEF Advances
<1>10. QED
  BY <1>7, <1>8, <1>9

-----------------------------------------------------------------------------
(* The invariant                                                           *)

\* While a loop goes on whose body did no harm, its iterator is right, it is
\* past the entry it visits, and it has still to visit the keys ahead.
Tracks(t, h, how, left, harm, S) ==
  how # "no" /\ ~harm => /\ OnTrack(t, S, h) /\ h.this \notin Ahead(t, S, h)
                         /\ left = {t.key[x] : x \in Ahead(t, S, h)}

\* The table holds some entries in its chains and its free list, and is not too
\* full, so that only a call that adds a key makes the array grow.
Sound(t, h, how, left, harm) ==
  /\ \E C, F, S : Holds(t, C, F, S) /\ Tracks(t, h, how, left, harm, S)
  /\ t.count <= t.max
  /\ h \in Iterators /\ how \in {"no", "table", "do"} /\ left \subseteq Keys /\ harm \in BOOLEAN

HashInv == Sound(ht, hi, looping, todo, meddled)

\* The keys that are there are those of the entries.
LEMMA PresentAre ==
  ASSUME NEW t, NEW C, NEW F, NEW S, Holds(t, C, F, S)
  PROVE  Present(t) = {t.key[x] : x \in S}
<1>1. \A x \in S : t.key[x] \in Keys
  BY KeyIs
<1>2. \A k \in Keys : FindEntry(t, k) # Nil => \E x \in S : t.key[x] = k
  BY FindIs
<1>3. \A x \in S : FindEntry(t, t.key[x]) # Nil
  <2>1. TAKE x \in S
  <2>2. FindEntry(t, t.key[x]) = x /\ x # Nil
    BY <1>1, KeyIs, FindIs, EntriesAre
  <2>3. QED
    BY <2>2
<1>4. Present(t) \subseteq {t.key[x] : x \in S}
  BY <1>2 DEF Present
<1>5. {t.key[x] : x \in S} \subseteq Present(t)
  BY <1>1, <1>3 DEF Present
<1>6. QED
  BY <1>4, <1>5

\* At its start a loop has all entries ahead.
LEMMA StartAhead ==
  ASSUME NEW t, NEW C, NEW F, NEW S, Holds(t, C, F, S)
  PROVE  OnTrack(t, S, NoLoop) /\ Ahead(t, S, NoLoop) = S
<1>1. NoLoop.index = 0 /\ NoLoop.next = Nil /\ NoLoop \in Iterators
  BY DEF NoLoop, Iterators, Links
<1>2. \A x \in S : SlotOf(t, x) >= 0
  <2>1. t.max \in Nat /\ \A x \in S : t.key[x] \in Keys
    BY KeyIs, TableSays DEF Holds
  <2>2. \A x \in S : SlotOf(t, x) \in 0 .. t.max
    BY <2>1, BucketIs DEF SlotOf
  <2>3. QED
    BY <2>1, <2>2
<1>3. QED
  BY <1>1, <1>2 DEF OnTrack, Ahead

\* What a loop has ahead is what it was without the entry removed, unless that
\* was ahead.
LEMMA AheadAfterLoss ==
  ASSUME NEW t, NEW C, NEW F, NEW S, Holds(t, C, F, S), NEW e \in S, NEW r, Loses(t, S, e, r),
         NEW h, OnTrack(t, S, h), e \notin Ahead(t, S, h), NEW T, T = S \ {e}
  PROVE  /\ OnTrack(r, T, h) /\ Ahead(r, T, h) = Ahead(t, S, h)
         /\ \A x \in Ahead(t, S, h) : r.key[x] = t.key[x]
<1>1. /\ r.max = t.max /\ \A x \in T : r.key[x] = t.key[x]
      /\ \A g \in Links : e \notin ToSet(PathFrom(t.next, g)) => PathFrom(r.next, g) = PathFrom(t.next, g)
  BY DEF Loses
<1>2. \A x \in T : SlotOf(r, x) = SlotOf(t, x)
  BY <1>1 DEF SlotOf, Bucket
<1>3. e \notin ToSet(PathFrom(t.next, h.next))
  BY DEF Ahead
<1>4. h.next \in Links /\ h \in Iterators
  BY DEF OnTrack, Iterators
<1>5. PathFrom(r.next, h.next) = PathFrom(t.next, h.next)
  BY <1>1, <1>3, <1>4
<1>6. h.next # e
  <2>1. e \in ToSet(PathFrom(t.next, e))
    <3> DEFINE u == PathFrom(t.next, t.next[e])
    <3>1. u = PathFrom(t.next, t.next[e])
      OBVIOUS
    <3> HIDE DEF u
    <3>2. \A x : x \in ToSet(PathFrom(t.next, e)) <=> x = e \/ x \in ToSet(u)
      BY <3>1, RestOfChain
    <3>3. QED
      BY <3>2
  <2>2. QED
    BY <1>3, <2>1
<1>7. OnTrack(r, T, h)
  BY <1>2, <1>4, <1>6 DEF OnTrack
<1>8. \A x : x \in Ahead(r, T, h) <=> x \in Ahead(t, S, h)
  <2>1. \A x : x \in Ahead(r, T, h) <=> x \in T /\ (x \in ToSet(PathFrom(t.next, h.next)) \/ SlotOf(t, x) >= h.index)
    BY <1>2, <1>5 DEF Ahead
  <2>2. QED
    BY <2>1 DEF Ahead
<1>9. Ahead(r, T, h) = Ahead(t, S, h)
  BY <1>8
<1>10. \A x \in Ahead(t, S, h) : x \in T
  BY DEF Ahead
<1>11. QED
  BY <1>1, <1>7, <1>9, <1>10

\* The table of a call that stores something, its array grown if it was too full.
LEMMA StoreIs ==
  ASSUME NEW t, NEW C, NEW F, NEW S, Holds(t, C, F, S), Store(t), t.count <= t.max + 1, hi \in Iterators
  PROVE  /\ (\E D, G : Holds(ht', D, G, S)) /\ MapOf(ht') = MapOf(t)
         /\ ht'.count <= ht'.max /\ hi' \in Iterators
<1>1. t.max \in Nat /\ t.count \in Nat
  BY TableSays DEF Holds
<1>2. CASE TooFull(t)
  <2> DEFINE r == Expanded(t)
  <2>1. ht' = r /\ hi' = Rewound(t)
    BY <1>2 DEF Store
  <2>2. Grows(t, S, r)
    BY ExpandedIs
  <2> HIDE DEF r
  <2>3. PICK D, G : Holds(r, D, G, S)
    BY <2>2 DEF Grows
  <2>4. r.max = t.max * 2 + 1 /\ r.count = t.count /\ r.key = t.key /\ r.val = t.val
    BY <2>2 DEF Grows
  <2>5. MapOf(r) = MapOf(t)
    BY <2>3, <2>4, SameMap
  <2>6. r.count <= r.max
    BY <1>1, <2>4
  <2>7. Rewound(t) \in Iterators
    BY <1>1 DEF Rewound, Iterators, Links
  <2>8. QED
    BY <2>1, <2>3, <2>5, <2>6, <2>7
<1>3. CASE ~TooFull(t)
  <2>1. ht' = t /\ hi' = hi
    BY <1>3 DEF Store
  <2>2. t.count <= t.max
    BY <1>1, <1>3 DEF TooFull
  <2>3. QED
    BY <2>1, <2>2
<1>4. QED
  BY <1>2, <1>3

\* Adding a key.
LEMMA AddStep ==
  ASSUME HashInv, NEW k \in Keys, NEW v \in Vals, FindEntry(ht, k) = Nil, Store(Added(ht, k, v)),
         Meddles(TRUE), UNCHANGED <<looping, todo>>
  PROVE  HashInv' /\ MapOf(ht') = [MapOf(ht) EXCEPT ![k] = v]
<1> DEFINE t == ht
           a == Added(t, k, v)
<1>1. PICK C, F, S : Holds(t, C, F, S)
  BY DEF HashInv, Sound
<1>2. PICK e : Gains(t, S, k, v, e, a)
  <2>1. a = Added(t, k, v)
    OBVIOUS
  <2> HIDE DEF a
  <2>2. QED
    BY <1>1, <2>1, AddedIs
<1> HIDE DEF a
<1>3. \A x \in S : t.key[x] # k
  BY <1>1, FindIs
<1>4. MapOf(a) = [MapOf(t) EXCEPT ![k] = v]
  BY <1>1, <1>2, <1>3, AddedMap
<1>5. PICK D, G : Holds(a, D, G, S \cup {e})
  BY <1>2 DEF Gains
<1>6. a.count <= a.max + 1
  <2>1. a.max = t.max /\ a.count = t.count + 1
    BY <1>2 DEF Gains
  <2>2. t.max \in Nat /\ t.count \in Nat
    BY <1>1, TableSays DEF Holds
  <2>3. t.count <= t.max
    BY DEF HashInv, Sound
  <2>4. QED
    BY <2>1, <2>2, <2>3
<1>7. hi \in Iterators /\ looping \in {"no", "table", "do"} /\ todo \subseteq Keys /\ meddled \in BOOLEAN
  BY DEF HashInv, Sound
<1>8. Store(a)
  BY DEF a
<1> DEFINE T == S \cup {e}
<1> HIDE DEF T
<1>9. Holds(a, D, G, T)
  BY <1>5 DEF T
<1>10. /\ (\E D1, G1 : Holds(ht', D1, G1, T)) /\ MapOf(ht') = MapOf(a)
       /\ ht'.count <= ht'.max /\ hi' \in Iterators
  BY <1>6, <1>7, <1>8, <1>9, StoreIs
<1>11. looping' = looping /\ todo' = todo /\ meddled' = (meddled \/ looping # "no") /\ meddled' \in BOOLEAN
  <2>1. looping' = looping /\ todo' = todo /\ meddled' = (meddled \/ (looping # "no" /\ TRUE))
    BY DEF Meddles
  <2>2. meddled' = (meddled \/ looping # "no")
    BY <2>1, Zenon
  <2>3. (meddled \/ looping # "no") \in BOOLEAN
    BY Zenon
  <2>4. QED
    BY <2>1, <2>2, <2>3, Zenon
<1>12. \A W : Tracks(ht', hi', looping', todo', meddled', W)
  BY <1>11 DEF Tracks
<1>13. Sound(ht', hi', looping', todo', meddled')
  BY <1>7, <1>10, <1>11, <1>12 DEF Sound
<1>14. HashInv'
  BY <1>13 DEF HashInv
<1>15. QED
  BY <1>4, <1>10, <1>14

\* A call that changes nothing of the table and of the loop.
LEMMA SameStep ==
  ASSUME HashInv, UNCHANGED <<ht, hi, looping, todo, meddled>>
  PROVE  HashInv' /\ MapOf(ht') = MapOf(ht)
<1>1. ht' = ht /\ hi' = hi /\ looping' = looping /\ todo' = todo /\ meddled' = meddled
  OBVIOUS
<1>2. Sound(ht', hi', looping', todo', meddled')
  BY <1>1 DEF HashInv
<1>3. QED
  BY <1>1, <1>2 DEF HashInv

\* What Meddles says when its argument is known.
LEMMA MeddlesIs ==
  ASSUME NEW b, meddled \in BOOLEAN, Meddles(b)
  PROVE  meddled' \in BOOLEAN /\ (~b => meddled' = meddled) /\ (b /\ looping # "no" => meddled')
<1>1. meddled' = (meddled \/ (looping # "no" /\ b))
  BY DEF Meddles
<1>2. meddled' \in BOOLEAN
  BY <1>1, Zenon
<1>3. ~b => meddled' = meddled
  BY <1>1, Zenon
<1>4. b /\ looping # "no" => meddled'
  BY <1>1, Zenon
<1>5. QED
  BY <1>2, <1>3, <1>4, Zenon

\* ogs_hash_set of a key that is there.
LEMMA StoreStep ==
  ASSUME HashInv, NEW k \in Keys, NEW v \in Vals, FindEntry(ht, k) # Nil,
         Store([ht EXCEPT !.val[FindEntry(ht, k)] = v]),
         Meddles(FALSE), UNCHANGED <<looping, todo>>
  PROVE  HashInv' /\ MapOf(ht') = [MapOf(ht) EXCEPT ![k] = v]
<1> DEFINE t == ht
           e == FindEntry(t, k)
           r == [t EXCEPT !.val[e] = v]
<1>1. PICK C, F, S : Holds(t, C, F, S) /\ Tracks(t, hi, looping, todo, meddled, S)
  BY DEF HashInv, Sound
<1>2. e \in S /\ t.key[e] = k
  BY <1>1, FindIs
<1>3. Store(r)
  OBVIOUS
<1>4. r = [t EXCEPT !.val[e] = v]
  OBVIOUS
<1> HIDE DEF e, r
<1>5. Stores(t, C, F, S, e, v, r)
  BY <1>1, <1>2, <1>4, StoredIs
<1>6. MapOf(r) = [MapOf(t) EXCEPT ![k] = v]
  BY <1>1, <1>2, <1>5, StoredMap
<1>7. /\ Holds(r, C, F, S)
      /\ r.max = t.max /\ r.count = t.count /\ r.key = t.key /\ r.next = t.next
  BY <1>5 DEF Stores
<1>8. /\ t.count <= t.max /\ hi \in Iterators /\ looping \in {"no", "table", "do"}
      /\ todo \subseteq Keys /\ meddled \in BOOLEAN
  BY DEF HashInv, Sound
<1>9. ~TooFull(r)
  <2>1. t.max \in Nat /\ t.count \in Nat
    BY <1>1, TableSays DEF Holds
  <2>2. QED
    BY <1>7, <1>8, <2>1 DEF TooFull
<1>10. ht' = r /\ hi' = hi /\ looping' = looping /\ todo' = todo
  BY <1>3, <1>9 DEF Store
<1>11. meddled' = meddled
  BY <1>8, MeddlesIs
<1>12. Tracks(r, hi, looping, todo, meddled, S)
  <2>1. \A x : SlotOf(r, x) = SlotOf(t, x)
    BY <1>7 DEF SlotOf, Bucket
  <2>2. Ahead(r, S, hi) = Ahead(t, S, hi)
    BY <1>7, <2>1 DEF Ahead
  <2>3. OnTrack(t, S, hi) => OnTrack(r, S, hi)
    BY <2>1 DEF OnTrack
  <2>4. \A x : r.key[x] = t.key[x]
    BY <1>7
  <2>5. QED
    BY <1>1, <2>2, <2>3, <2>4 DEF Tracks
<1>13. Sound(r, hi, looping, todo, meddled)
  BY <1>7, <1>8, <1>12 DEF Sound
<1>14. Sound(ht', hi', looping', todo', meddled')
  BY <1>10, <1>11, <1>13
<1>15. QED
  BY <1>6, <1>10, <1>14 DEF HashInv

\* ogs_hash_set to a value.
LEMMA SetStep ==
  ASSUME HashInv, NEW k \in Keys, NEW v \in Vals, Set(k, v)
  PROVE  HashInv' /\ MapOf(ht') = [MapOf(ht) EXCEPT ![k] = v] /\ answer' = Nil
<1>1. answer' = Nil /\ UNCHANGED <<looping, todo>>
  BY DEF Set
<1>2. CASE FindEntry(ht, k) = Nil
  <2>1. Store(Added(ht, k, v)) /\ Meddles(TRUE)
    BY <1>2 DEF Set, Meddles
  <2>2. QED
    BY <1>1, <1>2, <2>1, AddStep
<1>3. CASE FindEntry(ht, k) # Nil
  <2>1. Store([ht EXCEPT !.val[FindEntry(ht, k)] = v]) /\ Meddles(FALSE)
    BY <1>3 DEF Set, Meddles
  <2>2. QED
    BY <1>1, <1>3, <2>1, StoreStep
<1>4. QED
  BY <1>2, <1>3

\* ogs_hash_get_or_set
LEMMA GetOrSetStep ==
  ASSUME HashInv, NEW k \in Keys, NEW v \in Vals, GetOrSet(k, v)
  PROVE  /\ HashInv' /\ answer' = MapOf(ht')[k]
         /\ MapOf(ht') = IF MapOf(ht)[k] = Nil THEN [MapOf(ht) EXCEPT ![k] = v] ELSE MapOf(ht)
<1>1. UNCHANGED <<looping, todo>>
  BY DEF GetOrSet
<1>2. PICK C, F, S : Holds(ht, C, F, S)
  BY DEF HashInv, Sound
<1>3. MapOf(ht) \in [Keys -> {Value(ht, j) : j \in Keys}] /\ MapOf(ht)[k] = Value(ht, k)
  BY DEF MapOf
<1>4. CASE FindEntry(ht, k) = Nil
  <2>1. Store(Added(ht, k, v)) /\ Meddles(TRUE) /\ answer' = v
    BY <1>4 DEF GetOrSet, Meddles
  <2>2. HashInv' /\ MapOf(ht') = [MapOf(ht) EXCEPT ![k] = v]
    BY <1>1, <1>4, <2>1, AddStep
  <2>3. Value(ht, k) = Nil
    BY <1>4 DEF Value
  <2>4. MapOf(ht')[k] = v
    BY <1>3, <2>2
  <2>5. QED
    BY <1>3, <2>1, <2>2, <2>3, <2>4
<1>5. CASE FindEntry(ht, k) # Nil
  <2>1. Store(ht) /\ Meddles(FALSE) /\ answer' = Value(ht, k)
    BY <1>5 DEF GetOrSet, Meddles
  <2>2. ht.max \in Nat /\ ht.count \in Nat
    BY <1>2, TableSays DEF Holds
  <2>3. ~TooFull(ht) /\ meddled \in BOOLEAN
    BY <2>2 DEF TooFull, HashInv, Sound
  <2>4. ht' = ht /\ hi' = hi
    BY <2>1, <2>3 DEF Store
  <2>5. meddled' = meddled
    BY <2>1, <2>3, MeddlesIs
  <2>6. HashInv' /\ MapOf(ht') = MapOf(ht)
    BY <1>1, <2>4, <2>5, SameStep
  <2>7. Value(ht, k) # Nil
    <3>1. FindEntry(ht, k) \in S
      BY <1>2, <1>5, FindIs
    <3>2. QED
      BY <1>2, <1>5, <3>1, KeyIs, EntriesAre DEF Value
  <2>8. QED
    BY <1>3, <2>1, <2>6, <2>7
<1>6. QED
  BY <1>4, <1>5

\* ogs_hash_set to NULL
LEMMA UnsetStep ==
  ASSUME HashInv, NEW k \in Keys, Unset(k)
  PROVE  HashInv' /\ MapOf(ht') = [MapOf(ht) EXCEPT ![k] = Nil] /\ answer' = Nil
<1> DEFINE t == ht
           e == FindEntry(t, k)
<1>1. PICK C, F, S : Holds(t, C, F, S) /\ Tracks(t, hi, looping, todo, meddled, S)
  BY DEF HashInv, Sound
<1>2. hi' = hi /\ looping' = looping /\ todo' = todo /\ answer' = Nil /\ Meddles(e \notin {Nil, hi.this})
  BY DEF Unset
<1>3. /\ t.count <= t.max /\ hi \in Iterators /\ looping \in {"no", "table", "do"}
      /\ todo \subseteq Keys /\ meddled \in BOOLEAN
  BY DEF HashInv, Sound
<1>4. CASE e = Nil
  <2>1. ht' = ht
    BY <1>4 DEF Unset
  <2>2. meddled' = meddled
    BY <1>2, <1>3, <1>4, MeddlesIs
  <2>3. HashInv' /\ MapOf(ht') = MapOf(ht)
    BY <1>2, <2>1, <2>2, SameStep
  <2>4. Value(t, k) = Nil
    BY <1>4 DEF Value
  <2>5. MapOf(t) = [MapOf(t) EXCEPT ![k] = Nil]
    BY <2>4 DEF MapOf
  <2>6. QED
    BY <1>2, <2>3, <2>5
<1>5. CASE e # Nil
  <2> DEFINE r == Removed(t, k)
             T == S \ {e}
  <2>1. ht' = r
    BY <1>5 DEF Unset
  <2>2. e \in S /\ t.key[e] = k
    BY <1>1, <1>5, FindIs
  <2> HIDE DEF e
  <2>3. Loses(t, S, e, r)
    BY <1>1, <2>2, RemovedIs
  <2> HIDE DEF r
  <2>4. MapOf(r) = [MapOf(t) EXCEPT ![k] = Nil]
    BY <1>1, <2>2, <2>3, RemovedMap
  <2>5. /\ \E D, G : Holds(r, D, G, T)
        /\ r.max = t.max /\ r.count = t.count - 1
    BY <2>3 DEF Loses
  <2>6. r.count <= r.max
    <3>1. t.max \in Nat /\ t.count \in Nat
      BY <1>1, TableSays DEF Holds
    <3>2. QED
      BY <1>3, <2>5, <3>1
  <2>7. Tracks(r, hi, looping, todo, meddled', T)
    <3>1. CASE looping = "no" \/ meddled'
      BY <3>1 DEF Tracks
    <3>2. CASE looping # "no" /\ ~meddled'
      <4>1. ~(e \notin {Nil, hi.this})
        BY <1>2, <1>3, <3>2, MeddlesIs
      <4>2. e = hi.this /\ ~meddled
        <5>1. meddled' = meddled
          BY <1>2, <1>3, <4>1, MeddlesIs
        <5>2. e \in {Nil, hi.this}
          BY <4>1
        <5>3. ~meddled
          BY <3>2, <5>1, Zenon
        <5>4. QED
          BY <1>5, <5>2, <5>3 DEF e
      <4>3. OnTrack(t, S, hi) /\ e \notin Ahead(t, S, hi) /\ todo = {t.key[x] : x \in Ahead(t, S, hi)}
        BY <1>1, <3>2, <4>2 DEF Tracks
      <4>4. /\ OnTrack(r, T, hi) /\ Ahead(r, T, hi) = Ahead(t, S, hi)
            /\ \A x \in Ahead(t, S, hi) : r.key[x] = t.key[x]
        <5> DEFINE h == hi
                   U == T
        <5>1. U = S \ {e} /\ OnTrack(t, S, h) /\ e \notin Ahead(t, S, h)
          BY <4>3
        <5> HIDE DEF h, U
        <5>2. /\ OnTrack(r, U, h) /\ Ahead(r, U, h) = Ahead(t, S, h)
              /\ \A x \in Ahead(t, S, h) : r.key[x] = t.key[x]
          BY <1>1, <2>2, <2>3, <5>1, AheadAfterLoss
        <5>3. QED
          BY <5>2 DEF h, U
      <4>5. hi.this \notin Ahead(r, T, hi) /\ todo = {r.key[x] : x \in Ahead(r, T, hi)}
        BY <4>2, <4>3, <4>4
      <4>6. QED
        BY <4>4, <4>5 DEF Tracks
    <3>3. QED
      BY <3>1, <3>2
  <2>8. meddled' \in BOOLEAN
    BY <1>2, <1>3, MeddlesIs
  <2>9. Sound(ht', hi', looping', todo', meddled')
    BY <1>2, <1>3, <2>1, <2>5, <2>6, <2>7, <2>8 DEF Sound
  <2>10. QED
    BY <1>2, <2>1, <2>4, <2>9 DEF HashInv
<1>6. QED
  BY <1>4, <1>5

\* ogs_hash_get
LEMMA GetStep ==
  ASSUME HashInv, NEW k \in Keys, Get(k)
  PROVE  HashInv' /\ MapOf(ht') = MapOf(ht) /\ answer' = MapOf(ht)[k]
<1>1. UNCHANGED <<ht, hi, looping, todo, meddled>> /\ answer' = Value(ht, k)
  BY DEF Get, loop
<1>2. MapOf(ht)[k] = Value(ht, k)
  BY DEF MapOf
<1>3. HashInv' /\ MapOf(ht') = MapOf(ht)
  BY <1>1, SameStep
<1>4. QED
  BY <1>1, <1>2, <1>3

\* ogs_hash_clear
LEMMA ClearStep ==
  ASSUME HashInv, Clear
  PROVE  HashInv' /\ MapOf(ht') = [k \in Keys |-> Nil] /\ answer' = Nil
<1> DEFINE t == ht
           r == Cleared(t)
<1>1. PICK C, F, S : Holds(t, C, F, S)
  BY DEF HashInv, Sound
<1>2. ht' = r /\ hi' = Rewound(t) /\ looping' = looping /\ todo' = todo /\ answer' = Nil /\ Meddles(TRUE)
  BY DEF Clear
<1>3. /\ t.count <= t.max /\ hi \in Iterators /\ looping \in {"no", "table", "do"}
      /\ todo \subseteq Keys /\ meddled \in BOOLEAN
  BY DEF HashInv, Sound
<1>4. (\E D, G : Holds(r, D, G, {})) /\ r.max = t.max /\ r.count = 0
  <2>1. r = Cleared(t)
    OBVIOUS
  <2> HIDE DEF r
  <2>2. \E D, G : Holds(r, D, G, {})
    BY <1>1, <2>1, ClearedIs
  <2>3. r.max = t.max /\ r.count = 0
    BY <1>1, <2>1, ClearedIs
  <2>4. QED
    BY <2>2, <2>3
<1> HIDE DEF r
<1>5. t.max \in Nat
  BY <1>1, TableSays DEF Holds
<1>6. Rewound(t) \in Iterators
  BY <1>3, <1>5 DEF Rewound, Iterators, Links
<1>7. meddled' \in BOOLEAN /\ (looping # "no" => meddled')
  BY <1>2, <1>3, MeddlesIs
<1>8. \A W : Tracks(ht', hi', looping', todo', meddled', W)
  BY <1>2, <1>7 DEF Tracks
<1>9. Sound(ht', hi', looping', todo', meddled')
  BY <1>2, <1>3, <1>4, <1>5, <1>6, <1>7, <1>8 DEF Sound
<1>10. MapOf(r) = [k \in Keys |-> Nil]
  <2>1. PICK D, G : Holds(r, D, G, {})
    BY <1>4
  <2>2. \A k \in Keys : Value(r, k) = Nil
    BY <2>1, ValueIs
  <2>3. QED
    BY <2>2 DEF MapOf
<1>11. QED
  BY <1>2, <1>9, <1>10 DEF HashInv

\* A step of a loop: from h, of which the keys of left are still ahead.
LEMMA VisitStep ==
  ASSUME HashInv, NEW h \in Iterators, NEW how \in {"table", "do"}, NEW left \in SUBSET Keys,
         Visit(Advance(h), how, left), meddled' \in BOOLEAN,
         ~meddled' => \A C, F, S : Holds(ht, C, F, S) => OnTrack(ht, S, h) /\ left = {ht.key[x] : x \in Ahead(ht, S, h)}
  PROVE  /\ HashInv' /\ ht' = ht /\ answer' = answer
         /\ ~meddled' => IF looping' = "no" THEN left = {} ELSE ht.key[hi'.this] \in left
<1> DEFINE g == Advance(h)
<1>1. PICK C, F, S : Holds(ht, C, F, S)
  BY DEF HashInv, Sound
<1>2. /\ hi' = g /\ looping' = (IF g.this = Nil THEN "no" ELSE how)
      /\ todo' = (IF g.this = Nil THEN {} ELSE left \ {ht.key[g.this]})
      /\ ht' = ht /\ answer' = answer
  BY DEF Visit
<1>3. g \in Iterators
  BY <1>1, AdvanceTypes DEF Holds
<1>4. g = Advance(h)
  OBVIOUS
<1> HIDE DEF g
<1>5. ASSUME ~meddled'
      PROVE  /\ IF looping' = "no" THEN left = {} ELSE ht.key[g.this] \in left
             /\ Tracks(ht, g, looping', todo', meddled', S)
  <2>1. OnTrack(ht, S, h) /\ left = {ht.key[x] : x \in Ahead(ht, S, h)}
    BY <1>1, <1>5
  <2>2. Advances(ht, S, h, g)
    BY <1>1, <1>4, <2>1, AdvanceIs
  <2>3. CASE g.this = Nil
    BY <1>2, <2>1, <2>2, <2>3 DEF Advances, Tracks
  <2>4. CASE g.this # Nil
    <3>1. /\ g.this \in Ahead(ht, S, h) /\ OnTrack(ht, S, g)
          /\ Ahead(ht, S, g) = Ahead(ht, S, h) \ {g.this}
      BY <2>2, <2>4 DEF Advances
    <3>2. ht.key[g.this] \in left /\ looping' # "no"
      BY <1>2, <2>1, <2>4, <3>1
    <3>3. \A x, y \in Ahead(ht, S, h) : ht.key[x] = ht.key[y] => x = y
      BY <1>1, KeyIs DEF Ahead
    <3>4. left \ {ht.key[g.this]} = {ht.key[x] : x \in Ahead(ht, S, g)}
      BY <2>1, <3>1, <3>3
    <3>5. Tracks(ht, g, looping', todo', meddled', S)
      BY <1>2, <2>4, <3>1, <3>4 DEF Tracks
    <3>6. QED
      BY <3>2, <3>5
  <2>5. QED
    BY <2>3, <2>4
<1>6. Tracks(ht, g, looping', todo', meddled', S)
  <2>1. CASE meddled'
    BY <2>1 DEF Tracks
  <2>2. QED
    BY <1>5, <2>1
<1>7. ht.count <= ht.max /\ looping' \in {"no", "table", "do"} /\ todo' \subseteq Keys
  <2>1. ht.count <= ht.max
    BY DEF HashInv, Sound
  <2>2. QED
    BY <1>2, <2>1
<1>8. Sound(ht, g, looping', todo', meddled')
  BY <1>1, <1>3, <1>6, <1>7 DEF Sound
<1>9. Sound(ht', hi', looping', todo', meddled')
  BY <1>2, <1>8
<1>10. HashInv'
  BY <1>9 DEF HashInv
<1>11. QED
  BY <1>2, <1>5, <1>10

\* ogs_hash_first, or the start of ogs_hash_do
LEMMA StartLoopStep ==
  ASSUME HashInv, NEW how \in {"table", "do"}, StartLoop(how)
  PROVE  HashInv' /\ ht' = ht /\ answer' = answer
<1>1. Visit(Advance(NoLoop), how, Present(ht)) /\ meddled' = FALSE
  BY DEF StartLoop
<1>2. NoLoop \in Iterators
  BY DEF NoLoop, Iterators, Links
<1>3. Present(ht) \in SUBSET Keys
  BY DEF Present
<1>4. \A C, F, S : Holds(ht, C, F, S) =>
        OnTrack(ht, S, NoLoop) /\ Present(ht) = {ht.key[x] : x \in Ahead(ht, S, NoLoop)}
  <2>1. TAKE C, F, S
  <2>2. HAVE Holds(ht, C, F, S)
  <2>3. OnTrack(ht, S, NoLoop) /\ Ahead(ht, S, NoLoop) = S
    BY <2>2, StartAhead
  <2>4. Present(ht) = {ht.key[x] : x \in S}
    BY <2>2, PresentAre
  <2>5. QED
    BY <2>3, <2>4
<1> DEFINE h == NoLoop
           left == Present(ht)
<1>5. /\ Visit(Advance(h), how, left) /\ h \in Iterators /\ left \in SUBSET Keys /\ meddled' \in BOOLEAN
      /\ \A C, F, S : Holds(ht, C, F, S) => OnTrack(ht, S, h) /\ left = {ht.key[x] : x \in Ahead(ht, S, h)}
  BY <1>1, <1>2, <1>3, <1>4
<1> HIDE DEF h, left
<1>6. QED
  BY <1>5, VisitStep

\* ogs_hash_next
LEMMA ContinueStep ==
  ASSUME HashInv, Continue
  PROVE  /\ HashInv' /\ ht' = ht /\ answer' = answer
         /\ ~meddled => IF looping' = "no" THEN todo = {} ELSE ht.key[hi'.this] \in todo
<1>1. looping # "no" /\ Visit(Advance(hi), looping, todo) /\ meddled' = meddled
  BY DEF Continue
<1>2. /\ hi \in Iterators /\ looping \in {"no", "table", "do"} /\ todo \subseteq Keys /\ meddled \in BOOLEAN
  BY DEF HashInv, Sound
<1>3. PICK C, F, S : Holds(ht, C, F, S) /\ Tracks(ht, hi, looping, todo, meddled, S)
  BY DEF HashInv, Sound
<1>4. ASSUME ~meddled, NEW D, NEW G, NEW T, Holds(ht, D, G, T)
      PROVE  OnTrack(ht, T, hi) /\ todo = {ht.key[x] : x \in Ahead(ht, T, hi)}
  <2>1. T = S
    <3>1. ToSet(AllEntries(ht)) = S
      BY <1>3, AllEntriesAre
    <3>2. ToSet(AllEntries(ht)) = T
      BY <1>4, AllEntriesAre
    <3>3. QED
      BY <3>1, <3>2
  <2>2. QED
    BY <1>1, <1>3, <1>4, <2>1 DEF Tracks
<1> DEFINE h == hi
           how == looping
           left == todo
<1>5. /\ Visit(Advance(h), how, left) /\ h \in Iterators /\ how \in {"table", "do"}
      /\ left \in SUBSET Keys /\ meddled' \in BOOLEAN
  BY <1>1, <1>2
<1>6. ~meddled' => \A D, G, T : Holds(ht, D, G, T) => OnTrack(ht, T, h) /\ left = {ht.key[x] : x \in Ahead(ht, T, h)}
  <2>1. CASE meddled
    BY <1>1, <2>1, Zenon
  <2>2. CASE ~meddled
    BY <1>4, <2>2
  <2>3. QED
    BY <2>1, <2>2
<1> HIDE DEF h, how, left
<1>7. /\ HashInv' /\ ht' = ht /\ answer' = answer
      /\ ~meddled' => IF looping' = "no" THEN left = {} ELSE ht.key[hi'.this] \in left
  BY <1>5, <1>6, VisitStep
<1>8. ~meddled => ~meddled'
  BY <1>1, Zenon
<1>9. QED
  BY <1>7, <1>8 DEF left

\* A loop that its body breaks out of.
LEMMA BreakStep ==
  ASSUME HashInv, Break
  PROVE  HashInv' /\ ht' = ht /\ answer' = answer
<1>1. /\ hi' = NoLoop /\ looping' = "no" /\ todo' = {} /\ meddled' = FALSE
      /\ ht' = ht /\ answer' = answer
  BY DEF Break
<1>2. (\E C, F, S : Holds(ht, C, F, S)) /\ ht.count <= ht.max
  BY DEF HashInv, Sound
<1>3. NoLoop \in Iterators
  BY DEF NoLoop, Iterators, Links
<1>4. \A W : Tracks(ht', hi', looping', todo', meddled', W)
  BY <1>1 DEF Tracks
<1>5. Sound(ht', hi', looping', todo', meddled')
  BY <1>1, <1>2, <1>3, <1>4 DEF Sound
<1>6. QED
  BY <1>1, <1>5 DEF HashInv

\* A new table is empty, and so is its map.
LEMMA HashStart ==
  ASSUME HashInit
  PROVE  HashInv /\ MapOf(ht) = [k \in Keys |-> Nil] /\ answer = Nil
<1> DEFINE t == ht
           n == InitialMax
           A == [i \in 0 .. n |-> Nil]
           C == [i \in 0 .. t.max |-> <<>>]
           F == <<>>
           S == {}
<1>1. /\ t = [array |-> A, max |-> n, count |-> 0, next |-> Blank, key |-> Blank, val |-> Blank,
              made |-> 0, free |-> Nil]
      /\ hi = NoLoop /\ looping = "no" /\ todo = {} /\ meddled = FALSE /\ answer = Nil
  BY DEF HashInit
<1>2. n \in Nat /\ n >= 0
  BY HashAssumption
<1>3. /\ Blank \in [Entries -> Links] /\ Blank \in [Entries -> Keys \cup {Nil}]
      /\ Blank \in [Entries -> Vals \cup {Nil}] /\ \A e \in Entries : Blank[e] = Nil
  BY DEF Blank, Links
<1>4. A \in [0 .. n -> Links] /\ \A i \in 0 .. n : A[i] = Nil
  BY DEF Links
<1> HIDE DEF n, A, t
<1>5. /\ t.array = A /\ t.max = n /\ t.count = 0 /\ t.next = Blank /\ t.key = Blank /\ t.val = Blank
      /\ t.made = 0 /\ t.free = Nil
  BY <1>1
<1>6. TableTypes(t)
  <2>1. A \in Arrays
    BY <1>2, <1>4 DEF Arrays
  <2>2. Nil \in Links
    BY DEF Links
  <2>3. t \in Table
    BY <1>1, <1>2, <1>3, <2>1, <2>2 DEF Table
  <2>4. QED
    BY <1>4, <1>5, <2>3 DEF TableTypes
<1>7. \A link : IsPath(<<>>, Nil, link) 
  BY PathAtIs DEF IsPath, PathAt
<1>8. IsInjective(<<>>) /\ ToSet(<<>>) = {} /\ <<>> \in Seq(Entries)
  BY DEF IsInjective, ToSet
<1>9. Rows(t, C, S)
  <2>1. \A i \in 0 .. t.max : C[i] = <<>> /\ t.array[i] = Nil
    BY <1>4, <1>5
  <2>2. C \in [0 .. t.max -> Seq(Entries)]
    BY <1>8
  <2> HIDE DEF C
  <2>3. QED
    BY <1>7, <1>8, <2>1, <2>2 DEF Rows
<1>10. Covers(t, F, S)
  <2>1. Cardinality(Keys) \in Nat /\ \A e \in Entries : ~(e <= 0)
    BY EntriesAre
  <2>2. t.made \in 0 .. Cardinality(Keys)
    BY <1>5, <2>1
  <2>3. QED
    BY <1>3, <1>5, <1>7, <1>8, <2>1, <2>2 DEF Covers
<1>11. Counts(t, S)
  BY <1>5, FS_EmptySet DEF Counts
<1>12. Holds(t, C, F, S)
  BY <1>6, <1>9, <1>10, <1>11 DEF Holds
<1> HIDE DEF C
<1>13. Tracks(t, hi, looping, todo, meddled, S)
  BY <1>1 DEF Tracks
<1>14. NoLoop \in Iterators
  BY DEF NoLoop, Iterators, Links
<1>15. Sound(t, hi, looping, todo, meddled)
  BY <1>1, <1>2, <1>5, <1>12, <1>13, <1>14 DEF Sound
<1>16. MapOf(t) = [k \in Keys |-> Nil]
  <2>1. \A k \in Keys : Value(t, k) = Nil
    BY <1>12, ValueIs
  <2>2. QED
    BY <2>1 DEF MapOf
<1>17. QED
  BY <1>1, <1>15, <1>16 DEF HashInv, t

\* What the invariant says of the types and of the entries.
LEMMA SoundTable == HashInv => TableSound
<1> SUFFICES ASSUME HashInv PROVE TableSound
  OBVIOUS
<1> DEFINE t == ht
<1>1. PICK C, F, S : Holds(t, C, F, S)
  BY DEF HashInv, Sound
<1>2. /\ hi \in Iterators /\ looping \in {"no", "table", "do"}
      /\ todo \subseteq Keys /\ meddled \in BOOLEAN
  BY DEF HashInv, Sound
<1>3. TableTypes(t) /\ Rows(t, C, S) /\ Covers(t, F, S)
  BY <1>1 DEF Holds
<1>4. /\ AllEntries(t) \in Seq(Entries) /\ IsInjective(AllEntries(t)) /\ ToSet(AllEntries(t)) = S
      /\ Len(AllEntries(t)) = t.count /\ t.count \in Nat
  BY <1>1, AllEntriesAre
<1>5. HashTypeOK
  <2>1. DOMAIN t.array = 0 .. t.max
    BY <1>3 DEF TableTypes
  <2>2. t.count = Cardinality(S) /\ S \subseteq Entries
    BY <1>1 DEF Holds, Counts, Rows
  <2>3. Cardinality(S) <= Cardinality(Entries)
    BY <2>2, FS_Subset, EntriesAre
  <2>4. t.count \in 0 .. Cardinality(Keys)
    BY <1>4, <2>2, <2>3, EntriesAre
  <2>5. hi.this \in Links /\ hi.next \in Links
    BY <1>2 DEF Iterators
  <2>6. QED
    BY <1>2, <2>1, <2>4, <2>5 DEF HashTypeOK, Links
<1> DEFINE q == AllEntries(t)
           f == ChainFrom(t, t.free)
<1>6. f = F /\ \A i \in 0 .. t.max : C[i] = ChainFrom(t, t.array[i])
  BY <1>1, HeldLinks
<1>7. /\ F \in Seq(Entries) /\ IsInjective(F) /\ ToSet(F) \cap S = {}
      /\ t.made \in 0 .. Cardinality(Keys)
      /\ \A e \in Entries : e <= t.made <=> e \in S \cup ToSet(F)
  BY <1>3 DEF Covers, IsPath
<1>8. \A i \in 0 .. t.max : \A e \in ToSet(ChainFrom(t, t.array[i])) : Bucket(t, t.key[e]) = i
  <2>1. \A i \in 0 .. t.max : C[i] \in Seq(Entries) /\ \A e \in Entries : e \in ToSet(C[i]) => Bucket(t, t.key[e]) = i
    BY <1>3 DEF Rows, IsPath
  <2>2. \A i \in 0 .. t.max : \A e \in ToSet(C[i]) : e \in Entries
    BY <2>1, ElementOfSeq, LenProperties DEF ToSet
  <2>3. QED
    BY <1>6, <2>1, <2>2
<1>9. IsInjective(q \o f) /\ ToSet(q \o f) = 1 .. t.made /\ t.count = Len(q)
  <2> HIDE DEF q, f
  <2>1. q \in Seq(Entries) /\ IsInjective(q) /\ ToSet(q) = S /\ t.count = Len(q)
    BY <1>4 DEF q
  <2>2. f \in Seq(Entries) /\ IsInjective(f) /\ ToSet(f) \cap S = {}
    BY <1>6, <1>7
  <2>3. IsInjective(q \o f) /\ ToSet(q \o f) = S \cup ToSet(f)
    BY <2>1, <2>2, InjectiveConcat
  <2>4. S \subseteq Entries /\ ToSet(f) \subseteq Entries
    <3>1. S \subseteq Entries
      BY <1>3 DEF Rows
    <3>2. ToSet(f) \subseteq Entries
      BY <2>2, ElementOfSeq, LenProperties DEF ToSet
    <3>3. QED
      BY <3>1, <3>2
  <2>5. \A e \in Entries : e <= t.made <=> e \in S \cup ToSet(f)
    BY <1>6, <1>7
  <2>6. \A e : e \in 1 .. t.made <=> e \in Entries /\ e <= t.made
    BY <1>7, EntriesAre
  <2>7. S \cup ToSet(f) = 1 .. t.made
    BY <2>4, <2>5, <2>6
  <2>8. QED
    BY <2>1, <2>3, <2>7
<1>10. EntriesInPlace
  BY <1>8, <1>9 DEF EntriesInPlace
<1>11. QED
  BY <1>5, <1>10 DEF TableSound

\* A call, or a step of a loop, keeps the invariant, and is one of a map or
\* leaves it alone.
LEMMA HashStep ==
  HashInv /\ [HashNext]_hashvars =>
    HashInv' /\ (Map!Call(MapOf(ht), MapOf(ht'), answer') \/ (MapOf(ht') = MapOf(ht) /\ answer' = answer))
<1> SUFFICES ASSUME HashInv, [HashNext]_hashvars
             PROVE  /\ HashInv'
                    /\ \/ Map!Call(MapOf(ht), MapOf(ht'), answer')
                       \/ MapOf(ht') = MapOf(ht) /\ answer' = answer
  OBVIOUS
<1>1. ASSUME NEW k \in Keys, NEW v \in Vals, Set(k, v)
      PROVE  HashInv' /\ Map!Call(MapOf(ht), MapOf(ht'), answer')
  <2>1. HashInv' /\ MapOf(ht') = [MapOf(ht) EXCEPT ![k] = v] /\ answer' = Nil
    BY <1>1, SetStep
  <2>2. Map!Set(k, v, MapOf(ht), MapOf(ht'), answer')
    BY <2>1 DEF Map!Set
  <2>3. QED
    BY <2>1, <2>2 DEF Map!Call
<1>2. ASSUME NEW k \in Keys, NEW v \in Vals, GetOrSet(k, v)
      PROVE  HashInv' /\ Map!Call(MapOf(ht), MapOf(ht'), answer')
  <2>1. /\ HashInv' /\ answer' = MapOf(ht')[k]
        /\ MapOf(ht') = IF MapOf(ht)[k] = Nil THEN [MapOf(ht) EXCEPT ![k] = v] ELSE MapOf(ht)
    BY <1>2, GetOrSetStep
  <2>2. Map!GetOrSet(k, v, MapOf(ht), MapOf(ht'), answer')
    BY <2>1 DEF Map!GetOrSet
  <2>3. QED
    BY <2>1, <2>2 DEF Map!Call
<1>3. ASSUME NEW k \in Keys, Unset(k)
      PROVE  HashInv' /\ Map!Call(MapOf(ht), MapOf(ht'), answer')
  <2>1. HashInv' /\ MapOf(ht') = [MapOf(ht) EXCEPT ![k] = Nil] /\ answer' = Nil
    BY <1>3, UnsetStep
  <2>2. Map!Set(k, Nil, MapOf(ht), MapOf(ht'), answer')
    BY <2>1 DEF Map!Set
  <2>3. QED
    BY <2>1, <2>2 DEF Map!Call
<1>4. ASSUME NEW k \in Keys, Get(k)
      PROVE  HashInv' /\ Map!Call(MapOf(ht), MapOf(ht'), answer')
  <2>1. HashInv' /\ MapOf(ht') = MapOf(ht) /\ answer' = MapOf(ht)[k]
    BY <1>4, GetStep
  <2>2. Map!Get(k, MapOf(ht), MapOf(ht'), answer')
    BY <2>1 DEF Map!Get
  <2>3. QED
    BY <2>1, <2>2 DEF Map!Call
<1>5. ASSUME Clear
      PROVE  HashInv' /\ Map!Call(MapOf(ht), MapOf(ht'), answer')
  <2>1. HashInv' /\ MapOf(ht') = [k \in Keys |-> Nil] /\ answer' = Nil
    BY <1>5, ClearStep
  <2>2. Map!Clear(MapOf(ht'), answer')
    BY <2>1 DEF Map!Clear, Map!Empty
  <2>3. QED
    BY <2>1, <2>2 DEF Map!Call
<1>6. ASSUME NEW how \in {"table", "do"}, StartLoop(how)
      PROVE  HashInv' /\ MapOf(ht') = MapOf(ht) /\ answer' = answer
  BY <1>6, StartLoopStep
<1>7. ASSUME Continue
      PROVE  HashInv' /\ MapOf(ht') = MapOf(ht) /\ answer' = answer
  BY <1>7, ContinueStep
<1>8. ASSUME Break
      PROVE  HashInv' /\ MapOf(ht') = MapOf(ht) /\ answer' = answer
  BY <1>8, BreakStep
<1>9. ASSUME UNCHANGED hashvars
      PROVE  HashInv' /\ MapOf(ht') = MapOf(ht) /\ answer' = answer
  BY <1>9, SameStep DEF hashvars, loop
<1>10. QED
  BY <1>1, <1>2, <1>3, <1>4, <1>5, <1>6, <1>7, <1>8, <1>9 DEF HashNext

\* The invariant always holds.
LEMMA HashInvAlways == HashSpec => []HashInv
<1>1. HashInit => HashInv
  BY HashStart
<1>2. HashInv /\ [HashNext]_hashvars => HashInv'
  BY HashStep
<1>3. QED
  BY <1>1, <1>2, PTL DEF HashSpec

\* After any sequence of ogs_hash_set, ogs_hash_get_or_set, ogs_hash_clear and
\* calls inside loops, and however often expand_array was called, every entry
\* ever allocated is in the chain of its hash or in the free list, once, and
\* count is right.
THEOREM TableIsSound == HashSpec => []TableSound
BY HashInvAlways, SoundTable, PTL

\* The table of ogs-hash.c implements a map: each call does to the keys what
\* it does to the keys of a map, and answers as a map would; loops and the
\* growth of the array do not show.
THEOREM TableImplementsMap == HashSpec => ImplementsMap
<1>1. HashInit => Map!Init
  BY HashStart DEF Map!Init, Map!Empty, MapOf
<1>2. HashInv /\ [HashNext]_hashvars => [Map!Next]_<<MapOf(ht), answer>>
  BY HashStep DEF Map!Next, MapOf
<1>3. QED
  BY <1>1, <1>2, HashInvAlways, PTL DEF HashSpec, ImplementsMap, Map!Spec, MapOf

\* A loop of ogs_hash_first and ogs_hash_next, or ogs_hash_do, whose body adds
\* no key and removes none but the one it visits, visits every key that was
\* there at its start, and each once.
THEOREM TraversalsVisitOnce == HashSpec => VisitsEachOnce
<1>1. HashInv /\ [HashNext]_hashvars =>
        [Continue /\ ~meddled => IF looping' = "no" THEN todo = {} ELSE ht.key[hi'.this] \in todo]_hashvars
  BY ContinueStep
<1>2. QED
  BY <1>1, HashInvAlways, PTL DEF HashSpec, VisitsEachOnce
=============================================================================
