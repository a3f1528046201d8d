------------------------------ MODULE OgsPool ------------------------------
(***************************************************************************)
(* src/core/ogs-pool.h: fixed-size object pools.                           *)
(*                                                                         *)
(* A pool owns array[Size]; its free nodes are kept in the ring free[],    *)
(* taken at head and returned at tail, and index[] maps a node's id (its   *)
(* offset plus one, so that 0 is never an id) to the node while it is      *)
(* allocated.  A node is named by its offset in array[].  `held' is what   *)
(* the callers have been given and not returned: they free only that       *)
(* (every call of ogs_pool_free in src/core passes a node its caller       *)
(* allocated).  No pool is shared by threads without a lock around the     *)
(* macros, so each macro is one step.                                      *)
(***************************************************************************)
EXTENDS Integers, FiniteSets, Sequences

CONSTANTS Size,   \* the _size argument of ogs_pool_init
          NULL

Nodes == 0 .. Size - 1

ASSUME PoolAssumption == Size \in Nat \ {0} /\ NULL \notin Nodes

VARIABLES free, index,  \* the ring of free nodes; the node of each id
          head, tail,
          avail,
          ready,        \* between ogs_pool_init and ogs_pool_final
          held,         \* the nodes in the hands of the callers
          node          \* what the last ogs_pool_alloc stored in *(node)

vars == <<free, index, head, tail, avail, ready, held, node>>

Nothing == [n \in Nodes |-> NULL]

Init == /\ free = Nothing /\ index = Nothing
        /\ head = 0 /\ tail = 0 /\ avail = 0
        /\ ready = FALSE
        /\ held = {}
        /\ node = NULL

-----------------------------------------------------------------------------
\* (x + 1) % (pool)->size
SlotNext(x) == (x + 1) % Size

\* The entry of index[] for a node: ogs_pool_index(pool, node) - 1.
Id(n) == n + 1
Entry(n) == Id(n) - 1

\* ogs_pool_find: 0 is no id.
Find(id) == IF id > 0 THEN index[id - 1] ELSE NULL

PoolInit == /\ ~ready
            /\ ready' = TRUE
            /\ free' = [i \in Nodes |-> i]
            /\ index' = Nothing
            /\ avail' = Size
            /\ head' = 0 /\ tail' = 0
            /\ held' = {}
            /\ node' = NULL

\* Unreleased nodes are only reported: they are gone with array[].
PoolFinal == /\ ready
             /\ ready' = FALSE
             /\ free' = Nothing
             /\ index' = Nothing
             /\ held' = {}
             /\ node' = NULL
             /\ UNCHANGED <<head, tail, avail>>

Alloc ==
  /\ ready
  /\ IF avail > 0
     THEN /\ avail' = avail - 1
          /\ node' = free[head]
          /\ free' = [free EXCEPT ![head] = NULL]
          /\ head' = SlotNext(head)
          /\ index' = [index EXCEPT ![Entry(node')] = node']
          /\ held' = held \cup {node'}
     ELSE node' = NULL /\ UNCHANGED <<free, index, head, avail, held>>
  /\ UNCHANGED <<tail, ready>>

\* (seeded fault: the node is stored after tail has moved)
FreeAdvancesFirst(n) ==
  /\ ready
  /\ held' = held \ {n}
  /\ IF avail < Size
     THEN /\ avail' = avail + 1
          /\ tail' = SlotNext(tail)
          /\ free' = [free EXCEPT ![tail'] = n]
          /\ index' = [index EXCEPT ![Entry(n)] = NULL]
     ELSE UNCHANGED <<free, index, tail, avail>>
  /\ UNCHANGED <<head, ready, node>>

\* (seeded fault: the node goes back to the front of the ring)
FreeAtHead(n) ==
  /\ ready
  /\ held' = held \ {n}
  /\ IF avail < Size
     THEN /\ avail' = avail + 1
          /\ head' = (head + Size - 1) % Size
          /\ free' = [free EXCEPT ![head'] = n]
          /\ index' = [index EXCEPT ![Entry(n)] = NULL]
     ELSE UNCHANGED <<free, index, head, avail>>
  /\ UNCHANGED <<tail, ready, node>>

Free(n) ==
  /\ ready
  /\ held' = held \ {n}
  /\ IF avail < Size
     THEN /\ avail' = avail + 1
          /\ free' = [free EXCEPT ![tail] = n]
          /\ tail' = SlotNext(tail)
          /\ index' = [index EXCEPT ![Entry(n)] = NULL]
     ELSE UNCHANGED <<free, index, tail, avail>>
  /\ UNCHANGED <<head, ready, node>>

Next == \/ PoolInit
        \/ PoolFinal
        \/ Alloc
        \/ \E n \in held : Free(n)

Spec == Init /\ [][Next]_vars

-----------------------------------------------------------------------------
(* Properties                                                              *)

\* Every variable of the pool macros keeps its type; head and tail stay
\* inside free[] and avail between 0 and the size.
TypeOK == /\ free \in [Nodes -> Nodes \cup {NULL}]
          /\ index \in [Nodes -> Nodes \cup {NULL}]
          /\ head \in Nodes /\ tail \in Nodes
          /\ avail \in 0 .. Size
          /\ ready \in BOOLEAN
          /\ held \subseteq Nodes
          /\ node \in Nodes \cup {NULL}

\* The free nodes in the order in which ogs_pool_alloc will give them out.
Slot(i) == IF head + i - 1 >= Size THEN head + i - 1 - Size ELSE head + i - 1
Ring == [i \in 1 .. avail |-> free[Slot(i)]]

\* The ring holds exactly the nodes nobody has, each of them once, between
\* head and tail, and nothing is left in the slots outside: whatever the
\* interleaving of allocations and releases, no node has two owners, none is
\* lost, and `avail', which ogs_pool_final reports from, counts them.
FreeRingExact ==
  ready => /\ \A i, j \in 1 .. avail : i # j => free[Slot(i)] # free[Slot(j)]
           /\ {free[Slot(i)] : i \in 1 .. avail} = Nodes \ held
           /\ \A i \in avail + 1 .. Size : free[Slot(i)] = NULL
           /\ avail + Cardinality(held) = Size

\* ogs_pool_find gives the node of an id exactly while the node is
\* allocated: never a released node for a stale id, and nothing for id 0.
FindAgrees ==
  ready => \A id \in 0 .. Size :
             Find(id) = IF id - 1 \in held THEN id - 1 ELSE NULL

\* What allocations and releases, in any order, keep of the pool: types, ring
\* and index.
PoolSound == TypeOK /\ FreeRingExact /\ FindAgrees

Allocator == INSTANCE FifoAllocator
               WITH free <- IF ready THEN Ring ELSE << >>,
                    allocated <- {n \in Nodes : index[n] # NULL},
                    answer <- node

\* The pool is the allocator that reuses a node as late as possible, and the
\* nodes index[] knows are the allocated ones.
ImplementsAllocator == Allocator!Spec
=============================================================================
