----------------------------- MODULE OgsPkbuf -----------------------------
(***************************************************************************)
(* src/core/ogs-pkbuf.c and ogs-pkbuf.h: packet buffers.                   *)
(*                                                                         *)
(* A pkbuf is a window (data, tail, end) on a cluster; a cluster owns one  *)
(* buffer of a size class and counts the pkbufs that share it.  Pkbufs,    *)
(* clusters and the buffers of each class come from pools.  Alloc, free    *)
(* and copy hold the pool's mutex wherever they touch shared records, so   *)
(* each is one step; the window operations touch only the caller's own     *)
(* pkbuf.  Any thread may do any of this with any pkbuf, at any time.      *)
(* Offsets are relative to cluster->buffer, which is also head.  A failed  *)
(* assertion ends the process.                                             *)
(***************************************************************************)
EXTENDS Integers, FiniteSets, FiniteSetsExt

CONSTANTS Classes,    \* the size classes: numbers, in the order of their sizes
          SizeOf,     \* the size of a class
          PoolOf,     \* the number of its buffers (cluster_128_pool, ...)
          Pkbufs,     \* the records of pool->pkbuf and of pool->cluster: both
          Clusters,   \* pools get the sum of the classes' pools
          Sizes,      \* arguments of ogs_pkbuf_alloc
          Lengths,    \* arguments of the window operations
          NULL

Buffers(k) == {k} \X (1 .. PoolOf[k])
AllBuffers == UNION {Buffers(k) : k \in Classes}

\* The sum of the classes' pools.
Total == Cardinality(AllBuffers)

PkbufRecords == [cluster : Clusters, data : Int, tail : Int, end : Nat, len : Int]
ClusterRecords == [buffer : AllBuffers, class : Classes, ref : Nat \ {0}]

ASSUME PkbufAssumption ==
  /\ IsFiniteSet(Classes) /\ Classes \subseteq Nat /\ Classes # {}
  /\ SizeOf \in [Classes -> Nat] /\ PoolOf \in [Classes -> Nat]
  /\ \A k, l \in Classes : k < l => SizeOf[k] < SizeOf[l]
  /\ IsFiniteSet(Pkbufs) /\ Cardinality(Pkbufs) = Total
  /\ IsFiniteSet(Clusters) /\ Cardinality(Clusters) = Total
  /\ NULL \notin PkbufRecords /\ NULL \notin ClusterRecords
  /\ Sizes \subseteq Nat /\ Lengths \subseteq Nat

VARIABLES pkbuf,    \* the pkbufs, NULL if in the pool
          cluster,  \* the clusters, NULL if in the pool
          abort     \* the assertion that has ended the process, if any

vars == <<pkbuf, cluster, abort>>

Init == /\ pkbuf = [p \in Pkbufs |-> NULL]
        /\ cluster = [c \in Clusters |-> NULL]
        /\ abort = "none"

-----------------------------------------------------------------------------
UsedPkbufs == {p \in Pkbufs : pkbuf[p] # NULL}
UsedClusters == {c \in Clusters : cluster[c] # NULL}
FreeBuffers(k) == Buffers(k) \ {cluster[c].buffer : c \in UsedClusters}

\* The class cluster_alloc takes a buffer of: the first one that is large
\* enough, and no other when that one is used up.
Fitting(size) == {k \in Classes : size <= SizeOf[k]}
ClassFor(size) == Min(Fitting(size))

Abort(why) == abort' = why /\ UNCHANGED <<pkbuf, cluster>>

\* Where cluster_alloc and ogs_pkbuf_alloc fail, in their order.
AllocFails(size) ==
  \/ Clusters = UsedClusters /\ Abort("cluster")
  \/ Clusters # UsedClusters /\ Fitting(size) = {} /\ Abort("size")
  \/ Clusters # UsedClusters /\ Fitting(size) # {} /\ FreeBuffers(ClassFor(size)) = {} /\ Abort("buffer")
  \/ /\ Clusters # UsedClusters /\ Fitting(size) # {} /\ FreeBuffers(ClassFor(size)) # {}
     /\ Pkbufs = UsedPkbufs /\ Abort("pkbuf")

\* The window of a fresh pkbuf; end is where the caller's size ends, not
\* where the buffer does.
NewPkbuf(c, size) == [cluster |-> c, data |-> 0, tail |-> 0, end |-> size, len |-> 0]

\* What a section of alloc takes from the pools: w is the pkbuf's window.
Take(p, c, b, w) ==
  /\ pkbuf' = [pkbuf EXCEPT ![p] = w]
  /\ cluster' = [cluster EXCEPT ![c] = [buffer |-> b, class |-> b[1], ref |-> 1]]
  /\ UNCHANGED abort

Alloc(size) ==
  \/ AllocFails(size)
  \/ /\ Fitting(size) # {}
     /\ \E p \in Pkbufs \ UsedPkbufs, c \in Clusters \ UsedClusters, b \in FreeBuffers(ClassFor(size)) :
          Take(p, c, b, NewPkbuf(c, size))

\* ref--, and at zero the buffer and the cluster go back to their pools.
Drop(c) == IF cluster[c].ref = 1 THEN NULL ELSE [cluster[c] EXCEPT !.ref = @ - 1]

\* (seeded fault: the record does not go back to its pool)
FreeLeaksPkbuf(p) == /\ cluster' = [cluster EXCEPT ![pkbuf[p].cluster] = Drop(pkbuf[p].cluster)]
                     /\ UNCHANGED <<pkbuf, abort>>

Free(p) == /\ cluster' = [cluster EXCEPT ![pkbuf[p].cluster] = Drop(pkbuf[p].cluster)]
           /\ pkbuf' = [pkbuf EXCEPT ![p] = NULL]
           /\ UNCHANGED abort

\* The copy shares the cluster and starts with the same window.
Copy(p) ==
  \/ Pkbufs = UsedPkbufs /\ Abort("pkbuf")
  \/ \E q \in Pkbufs \ UsedPkbufs :
       /\ pkbuf' = [pkbuf EXCEPT ![q] = pkbuf[p]]
       /\ cluster' = [cluster EXCEPT ![pkbuf[p].cluster].ref = @ + 1]
       /\ UNCHANGED abort

-----------------------------------------------------------------------------
(* The window                                                              *)

Window(p, data, tail, len) ==
  /\ pkbuf' = [pkbuf EXCEPT ![p].data = data, ![p].tail = tail, ![p].len = len]
  /\ UNCHANGED cluster

\* Nothing is tested: every caller reserves part of the room it has just
\* allocated.
Reserve(p, n) == /\ pkbuf[p].len = 0 /\ pkbuf[p].tail + n <= pkbuf[p].end
                 /\ Window(p, pkbuf[p].data + n, pkbuf[p].tail + n, pkbuf[p].len)
                 /\ UNCHANGED abort

Put(p, n) == /\ Window(p, pkbuf[p].data, pkbuf[p].tail + n, pkbuf[p].len + n)
             /\ abort' = IF pkbuf[p].tail + n > pkbuf[p].end THEN "put" ELSE abort

Push(p, n) == /\ Window(p, pkbuf[p].data - n, pkbuf[p].tail, pkbuf[p].len + n)
              /\ abort' = IF pkbuf[p].data - n < 0 THEN "push" ELSE abort

\* More than the pkbuf holds is refused with NULL.
Pull(p, n) == /\ n <= pkbuf[p].len
              /\ Window(p, pkbuf[p].data + n, pkbuf[p].tail, pkbuf[p].len - n)
              /\ UNCHANGED abort

Trim(p, n) == /\ pkbuf[p].len > n
              /\ Window(p, pkbuf[p].data, pkbuf[p].data + n, n)
              /\ UNCHANGED abort

-----------------------------------------------------------------------------
Running == abort = "none"

Next == \/ /\ Running
           /\ \/ \E size \in Sizes : Alloc(size)
              \/ \E p \in UsedPkbufs : \/ Free(p)
                                       \/ Copy(p)
                                       \/ \E n \in Lengths : \/ Reserve(p, n) \/ Put(p, n)
                                                             \/ Push(p, n) \/ Pull(p, n)
                                                             \/ Trim(p, n)
        \/ ~Running /\ UNCHANGED vars

Spec == Init /\ [][Next]_vars

-----------------------------------------------------------------------------
(* Properties                                                              *)

\* Pkbufs and clusters keep their types.
TypeOK ==
  /\ pkbuf \in [Pkbufs -> PkbufRecords \cup {NULL}]
  /\ cluster \in [Clusters -> ClusterRecords \cup {NULL}]
  /\ \A c \in UsedClusters : /\ cluster[c].buffer \in Buffers(cluster[c].class)
                             /\ cluster[c].ref <= Total
  /\ abort \in {"none", "cluster", "size", "buffer", "pkbuf", "put", "push"}

Sharers(c) == {p \in UsedPkbufs : pkbuf[p].cluster = c}

\* A cluster counts the pkbufs that use it, whatever the order of copies and
\* releases: it goes back to its pool with the last of them, not before, and
\* not later.
RefCountsSharers ==
  \A c \in Clusters : IF c \in UsedClusters THEN cluster[c].ref = Cardinality(Sharers(c))
                      ELSE Sharers(c) = {}

\* Inside what was asked for, and that inside the buffer; len is its length.
WindowInsideRoom(p) ==
  /\ 0 <= pkbuf[p].data
  /\ pkbuf[p].data <= pkbuf[p].tail
  /\ pkbuf[p].tail <= pkbuf[p].end
  /\ pkbuf[p].end <= SizeOf[cluster[pkbuf[p].cluster].class]
  /\ pkbuf[p].len = pkbuf[p].tail - pkbuf[p].data
=============================================================================
