----------------------------- MODULE OgsMemory -----------------------------
(***************************************************************************)
(* src/core/ogs-memory.c on top of ogs-pkbuf.c: the blocks of ogs_malloc   *)
(* and the packets of the program come from the same default pool.         *)
(*                                                                         *)
(* A block is a pkbuf whose window starts behind a pointer to the pkbuf    *)
(* itself (the header, of Header bytes): the caller keeps the address of   *)
(* the window, and ogs_free and ogs_realloc find the pkbuf through the     *)
(* header.  Any thread calls any of this at any time.  Each call is one    *)
(* critical section of the pool's mutex, but for a realloc that moves,     *)
(* which has two: the new block, then the release of the old one.          *)
(***************************************************************************)
EXTENDS OgsPkbuf

CONSTANTS Header,     \* sizeof(ogs_pkbuf_t *)
          Requests    \* arguments of ogs_malloc and ogs_realloc

ASSUME MemoryAssumption == /\ Header \in Nat \ {0} /\ Requests \subseteq Nat \ {0}
                           /\ \A k \in Classes : SizeOf[k] > Header

VARIABLES block,    \* the pkbufs the program holds as memory
          packet,   \* the pkbufs it holds as packets
          moving    \* pairs: the old and the new pkbuf of a realloc under way

memory == <<block, packet, moving>>

MemoryInit == Init /\ block = {} /\ packet = {} /\ moving = {}

-----------------------------------------------------------------------------
\* reserve(headroom), the header, put(size).
NewBlock(c, n) ==
  [NewPkbuf(c, Header + n) EXCEPT !.data = Header, !.tail = Header + n, !.len = n]

\* ogs_malloc up to its return: p is the new block.
TakeBlock(p, n) ==
  /\ Fitting(Header + n) # {}
  /\ \E c \in Clusters \ UsedClusters, b \in FreeBuffers(ClassFor(Header + n)) :
       Take(p, c, b, NewBlock(c, n))

\* ogs_malloc, ogs_calloc and realloc of NULL.
Malloc(n) ==
  \/ AllocFails(Header + n) /\ UNCHANGED memory
  \/ \E p \in Pkbufs \ UsedPkbufs : /\ TakeBlock(p, n)
                                    /\ block' = block \cup {p}
                                    /\ UNCHANGED <<packet, moving>>

\* ogs_free; also realloc to 0.
FreeBlock(p) == Free(p) /\ block' = block \ {p} /\ UNCHANGED <<packet, moving>>

-----------------------------------------------------------------------------
Capacity(p) == SizeOf[cluster[pkbuf[p].cluster].class]

\* (seeded fault: the header is not counted)
MustMoveNoHeader(p, n) == n > Capacity(p)

MustMove(p, n) == n > Capacity(p) - Header

\* The block stays where it is and becomes larger or smaller.
ReallocInPlace(p, n) == /\ ~MustMove(p, n)
                        /\ Window(p, pkbuf[p].data, pkbuf[p].data + n, n)
                        /\ UNCHANGED <<abort, memory>>

ReallocMove(p, n) ==
  /\ MustMove(p, n)
  /\ \/ AllocFails(Header + n) /\ UNCHANGED memory
     \/ \E q \in Pkbufs \ UsedPkbufs : /\ TakeBlock(q, n)
                                       /\ moving' = moving \cup {<<p, q>>}
                                       /\ block' = block \ {p}
                                       /\ UNCHANGED packet

\* (seeded fault: the old block is kept)
ReallocKeepsOld(p, q) == /\ moving' = moving \ {<<p, q>>}
                         /\ block' = block \cup {q}
                         /\ UNCHANGED <<vars, packet>>

\* The old bytes are in the new block; the old one goes back.
ReallocRelease(p, q) == /\ Free(p)
                        /\ moving' = moving \ {<<p, q>>}
                        /\ block' = block \cup {q}
                        /\ UNCHANGED packet

-----------------------------------------------------------------------------
\* The program's packets, as in OgsPkbuf: what an operation takes from the
\* pool is held as a packet.
NewPackets == packet' = packet \cup (UsedPkbufs' \ UsedPkbufs)

PacketNext ==
  /\ \/ /\ \/ \E size \in Sizes : Alloc(size)
           \/ \E p \in packet : Copy(p)
        /\ NewPackets
     \/ \E p \in packet : Free(p) /\ packet' = packet \ {p}
     \/ \E p \in packet, n \in Lengths : /\ \/ Reserve(p, n) \/ Put(p, n) \/ Push(p, n)
                                            \/ Pull(p, n) \/ Trim(p, n)
                                         /\ UNCHANGED packet
  /\ UNCHANGED <<block, moving>>

MemoryNext == \/ /\ Running
                 /\ \/ PacketNext
                    \/ \E n \in Requests : Malloc(n)
                    \/ \E p \in block : \/ FreeBlock(p)
                                        \/ \E n \in Requests : ReallocInPlace(p, n) \/ ReallocMove(p, n)
                    \/ \E m \in moving : ReallocRelease(m[1], m[2])
              \/ ~Running /\ UNCHANGED <<vars, memory>>

MemorySpec == MemoryInit /\ [][MemoryNext]_<<vars, memory>>

-----------------------------------------------------------------------------
(* Properties                                                              *)

MovingPkbufs == UNION {{m[1], m[2]} : m \in moving}

\* Nothing leaks and nothing is given out twice: a pkbuf is out of its pool
\* exactly while one caller, or one realloc under way, has it.
EveryPkbufHasOneOwner ==
  Running => /\ UsedPkbufs = block \cup packet \cup MovingPkbufs
             /\ block \cap packet = {}
             /\ MovingPkbufs \cap (block \cup packet) = {}

\* Every cluster knows how many packets share it and every pkbuf has one owner.
MemorySound == TypeOK /\ RefCountsSharers /\ EveryPkbufHasOneOwner

\* However often a block has been grown and shrunk, it lies inside its own
\* buffer, behind a header that is still in front of it, and no packet
\* shares its cluster.
BlockInsideBuffer ==
  \A p \in block : /\ pkbuf[p].data = Header
                   /\ pkbuf[p].len = pkbuf[p].tail - pkbuf[p].data
                   /\ pkbuf[p].tail <= Capacity(p)
                   /\ Sharers(pkbuf[p].cluster) = {p}

\* The packets' windows, whatever the program does with its memory.
PacketInside == Running => \A p \in packet : WindowInsideRoom(p)

\* ogs_realloc and the window operations keep blocks and packets within their
\* own buffers.
WindowsInside == BlockInsideBuffer /\ PacketInside

\* The pools of pkbufs and clusters, sized as the sum of the classes, are
\* never the first to run out: clusters only once every class is empty, and
\* pkbufs only where copies share a cluster.
NoEarlyExhaustion ==
  /\ abort = "cluster" => \A k \in Classes : FreeBuffers(k) = {}
  /\ abort = "pkbuf" => \/ \E c \in UsedClusters : cluster[c].ref > 1
                        \/ UsedClusters = Clusters
=============================================================================
