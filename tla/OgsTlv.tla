------------------------------- MODULE OgsTlv -------------------------------
(***************************************************************************)
(* src/core/ogs-tlv.c: chains of type-length-value elements, each with a   *)
(* chain embedded in it or not, their rendering and its parsing.           *)
(*                                                                         *)
(* A byte is a digit to the base ByteBase (256 in the code).  Which free   *)
(* element the pool hands out does not matter here: the least.  A failed   *)
(* ogs_assert stops the process and is a guard.                            *)
(***************************************************************************)
EXTENDS Integers, FiniteSets, SequencesExt

CONSTANTS Tlvs,            \* the pool of elements: a set of numbers
          NoTlv,           \* the null pointer; also the content of a free element
          TlvModes,        \* the modes of the protocols in use
          Elements,        \* what callers add: records of type, instance, value
          ContainerTypes,  \* the types whose value is a chain, by the protocol
          ByteBase,
          BuffLen,         \* the size of the buffer handed to ogs_tlv_copy
          MaxTrees         \* bound: how many chains callers hold at once

VARIABLES tlv,      \* the elements
          tlvmode,  \* how many bytes the protocol gives type, length, instance
          message   \* the bytes rendered last and not parsed yet

tlvvars == <<tlv, tlvmode, message>>

ASSUME TlvAssumption == TlvModes \subseteq {"T1_L1", "T1_L2", "T1_L2_I1", "T2_L2"}

TypeBytes == IF tlvmode = "T2_L2" THEN 2 ELSE 1
LengthBytes == IF tlvmode = "T1_L1" THEN 1 ELSE 2
InstanceBytes == IF tlvmode = "T1_L2_I1" THEN 1 ELSE 0
HeaderLen == TypeBytes + LengthBytes + InstanceBytes

TlvInit == /\ tlv = [n \in Tlvs |-> NoTlv]
           /\ tlvmode \in TlvModes
           /\ message = <<>>

-----------------------------------------------------------------------------
(* Walking the elements                                                    *)

Live == {n \in Tlvs : tlv[n] # NoTlv}
FreeTlvs == SetToSortSeq(Tlvs \ Live, <)

\* Built by add, copy and embed; an element that was parsed has no head.
Built == {n \in Live : tlv[n].head # NoTlv}

\* What a caller holds: the elements no other element leads to.
Roots == {n \in Live : \A m \in Live : tlv[m].next # n /\ tlv[m].embedded # n}

RECURSIVE TreeNodes(_)
TreeNodes(n) == IF n = NoTlv THEN <<>>
                ELSE <<n>> \o TreeNodes(tlv[n].embedded) \o TreeNodes(tlv[n].next)

RECURSIVE ChainOf(_)
ChainOf(n) == IF n = NoTlv THEN <<>> ELSE <<n>> \o ChainOf(tlv[n].next)

RECURSIVE FindRoot(_)
FindRoot(n) == LET h == tlv[n].head
               IN  IF tlv[h].parent = NoTlv THEN h ELSE FindRoot(tlv[h].parent)

RECURSIVE FindType(_, _)
FindType(n, type) ==
  IF n = NoTlv \/ tlv[n].type = type THEN n
  ELSE LET inside == FindType(tlv[n].embedded, type)
       IN  IF inside # NoTlv THEN inside ELSE FindType(tlv[n].next, type)

RECURSIVE CalcCount(_)
CalcCount(n) == IF n = NoTlv THEN 0
                ELSE (IF tlv[n].embedded = NoTlv THEN 1 ELSE CalcCount(tlv[n].embedded))
                     + CalcCount(tlv[n].next)

RECURSIVE CalcLength(_)
CalcLength(n) == IF n = NoTlv THEN 0
                 ELSE HeaderLen + CalcLength(tlv[n].next)
                      + (IF tlv[n].embedded = NoTlv THEN tlv[n].length
                         ELSE CalcLength(tlv[n].embedded))

-----------------------------------------------------------------------------
(* Building                                                                *)

\* ogs_tlv_get and the fields every element gets.
New(e) == [type |-> e.type, instance |-> e.instance, value |-> e.value,
           length |-> Len(e.value), head |-> NoTlv, tail |-> NoTlv, next |-> NoTlv,
           parent |-> NoTlv, embedded |-> NoTlv,
           at |-> -1,       \* where in the buffer the value was copied, or -1
           ptr |-> -1]      \* the next free byte of its buffer, or -1

\* The owner of a buffer moves its pointer past a value; the assertion on the
\* room leaves the last byte unused.
HasRoom(owner, e) == tlv[owner].ptr >= 0 => tlv[owner].ptr + Len(e.value) < BuffLen
Copied(new, owner, e) ==
  IF tlv[owner].ptr < 0 THEN tlv
  ELSE [tlv EXCEPT ![owner].ptr = @ + Len(e.value)]
At(owner) == tlv[owner].ptr

\* new becomes the last of the chain that starts with h.
Link(t, h, new) == [t EXCEPT ![t[h].tail].next = new, ![h].tail = new]

AddFirst(new, e) ==
  /\ tlv' = [tlv EXCEPT ![new] = [New(e) EXCEPT !.head = new, !.tail = new]]
  /\ UNCHANGED <<tlvmode, message>>

\* curr may be any element of the chain; only its own buffer is looked at.
Add(curr, new, e) ==
  LET h == tlv[curr].head
  IN  /\ HasRoom(curr, e)
      /\ tlv' = Link([Copied(new, curr, e) EXCEPT ![new] =
                        [New(e) EXCEPT !.head = h, !.at = At(curr)]], h, new)
      /\ UNCHANGED <<tlvmode, message>>

\* The buffer serves one message at a time.
AddCopy(new, e) ==
  /\ \A n \in Live : tlv[n].ptr < 0
  /\ Len(e.value) <= BuffLen
  /\ tlv' = [tlv EXCEPT ![new] = [New(e) EXCEPT !.head = new, !.tail = new,
                                                !.at = 0, !.ptr = Len(e.value)]]
  /\ UNCHANGED <<tlvmode, message>>

\* (seeded fault: the buffer of the parent's chain, not of the root)
EmbedInOwn(parent, new, e) ==
  LET owner == tlv[parent].head
      filled == Copied(new, owner, e)
      chain == tlv[parent].embedded
  IN  /\ tlv[parent].type \in ContainerTypes
      /\ HasRoom(owner, e)
      /\ tlv' = IF chain = NoTlv
                THEN [filled EXCEPT
                        ![new] = [New(e) EXCEPT !.head = new, !.tail = new, !.at = At(owner),
                                                !.parent = parent],
                        ![parent].embedded = new]
                ELSE Link([filled EXCEPT ![new] =
                             [New(e) EXCEPT !.head = chain, !.at = At(owner)]], chain, new)
      /\ UNCHANGED <<tlvmode, message>>

EmbedIn(parent, new, e) ==
  LET root == FindRoot(parent)
      filled == Copied(new, root, e)
      chain == tlv[parent].embedded
  IN  /\ tlv[parent].type \in ContainerTypes
      /\ HasRoom(root, e)
      /\ tlv' = IF chain = NoTlv
                THEN [filled EXCEPT
                        ![new] = [New(e) EXCEPT !.head = new, !.tail = new, !.at = At(root),
                                                !.parent = parent],
                        ![parent].embedded = new]
                ELSE Link([filled EXCEPT ![new] =
                             [New(e) EXCEPT !.head = chain, !.at = At(root)]], chain, new)
      /\ UNCHANGED <<tlvmode, message>>

FreeAll(root) ==
  /\ tlv' = [n \in Tlvs |-> IF n \in ToSet(TreeNodes(root)) THEN NoTlv ELSE tlv[n]]
  /\ UNCHANGED <<tlvmode, message>>

-----------------------------------------------------------------------------
(* Rendering                                                               *)

\* The last k digits of a number: tlv_put_type, tlv_put_length.
NumberBytes(number, k) == [i \in 1 .. k |-> (number \div ByteBase ^ (k - i)) % ByteBase]

RECURSIVE Render(_)
Render(n) ==
  IF n = NoTlv THEN <<>>
  ELSE LET inside == Render(tlv[n].embedded)
           length == IF tlv[n].embedded = NoTlv THEN tlv[n].length
                     ELSE CalcLength(tlv[n].embedded)
       IN  NumberBytes(tlv[n].type, TypeBytes) \o NumberBytes(length, LengthBytes)
           \o NumberBytes(tlv[n].instance, InstanceBytes)
           \o (IF tlv[n].embedded = NoTlv THEN tlv[n].value ELSE inside)
           \o Render(tlv[n].next)

\* The check before each value is copied, of what was written so far and the
\* value against the room; an embedded chain has the room that is left.
RECURSIVE RoomSuffices(_, _)
RoomSuffices(n, room) ==
  n # NoTlv =>
    /\ IF tlv[n].embedded = NoTlv THEN HeaderLen + tlv[n].length <= room
       ELSE RoomSuffices(tlv[n].embedded, room - HeaderLen)
    /\ RoomSuffices(tlv[n].next, room - HeaderLen -
         (IF tlv[n].embedded = NoTlv THEN tlv[n].length ELSE CalcLength(tlv[n].embedded)))

\* ogs_tlv_calc_length stores the lengths of the chains it walks through.
StoreLengths(nodes) ==
  tlv' = [n \in Tlvs |-> IF n \in nodes /\ tlv[n].embedded # NoTlv
                         THEN [tlv[n] EXCEPT !.length = CalcLength(tlv[n].embedded)]
                         ELSE tlv[n]]

StoreCalcLength(root) == /\ StoreLengths(ToSet(TreeNodes(root)))
                         /\ UNCHANGED <<tlvmode, message>>

\* ogs_tlv_render asks for the lengths of embedded chains, so those of the
\* outermost chain are not stored.
RenderRoot(root) ==
  /\ RoomSuffices(root, CalcLength(root))
  /\ message' = Render(root)
  /\ StoreLengths(ToSet(TreeNodes(root)) \ ToSet(ChainOf(root)))
  /\ UNCHANGED tlvmode

-----------------------------------------------------------------------------
(* Parsing                                                                 *)

\* A big-endian number.
Number(bytes) == FoldLeft(LAMBDA acc, b : acc * ByteBase + b, 0, bytes)

ElementLength(data) == Number(SubSeq(data, TypeBytes + 1, TypeBytes + LengthBytes))

GetElement(data) ==
  [type |-> Number(SubSeq(data, 1, TypeBytes)),
   instance |-> IF InstanceBytes = 0 THEN 0 ELSE data[HeaderLen],
   value |-> SubSeq(data, HeaderLen + 1, HeaderLen + ElementLength(data))]

\* What follows the first element of a block.
AfterElement(data) == SubSeq(data, HeaderLen + ElementLength(data) + 1, Len(data))

\* The elements fill the block; if not, the parser reads past its end, and
\* stops on the assertion after the loop.
RECURSIVE WellFormed(_)
WellFormed(data) ==
  /\ Len(data) >= HeaderLen
  /\ Len(data) >= HeaderLen + ElementLength(data)
  /\ Len(data) > HeaderLen + ElementLength(data) => WellFormed(AfterElement(data))

RECURSIVE ParseBlock(_)
ParseBlock(data) ==
  <<GetElement(data)>> \o (IF AfterElement(data) = <<>> THEN <<>>
                           ELSE ParseBlock(AfterElement(data)))

\* The elements of a block become a chain of free elements, linked by next
\* and by nothing else.
Parsed(elements, nodes) ==
  [n \in Tlvs |->
     IF \E i \in DOMAIN nodes : nodes[i] = n
     THEN LET i == CHOOSE j \in DOMAIN nodes : nodes[j] = n
          IN  [New(elements[i]) EXCEPT
                 !.next = IF i < Len(nodes) THEN nodes[i + 1] ELSE NoTlv]
     ELSE tlv[n]]

Parse == LET elements == ParseBlock(message)
         IN  /\ WellFormed(message)
             /\ Len(elements) <= Len(FreeTlvs)
             /\ tlv' = Parsed(elements, SubSeq(FreeTlvs, 1, Len(elements)))
             /\ message' = <<>>
             /\ UNCHANGED tlvmode

\* The message is given up.
DropMessage == message' = <<>> /\ UNCHANGED <<tlv, tlvmode>>

ParseEmbedded(n) ==
  LET elements == ParseBlock(tlv[n].value)
  IN  /\ n \notin Built /\ tlv[n].embedded = NoTlv
      /\ tlv[n].type \in ContainerTypes
      /\ WellFormed(tlv[n].value)
      /\ Len(elements) <= Len(FreeTlvs)
      /\ tlv' = [Parsed(elements, SubSeq(FreeTlvs, 1, Len(elements)))
                   EXCEPT ![n].embedded = FreeTlvs[1]]
      /\ UNCHANGED <<tlvmode, message>>

\* A message is parsed or dropped at once: its bytes do not depend on what
\* happens to the elements it was rendered from.
TlvNext ==
  \/ message # <<>> /\ ((Cardinality(Roots) < MaxTrees /\ Parse) \/ DropMessage)
  \/ /\ message = <<>>
     /\ \/ /\ FreeTlvs # <<>>
           /\ \E e \in Elements : \/ /\ Cardinality(Roots) < MaxTrees
                                     /\ AddFirst(FreeTlvs[1], e) \/ AddCopy(FreeTlvs[1], e)
                                  \/ \E n \in Built : \/ Add(n, FreeTlvs[1], e)
                                                      \/ EmbedIn(n, FreeTlvs[1], e)
        \/ \E n \in Live : ParseEmbedded(n)
        \/ \E root \in Roots : FreeAll(root) \/ StoreCalcLength(root) \/ RenderRoot(root)

-----------------------------------------------------------------------------
(* Properties                                                              *)

BufferSlice(n) == tlv[n].at .. tlv[n].at + Len(tlv[n].value) - 1

\* The elements are trees: each live one is reached from exactly one root, by
\* one path, so that ogs_tlv_free_all gives back each of them once.  Every
\* element that was built knows the head of its chain, the head its last, and
\* ogs_tlv_find_root finds the root.  No value in the buffer overlaps another
\* or leaves it, and however deep an element is embedded, the value it starts a
\* chain with was copied into the buffer of its root, if that has one.  ogs_tlv_find gives the first element of the type in the
\* order of rendering; ogs_tlv_calc_count counts the values.
TlvTrees ==
  LET path == [r \in Roots |-> TreeNodes(r)]
      rootOf == [n \in Built |-> FindRoot(n)]
      slice == [n \in {m \in Live : tlv[m].at >= 0} |-> BufferSlice(n)]
  IN  /\ \A r \in DOMAIN path : IsInjective(path[r])
      /\ \A n \in Live : Cardinality({r \in DOMAIN path : n \in ToSet(path[r])}) = 1
      /\ \A n \in Built : rootOf[n] \in DOMAIN path /\ n \in ToSet(path[rootOf[n]])
      /\ \A h \in Built : tlv[h].head = h =>
           /\ tlv[h].tail = Last(ChainOf(h))
           /\ \A n \in ToSet(ChainOf(h)) : tlv[n].head = h
      /\ \A n \in DOMAIN slice :
           /\ slice[n] \subseteq 0 .. BuffLen - 1
           /\ \A m \in DOMAIN slice \ {n} : slice[n] \cap slice[m] = {}
      /\ \A n \in Built : tlv[n].parent # NoTlv =>
           (tlv[n].at >= 0 <=> tlv[rootOf[n]].ptr >= 0)
      /\ \A r \in DOMAIN path :
           /\ \A type \in {tlv[n].type : n \in Live} :
                LET all == SelectSeq(path[r], LAMBDA n : tlv[n].type = type)
                IN  FindType(r, type) = IF all = <<>> THEN NoTlv ELSE all[1]
           /\ CalcCount(r) = Len(SelectSeq(path[r], LAMBDA n : tlv[n].embedded = NoTlv))

\* The content of a chain, as the two ends of a connection understand it.
RECURSIVE Meaning(_)
Meaning(n) ==
  IF n = NoTlv THEN <<>>
  ELSE <<[type |-> tlv[n].type,
          instance |-> IF InstanceBytes = 0 THEN 0 ELSE tlv[n].instance,
          value |-> IF tlv[n].embedded = NoTlv THEN tlv[n].value ELSE <<>>,
          inside |-> Meaning(tlv[n].embedded)]>> \o Meaning(tlv[n].next)

RECURSIVE MeaningOfBytes(_)
MeaningOfBytes(data) ==
  IF data = <<>> THEN <<>>
  ELSE LET e == GetElement(data)
           open == e.type \in ContainerTypes
       IN  <<[type |-> e.type, instance |-> e.instance,
              value |-> IF open THEN <<>> ELSE e.value,
              inside |-> IF open THEN MeaningOfBytes(e.value) ELSE <<>>]>>
           \o MeaningOfBytes(AfterElement(data))

\* No type, length or instance is cut when it is rendered.
Fits(r) ==
  \A n \in ToSet(TreeNodes(r)) :
    /\ tlv[n].type < ByteBase ^ TypeBytes
    /\ tlv[n].instance < ByteBase
    /\ (IF tlv[n].embedded = NoTlv THEN tlv[n].length ELSE CalcLength(tlv[n].embedded))
         < ByteBase ^ LengthBytes

\* A chain that fits the mode of the protocol is rendered in as many bytes as
\* ogs_tlv_calc_length says, which is room enough for the check of the
\* renderer, and the parser finds in those bytes what was built.
TlvRoundTrip ==
  \A r \in Roots \cap Built :
    Fits(r) => LET bytes == Render(r)
               IN  /\ Len(bytes) = CalcLength(r)
                   /\ RoomSuffices(r, CalcLength(r))
                   /\ WellFormed(bytes)
                   /\ MeaningOfBytes(bytes) = Meaning(r)

\* The trees of elements are sound after any sequence of calls, and every
\* chain that fits survives the way over the wire (ogs_tlv_add, copy, embed,
\* render, parse_block, parse_embedded, free_all).
TlvSound == TlvTrees /\ TlvRoundTrip
=============================================================================
