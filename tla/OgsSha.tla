------------------------------- MODULE OgsSha -------------------------------
(***************************************************************************)
(* SHA-1 and SHA-2 as buffers, and HMAC on top of them (ogs-sha1.c,        *)
(* ogs-sha2.c, ogs-sha1-hmac.c, ogs-sha2-hmac.c): how a message that       *)
(* arrives in pieces is cut into blocks and padded, how a key becomes two  *)
(* blocks, and how a context is put back for the next message.             *)
(*                                                                         *)
(* What the compression functions compute is left open: a chaining value   *)
(* is the initial value it started from and the blocks it has absorbed,    *)
(* so two values are equal exactly when their blocks are.  A byte is a     *)
(* record that says where it comes from.  Sizes are the code's, divided    *)
(* by four in the runs, and the length of a message is one byte.           *)
(***************************************************************************)
EXTENDS Integers, SequencesExt

CONSTANTS
  ShaKinds,     \* the algorithms used
  BlockOf,      \* the size of a block, by algorithm
  DigestOf,     \* the size of a digest, by algorithm
  LengthOf,     \* the bytes of a block kept for the length, by algorithm
  KeySizesOf,   \* the sizes of keys tried, by algorithm
  MessagePieces, \* the sizes of the pieces a message arrives in
  MaxMessage,   \* a bound on the length of a message
  WordLimit,    \* the number of values of a 32-bit counter
  NoMac         \* no MAC yet

VARIABLES
  shaKind,      \* the algorithm of the context
  keySize,      \* the size of its key
  hmac,         \* ogs_hmac_*_ctx: the contexts inside and outside, and
                \* the copies for reinit
  said,         \* the bytes of the message so far
  mac,          \* the bytes final gave, or NoMac
  macSize       \* how many were asked for

shavars == <<shaKind, keySize, hmac, said, mac, macSize>>

Byte(i) == [message |-> i]
KeyByte(i) == [key |-> i]
Junk == [junk |-> TRUE]       \* a byte nobody has written
Mark == [mark |-> TRUE]       \* 0x80
Zero == [zero |-> TRUE]
Bits(n) == [bits |-> n]
Padded(byte, pad) == [byte |-> byte, xor |-> pad]
DigestByte(h, i) == [digest |-> h, at |-> i]

\* The first n bytes that only their position tells apart.
Cells(n, Cell(_)) == [i \in 1 .. n |-> Cell(i)]
Fill(n, byte) == [i \in 1 .. n |-> byte]

\* seq with the bytes of new written from offset (counted from zero) on.
Written(seq, offset, new) ==
  [i \in 1 .. Len(seq) |-> IF i > offset /\ i <= offset + Len(new) THEN new[i - offset] ELSE seq[i]]

\* The chaining value after the blocks of bytes, whose length is a multiple
\* of the block size.
Absorb(h, bytes, size) ==
  [h EXCEPT !.blocks = @ \o [i \in 1 .. Len(bytes) \div size |-> SubSeq(bytes, (i - 1) * size + 1, i * size)]]

Digest(kind, h) == [i \in 1 .. DigestOf[kind] |-> DigestByte(h, i)]

(***************************************************************************)
(* SHA-1                                                                   *)
(***************************************************************************)
Sha1Init ==
  [h |-> [iv |-> "sha1", blocks |-> <<>>], block |-> Fill(BlockOf["sha1"], Junk), index |-> 0,
   low |-> 0, high |-> 0, computed |-> FALSE, corrupted |-> FALSE]

Sha1Process(ctx) == [ctx EXCEPT !.h = Absorb(@, ctx.block, BlockOf["sha1"]), !.index = 0]

\* One byte into the block: a full block is absorbed.
Sha1Byte(ctx, byte) ==
  LET low == (ctx.low + 8) % WordLimit
      high == IF low = 0 THEN (ctx.high + 1) % WordLimit ELSE ctx.high
      next == [ctx EXCEPT !.block[ctx.index + 1] = byte, !.index = @ + 1, !.low = low, !.high = high,
                          !.corrupted = @ \/ (low = 0 /\ high = 0)]
  IN  IF ctx.corrupted THEN ctx
      ELSE IF next.index = BlockOf["sha1"] THEN Sha1Process(next) ELSE next

Sha1Update(ctx, message) ==
  IF message = <<>> THEN ctx
  ELSE IF ctx.computed \/ ctx.corrupted THEN [ctx EXCEPT !.corrupted = TRUE]
  ELSE FoldLeft(Sha1Byte, ctx, message)

\* SHA1PadMessage: a block too full for the mark and the length is padded
\* and absorbed, and the padding goes on in another.
Sha1Pad(ctx) ==
  LET size == BlockOf["sha1"]
      room == size - LengthOf["sha1"]
      marked == [ctx EXCEPT !.block = Written(@, ctx.index, <<Mark>> \o Fill(size, Zero)), !.index = @ + 1]
      spilled == Sha1Process(marked)
      start == IF ctx.index >= room
               THEN [spilled EXCEPT !.block = Written(@, 0, Fill(room, Zero))] ELSE marked
      length == Fill(LengthOf["sha1"] - 1, Zero) \o <<Bits(ctx.high * WordLimit + ctx.low)>>
  IN  Sha1Process([start EXCEPT !.block = Written(@, room, length)])

\* A context that has given its digest gives it again.
Sha1Final(ctx) == IF ctx.computed THEN ctx ELSE [Sha1Pad(ctx) EXCEPT !.computed = TRUE]

(***************************************************************************)
(* SHA-2: the four algorithms share the text of these functions            *)
(***************************************************************************)
Sha2Init(kind) ==
  [h |-> [iv |-> kind, blocks |-> <<>>], block |-> Fill(2 * BlockOf[kind], Junk), len |-> 0, tot |-> 0]

\* What does not fill the block waits in it; what does is absorbed with
\* every whole block behind it, and the rest goes to the front.
Sha2Update(kind, ctx, message) ==
  LET size == BlockOf[kind]
      taken == IF Len(message) < size - ctx.len THEN Len(message) ELSE size - ctx.len
      block == Written(ctx.block, ctx.len, SubSeq(message, 1, taken))
      left == Len(message) - taken
      whole == (left \div size) * size
      rest == SubSeq(message, taken + whole + 1, Len(message))
  IN  IF ctx.len + Len(message) < size
      THEN [ctx EXCEPT !.block = block, !.len = @ + Len(message)]
      ELSE [h |-> Absorb(Absorb(ctx.h, SubSeq(block, 1, size), size),
                         SubSeq(message, taken + 1, taken + whole), size),
            block |-> Written(block, 0, rest),
            len |-> Len(rest),
            tot |-> (ctx.tot + whole + size) % WordLimit]

\* One block or two, zeroed behind the message, the mark, the length.
Sha2Final(kind, ctx) ==
  LET size == BlockOf[kind]
      count == IF size - LengthOf[kind] - 1 < ctx.len % size THEN 2 ELSE 1
      cleared == Written(ctx.block, ctx.len, Fill(count * size - ctx.len, Zero))
      marked == Written(cleared, ctx.len, <<Mark>>)
      padded == Written(marked, count * size - 1, <<Bits(((ctx.tot + ctx.len) * 8) % WordLimit)>>)
  IN  [ctx EXCEPT !.h = Absorb(@, SubSeq(padded, 1, count * size), size), !.block = padded]

(***************************************************************************)
(* What HMAC calls                                                         *)
(***************************************************************************)
ShaInit(kind) == IF kind = "sha1" THEN Sha1Init ELSE Sha2Init(kind)
ShaUpdate(kind, ctx, message) == IF kind = "sha1" THEN Sha1Update(ctx, message) ELSE Sha2Update(kind, ctx, message)
ShaFinal(kind, ctx) == IF kind = "sha1" THEN Sha1Final(ctx) ELSE Sha2Final(kind, ctx)

\* ogs_sha1, ogs_sha224, ...: the three calls on one message.
Sha(kind, message) == Digest(kind, ShaFinal(kind, ShaUpdate(kind, ShaInit(kind), message)).h)

\* key_temp has room for a digest.  A key longer than a block is hashed into
\* it; of any other key it takes as many bytes as it has room for, and the
\* loop that fills the pads reads as many as the key has.
KeyTemp(kind, size) ==
  LET short == IF size > BlockOf[kind] THEN Sha(kind, Cells(size, KeyByte)) ELSE Cells(size, KeyByte)
  IN  [i \in 1 .. Len(short) |-> IF i <= DigestOf[kind] THEN short[i] ELSE Junk]

Pad(kind, size, pad) ==
  LET key == KeyTemp(kind, size)
  IN  [i \in 1 .. BlockOf[kind] |-> Padded(IF i <= Len(key) THEN key[i] ELSE Zero, pad)]

HmacContext(kind, size) ==
  LET inside == ShaUpdate(kind, ShaInit(kind), Pad(kind, size, "ipad"))
      outside == ShaUpdate(kind, ShaInit(kind), Pad(kind, size, "opad"))
  IN  [inside |-> inside, outside |-> outside, insideReinit |-> inside, outsideReinit |-> outside]

\* (seeded fault: the context outside is not put back)
ReinitInside(ctx) == [ctx EXCEPT !.inside = ctx.insideReinit]

Reinit(ctx) == [ctx EXCEPT !.inside = ctx.insideReinit, !.outside = ctx.outsideReinit]

HmacResult(kind, ctx) ==
  LET inside == ShaFinal(kind, ctx.inside)
      outside == ShaUpdate(kind, ctx.outside, Digest(kind, inside.h))
  IN  [ctx EXCEPT !.inside = inside, !.outside = ShaFinal(kind, outside)]

(***************************************************************************)
(* The calls of a program                                                  *)
(***************************************************************************)
NewContext(kind, size) ==
  /\ shaKind' = kind /\ keySize' = size
  /\ hmac' = HmacContext(kind, size)
  /\ said' = 0 /\ mac' = NoMac /\ macSize' = 0

ShaStart == \E kind \in ShaKinds : \E size \in KeySizesOf[kind] :
              /\ shaKind = kind /\ keySize = size /\ hmac = HmacContext(kind, size)
              /\ said = 0 /\ mac = NoMac /\ macSize = 0

HmacInit == \E kind \in ShaKinds : \E size \in KeySizesOf[kind] : NewContext(kind, size)

HmacUpdate ==
  \E n \in MessagePieces :
    /\ mac = NoMac /\ said + n <= MaxMessage
    /\ hmac' = [hmac EXCEPT !.inside = ShaUpdate(shaKind, @, [i \in 1 .. n |-> Byte(said + i)])]
    /\ said' = said + n
    /\ UNCHANGED <<shaKind, keySize, mac, macSize>>

\* The caller may ask for fewer bytes than the digest has.
HmacFinal ==
  \E n \in {1, DigestOf[shaKind]} :
    /\ mac = NoMac
    /\ hmac' = HmacResult(shaKind, hmac)
    /\ mac' = SubSeq(Digest(shaKind, hmac'.outside.h), 1, n) /\ macSize' = n
    /\ UNCHANGED <<shaKind, keySize, said>>

HmacReinit ==
  /\ hmac' = Reinit(hmac) /\ said' = 0 /\ mac' = NoMac /\ macSize' = 0
  /\ UNCHANGED <<shaKind, keySize>>

ShaNext == HmacInit \/ HmacUpdate \/ HmacFinal \/ HmacReinit

(***************************************************************************)
(* What the standards say (FIPS 180-4, 5.1 and 6; RFC 2104, 2)             *)
(***************************************************************************)
StandardPadding(kind, n) ==
  LET size == BlockOf[kind]
      zeros == (2 * size - 1 - LengthOf[kind] - (n % size)) % size
  IN  <<Mark>> \o Fill(zeros + LengthOf[kind] - 1, Zero) \o <<Bits(n * 8)>>

StandardSha(kind, message) ==
  Digest(kind, Absorb([iv |-> kind, blocks |-> <<>>], message \o StandardPadding(kind, Len(message)), BlockOf[kind]))

StandardKey(kind, size) ==
  LET key == IF size > BlockOf[kind] THEN StandardSha(kind, Cells(size, KeyByte)) ELSE Cells(size, KeyByte)
  IN  key \o Fill(BlockOf[kind] - Len(key), Zero)

StandardHmac(kind, size, message) ==
  LET Under(pad) == [i \in 1 .. BlockOf[kind] |-> Padded(StandardKey(kind, size)[i], pad)]
  IN  StandardSha(kind, Under("opad") \o StandardSha(kind, Under("ipad") \o message))

\* The MAC is the standard's for the key and for the bytes since the last
\* init or reinit, however they were cut into pieces: nothing of an earlier
\* message, of an earlier padding or of unwritten memory is in it
\* (update, final and PadMessage of each algorithm; init and reinit of HMAC).
MacIsStandard ==
  mac # NoMac => mac = SubSeq(StandardHmac(shaKind, keySize, Cells(said, Byte)), 1, macSize)
=============================================================================
