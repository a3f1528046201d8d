------------------------------ MODULE OgsConv ------------------------------
(***************************************************************************)
(* The conversions of src/core/ogs-conv.c, src/core/ogs-3gpp-types.c and   *)
(* the subnets of src/core/ogs-sockaddr.c.                                 *)
(*                                                                         *)
(* A byte is a number below 256; of a text only what its digits, blanks    *)
(* and dots are matters.  A failed assertion of the code is Failed.        *)
(***************************************************************************)
EXTENDS Integers, SequencesExt

CONSTANTS Failed

Blank == 16   \* among the hexadecimal digits 0 .. 15
Dot == 0      \* among the letters 1, 2, ...

High(byte) == byte \div 16
Low(byte) == byte % 16

-----------------------------------------------------------------------------
(* ogs-conv.c                                                              *)

\* ogs_ascii_to_hex: digits two by two, blanks anywhere; a last digit without
\* a partner is the high half of a byte.
AsciiToHex(text, outLen) ==
  FoldLeft(LAMBDA s, c :
             CASE c = Blank -> s
               [] c # Blank /\ s.half -> [out |-> Append(Front(s.out), Last(s.out) + c), half |-> FALSE]
               [] c # Blank /\ ~s.half /\ Len(s.out) < outLen ->
                    [out |-> Append(s.out, 16 * c), half |-> TRUE]
               [] OTHER -> s,
           [out |-> <<>>, half |-> FALSE], text).out

\* ogs_hex_to_ascii: a blank after each fourth byte but the last one, and the
\* end of the text, which is not shown.
HexToAscii(bytes, outLen) ==
  LET l == IF Len(bytes) > outLen THEN outLen ELSE Len(bytes)
  IN  FlattenSeq([i \in 1 .. l |->
        <<High(bytes[i]), Low(bytes[i])>> \o (IF i % 4 = 0 /\ i # l THEN <<Blank>> ELSE <<>>)])

\* The limit of the first counts the bytes it writes; that of the second the
\* bytes it reads, so that what it writes is longer.
HexAgrees(bytes) ==
  \A n \in 1 .. Len(bytes) :
    LET text == HexToAscii(bytes, n)
    IN  /\ AsciiToHex(text, Len(bytes)) = SubSeq(bytes, 1, n)
        /\ AsciiToHex(HexToAscii(bytes, Len(bytes)), n) = SubSeq(bytes, 1, n)
        /\ Len(text) = 2 * n + (n - 1) \div 4

\* ogs_uint64_to_buffer, ogs_buffer_to_uint64.
UintToBuffer(num, size) == [i \in 1 .. size |-> (num \div 256 ^ (size - i)) % 256]
BufferToUint(bytes) == FoldLeft(LAMBDA acc, b : acc * 256 + b, 0, bytes)

UintAgrees(num) ==
  \A size \in 1 .. 3 : BufferToUint(UintToBuffer(num, size)) = num % 256 ^ size

\* ogs_bcd_to_buffer: the first digit of two is the low half.
BcdToBuffer(digits) ==
  [i \in 1 .. (Len(digits) + 1) \div 2 |->
     digits[2 * i - 1] + 16 * (IF 2 * i <= Len(digits) THEN digits[2 * i] ELSE 15)]

\* ogs_buffer_to_bcd: only the last byte may end with the filler.
BufferToBcd(bytes) ==
  FlattenSeq([i \in DOMAIN bytes |->
    IF i = Len(bytes) /\ High(bytes[i]) = 15 THEN <<Low(bytes[i])>>
    ELSE <<Low(bytes[i]), High(bytes[i])>>])

BcdAgrees(digits) == BufferToBcd(BcdToBuffer(digits)) = digits

-----------------------------------------------------------------------------
(* ogs-3gpp-types.c                                                        *)

Digit(x, i) == (x \div 10 ^ (3 - i)) % 10

\* The halves of the three bytes, as ogs_plmn_id_build fills them.
PlmnBuild(mcc, mnc, mncLen) ==
  [mcc1 |-> Digit(mcc, 1), mcc2 |-> Digit(mcc, 2), mcc3 |-> Digit(mcc, 3),
   mnc1 |-> IF mncLen = 2 THEN 15 ELSE Digit(mnc, 1),
   mnc2 |-> Digit(mnc, 2), mnc3 |-> Digit(mnc, 3)]

PlmnBytes(p) == <<p.mcc2 * 16 + p.mcc1, p.mnc1 * 16 + p.mcc3, p.mnc3 * 16 + p.mnc2>>
PlmnHexdump(p) == BufferToUint(PlmnBytes(p))

PlmnMcc(p) == p.mcc1 * 100 + p.mcc2 * 10 + p.mcc3
PlmnMncLen(p) == IF p.mnc1 = 15 THEN 2 ELSE 3
PlmnMnc(p) == (IF p.mnc1 = 15 THEN 0 ELSE p.mnc1 * 100) + p.mnc2 * 10 + p.mnc3

\* What was built is read again, and no other code has the same bytes.
PlmnAgrees(mcc, mnc, mncLen) ==
  LET p == PlmnBuild(mcc, mnc, mncLen)
      bytes == UintToBuffer(PlmnHexdump(p), 3)
  IN  /\ <<PlmnMcc(p), PlmnMnc(p), PlmnMncLen(p)>> =
           <<mcc, IF mncLen = 2 THEN mnc % 100 ELSE mnc, mncLen>>
      /\ [mcc1 |-> Low(bytes[1]), mcc2 |-> High(bytes[1]), mcc3 |-> Low(bytes[2]),
          mnc1 |-> High(bytes[2]), mnc2 |-> Low(bytes[3]), mnc3 |-> High(bytes[3])] = p

\* ogs_fqdn_build: i - j is the place of the length of the label that is
\* being copied, behind which its j letters stand.
FqdnBuild(name) ==
  LET step(s, i) ==
        IF name[i] = Dot THEN [dst |-> Append([s.dst EXCEPT ![i - s.j] = s.j], 0), j |-> 0]
        ELSE [dst |-> Append(s.dst, name[i]), j |-> s.j + 1]
      all == FoldLeft(step, [dst |-> <<0>>, j |-> 0], [i \in DOMAIN name |-> i])
  IN  [all.dst EXCEPT ![Len(name) + 1 - all.j] = all.j]

RECURSIVE FqdnParse(_)
FqdnParse(src) ==
  LET len == src[1]
      rest == SubSeq(src, len + 2, Len(src))
  IN  SubSeq(src, 2, len + 1) \o (IF rest = <<>> THEN <<>> ELSE <<Dot>> \o FqdnParse(rest))

FqdnAgrees(name) == /\ FqdnParse(FqdnBuild(name)) = name
                    /\ Len(FqdnBuild(name)) = Len(name) + 1

MaxPcoIds == 16

\* ogs_pco_build: the first byte, then id, length and data of each container.
PcoBuild(pco, dataLen) ==
  LET bytes == <<128 * pco.ext + 8 * pco.spare + pco.protocol>> \o
               FlattenSeq([i \in DOMAIN pco.ids |->
                 UintToBuffer(pco.ids[i].id, 2) \o <<Len(pco.ids[i].data)>> \o pco.ids[i].data])
  IN  IF Len(pco.ids) > MaxPcoIds \/ Len(bytes) > dataLen THEN Failed ELSE bytes

RECURSIVE PcoIds(_, _)
PcoIds(data, room) ==
  IF data = <<>> \/ room = 0 THEN [ids |-> <<>>, rest |-> data]
  ELSE LET len == data[3]
           more == PcoIds(SubSeq(data, 4 + len, Len(data)), room - 1)
       IN  [ids |-> <<[id |-> BufferToUint(SubSeq(data, 1, 2)),
                       data |-> SubSeq(data, 4, 3 + len)]>> \o more.ids,
            rest |-> more.rest]

\* ogs_pco_parse: the containers there is room for must be all.
PcoParse(data) ==
  LET found == PcoIds(Tail(data), MaxPcoIds)
  IN  IF found.rest # <<>> THEN Failed
      ELSE [ext |-> data[1] \div 128, spare |-> 0, protocol |-> data[1] % 8, ids |-> found.ids]

PcoAgrees(pco, dataLen) ==
  LET size == 1 + FoldLeft(LAMBDA n, c : n + 3 + Len(c.data), 0, pco.ids)
      built == PcoBuild(pco, dataLen)
  IN  IF Len(pco.ids) <= MaxPcoIds /\ size <= dataLen
      THEN PcoParse(built) = [pco EXCEPT !.spare = 0]
      ELSE built = Failed

\* OGS_NEXT_ID and OGS_COMPARE_ID of ogs-3gpp-types.h.
NextId(id, min, max) == IF id = max THEN min ELSE id + 1
CompareId(a, b, max) == CASE b > a -> IF b - a < max - 1 THEN -1 ELSE 1
                          [] a > b -> IF a - b < max - 1 THEN 1 ELSE -1
                          [] OTHER -> 0

\* The next id counts as later, over the end of the range too, and of two
\* different ids one is later.
IdsAgree(a, b, min, max) ==
  /\ CompareId(a, NextId(a, min, max), max) = -1
  /\ CompareId(a, b, max) = -CompareId(b, a, max)

\* OGS_TIME_TO_BCD.
TimeToBcd(x) == (((x % 10) * 16) % 256) + ((x \div 10) % 16)
TimeAgrees(x) == /\ High(TimeToBcd(x)) = x % 10
                 /\ Low(TimeToBcd(x)) = x \div 10

-----------------------------------------------------------------------------
(* ogs_ipsubnet                                                            *)

\* The mask of 32-bit words for a number of bits: whole words while at least
\* 32 are left; bit 0 is the first on the wire.
AllOnes == 0 .. 31

\* The loop over the bits of the last word brings a leading bit each round.
LeadingBits(bits) == UNION {0 .. k - 1 : k \in 1 .. bits}

PrefixMask(bits) ==
  [e \in 0 .. 3 |-> IF bits > 32 * (e + 1) THEN AllOnes
                    ELSE IF bits > 32 * e THEN LeadingBits(bits - 32 * e) ELSE {}]

\* parse_network: each component of "9.67." is an octet of address and mask.
ParseNetwork(components) ==
  IF Len(components) > 4 \/ \E i \in DOMAIN components : components[i] > 255 THEN Failed
  ELSE [sub |-> [i \in 1 .. 4 |-> IF i <= Len(components) THEN components[i] ELSE 0],
        mask |-> UNION {8 * (i - 1) .. 8 * i - 1 : i \in DOMAIN components}]

\* ogs_ipsubnet with a number of bits: address bits outside the mask are
\* turned off (fix_subnet).
Ipsubnet(family, sub, bits) ==
  IF bits < 1 \/ bits > (IF family = "inet6" THEN 128 ELSE 32) THEN Failed
  ELSE [e \in 0 .. 3 |-> sub[e] \cap PrefixMask(bits)[e]]

\* As many bits of the address as asked for, counted over the words, and
\* nothing else, remain; a network written with n components has the mask of
\* 8 * n bits.
SubnetAgrees(family, sub, bits) ==
  /\ bits \in 1 .. 32 \/ (family = "inet6" /\ bits \in 33 .. 128) =>
       Ipsubnet(family, sub, bits) = [e \in 0 .. 3 |-> {b \in sub[e] : 32 * e + b < bits}]
  /\ \A n \in 1 .. 4 : ParseNetwork([i \in 1 .. n |-> 9]).mask = PrefixMask(8 * n)[0]
=============================================================================
