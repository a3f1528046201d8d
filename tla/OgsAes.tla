------------------------------- MODULE OgsAes -------------------------------
(***************************************************************************)
(* src/crypt/ogs-aes.c: the block cipher with its tables, the modes CBC    *)
(* and CTR; src/crypt/ogs-aes-cmac.c.                                      *)
(*                                                                         *)
(* A byte is a number below 256, a word <<b0, b1, b2, b3>> with the most   *)
(* significant byte first, a text a sequence of bytes.                     *)
(***************************************************************************)
EXTENDS Integers, SequencesExt

-----------------------------------------------------------------------------
(* Bytes as polynomials over GF(2)                                         *)

\* A function that TLC evaluates once, where it is defined; a sequence.
Table(f) == <<>> @@ f
Evaluated(s) == <<>> \o s

RECURSIVE BitsXor(_, _)
BitsXor(a, b) == IF a = b THEN 0 ELSE ((a + b) % 2) + 2 * BitsXor(a \div 2, b \div 2)
ByteXor == Table([a \in 0 .. 255 |-> Table([b \in 0 .. 255 |-> BitsXor(a, b)])])
Xor(a, b) == ByteXor[a][b]

XorAll(s, t) == Evaluated([i \in DOMAIN s |-> Xor(s[i], t[i])])
XorWord(v, w) == Evaluated([i \in 1 .. 4 |-> Xor(v[i], w[i])])

Double == Table([a \in 0 .. 255 |-> IF a < 128 THEN 2 * a ELSE Xor((2 * a) % 256, 27)])

\* The product modulo the polynomial of the cipher, from the highest bit of b on.
Times(a, b) ==
  LET high[k \in 0 .. 8] == IF k = 8 THEN 0
                            ELSE Xor(Double[high[k + 1]], IF (b \div 2 ^ k) % 2 = 1 THEN a ELSE 0)
  IN  high[0]
InverseOf == Table([a \in 0 .. 255 |-> IF a = 0 THEN 0 ELSE CHOOSE b \in 1 .. 255 : Times(a, b) = 1])

\* The affine map: x and its four rotations to the left, plus 99.
RotateLeft(x, n) == ((x * 2 ^ n) % 256) + (x * 2 ^ n) \div 256
Affine(x) == Xor(99, Xor(x, Xor(Xor(RotateLeft(x, 1), RotateLeft(x, 2)), Xor(RotateLeft(x, 3), RotateLeft(x, 4)))))
Sbox == Table([a \in 0 .. 255 |-> Affine(InverseOf[a])])
SboxInverse == Table([b \in 0 .. 255 |-> CHOOSE a \in 0 .. 255 : Sbox[a] = b])

-----------------------------------------------------------------------------
(* The tables                                                              *)

Column(a, c) == Evaluated([i \in 1 .. 4 |-> Times(a, c[i])])

Te0 == Table([x \in 0 .. 255 |-> Column(Sbox[x], <<2, 1, 1, 3>>)])
Te1 == Table([x \in 0 .. 255 |-> Column(Sbox[x], <<3, 2, 1, 1>>)])
Te2 == Table([x \in 0 .. 255 |-> Column(Sbox[x], <<1, 3, 2, 1>>)])
Te3 == Table([x \in 0 .. 255 |-> Column(Sbox[x], <<1, 1, 3, 2>>)])
Te4 == Table([x \in 0 .. 255 |-> Column(Sbox[x], <<1, 1, 1, 1>>)])
Td0 == Table([x \in 0 .. 255 |-> Column(SboxInverse[x], <<14, 9, 13, 11>>)])
Td1 == Table([x \in 0 .. 255 |-> Column(SboxInverse[x], <<11, 14, 9, 13>>)])
Td2 == Table([x \in 0 .. 255 |-> Column(SboxInverse[x], <<13, 11, 14, 9>>)])
Td3 == Table([x \in 0 .. 255 |-> Column(SboxInverse[x], <<9, 13, 11, 14>>)])
Td4 == Table([x \in 0 .. 255 |-> Column(SboxInverse[x], <<1, 1, 1, 1>>)])
Rcon == <<1, 2, 4, 8, 16, 32, 64, 128, 27, 54>>

\* GETU32 at a place that counts from 0.
GetWord(bytes, n) == SubSeq(bytes, n + 1, n + 4)

-----------------------------------------------------------------------------
(* The key schedule                                                        *)

\* The last byte of each entry that the masks of the code keep.
SubWord(w) == Evaluated([i \in 1 .. 4 |-> Te4[w[i]][i]])
RotWord(w) == Evaluated([i \in 1 .. 4 |-> w[(i % 4) + 1]])

\* The turns of the loop for a key of nk words.
Turns(nk) == CASE nk = 4 -> 10 [] nk = 6 -> 8 [] nk = 8 -> 7

\* `n' more words, each the sum of the last one and the one a key before it.
RECURSIVE Chained(_, _, _)
Chained(rk, nk, n) ==
  IF n = 0 THEN rk
  ELSE Chained(Append(rk, XorWord(Last(rk), rk[Len(rk) - nk + 1])), nk, n - 1)

\* One turn of the loops of setup_enc: four words, the first with a
\* substitution; the last turn ends there, the others bring as many as the key
\* has, of which those of the second half of a 256-bit key start with another
\* substitution.
TurnStart(rk, nk, i) ==
  Append(rk, XorWord(XorWord(rk[Len(rk) - nk + 1], SubWord(RotWord(Last(rk)))), <<Rcon[i], 0, 0, 0>>))
HalfStart(rk, nk) == Append(rk, XorWord(rk[Len(rk) - nk + 1], SubWord(Last(rk))))
TurnEnd(rk, nk, last) ==
  CASE last \/ nk = 4 -> rk
    [] ~last /\ nk = 6 -> Chained(rk, nk, 2)
    [] ~last /\ nk = 8 -> Chained(HalfStart(rk, nk), nk, 3)
ExpandTurn(rk, nk, i, last) == TurnEnd(Chained(TurnStart(rk, nk, i), nk, 3), nk, last)

RECURSIVE Expand(_, _, _, _)
Expand(rk, nk, i, turns) ==
  IF i > turns THEN rk ELSE Expand(ExpandTurn(rk, nk, i, i = turns), nk, i + 1, turns)

\* ogs_aes_setup_enc, with the number of rounds it returns.
SetupEnc(key) ==
  LET nk == Len(key) \div 4
      words == Expand([w \in 1 .. nk |-> GetWord(key, 4 * (w - 1))], nk, 1, Turns(nk))
  IN  [rk |-> words, rounds |-> nk + 6]

\* ogs_aes_setup_dec: the round keys from the last to the first, those between
\* through the inverse mixing (Te4 undoes the substitution in the tables).
InverseMix(w) == XorWord(XorWord(Td0[Te4[w[1]][4]], Td1[Te4[w[2]][4]]),
                         XorWord(Td2[Te4[w[3]][4]], Td3[Te4[w[4]][4]]))
Inverted(enc) ==
  [enc EXCEPT !.rk = Evaluated([n \in DOMAIN enc.rk |->
     LET r == (n - 1) \div 4
         w == enc.rk[n - 4 * r + 4 * (enc.rounds - r)]
     IN  IF r \in 1 .. enc.rounds - 1 THEN InverseMix(w) ELSE w])]
SetupDec(key) == Inverted(SetupEnc(key))

-----------------------------------------------------------------------------
(* The cipher                                                              *)

Columns(column(_)) == Evaluated([j \in 1 .. 4 |-> column(j)])
FirstKey(key, text) ==
  Columns(LAMBDA j : XorWord(GetWord(text, 4 * (j - 1)), key.rk[j]))
Bytes(s) == s[1] \o s[2] \o s[3] \o s[4]

\* The column `n' places to the right of column j, around the end.
ColumnOf(s, j, n) == s[((j + n - 1) % 4) + 1]

\* One round (the code has them unrolled): the bytes of a column come from
\* four columns, to the right when it encrypts and to the left otherwise.
EncRound(s, rk, r) ==
  Columns(LAMBDA j :
    XorWord(XorWord(XorWord(Te0[ColumnOf(s, j, 0)[1]], Te1[ColumnOf(s, j, 1)[2]]),
                    XorWord(Te2[ColumnOf(s, j, 2)[3]], Te3[ColumnOf(s, j, 3)[4]])), rk[4 * r + j]))
DecRound(s, rk, r) ==
  Columns(LAMBDA j :
    XorWord(XorWord(XorWord(Td0[ColumnOf(s, j, 0)[1]], Td1[ColumnOf(s, j, 3)[2]]),
                    XorWord(Td2[ColumnOf(s, j, 2)[3]], Td3[ColumnOf(s, j, 1)[4]])), rk[4 * r + j]))

\* The last round does not mix.
EncLast(s, rk, r) ==
  Columns(LAMBDA j : XorWord([n \in 1 .. 4 |-> Te4[ColumnOf(s, j, n - 1)[n]][n]], rk[4 * r + j]))
DecLast(s, rk, r) ==
  Columns(LAMBDA j : XorWord([n \in 1 .. 4 |-> Td4[ColumnOf(s, j, 5 - n)[n]][n]], rk[4 * r + j]))

\* The other rounds and the last one.  (Len has TLC compute each state before
\* the next.)
RECURSIVE EncRounds(_, _, _)
EncRounds(s, key, r) ==
  IF Len(s) = 4 /\ r < key.rounds THEN EncRounds(EncRound(s, key.rk, r), key, r + 1)
  ELSE EncLast(s, key.rk, r)
RECURSIVE DecRounds(_, _, _)
DecRounds(s, key, r) ==
  IF Len(s) = 4 /\ r < key.rounds THEN DecRounds(DecRound(s, key.rk, r), key, r + 1)
  ELSE DecLast(s, key.rk, r)

\* ogs_aes_encrypt, ogs_aes_decrypt with a key schedule.
Encrypt(key, text) == Bytes(EncRounds(FirstKey(key, text), key, 1))
Decrypt(key, text) == Bytes(DecRounds(FirstKey(key, text), key, 1))

-----------------------------------------------------------------------------
(* The modes                                                               *)

BlockLen == 16
Piece(text, i) == SubSeq(text, BlockLen * (i - 1) + 1,
                         IF BlockLen * i > Len(text) THEN Len(text) ELSE BlockLen * i)
Pieces(text) == [i \in 1 .. (Len(text) + BlockLen - 1) \div BlockLen |-> Piece(text, i)]

\* The bytes of the chain a short last piece does not reach stay.
Chain(iv, piece) == [n \in 1 .. BlockLen |-> IF n <= Len(piece) THEN Xor(piece[n], iv[n]) ELSE iv[n]]

\* ogs_aes_cbc_encrypt into *outlen bytes: what it writes (nothing when it
\* refuses), and the vector for the next call.
EncryptChained(key, ivec, pieces) ==
  FoldLeft(LAMBDA s, piece : LET c == Encrypt(key, Chain(s.ivec, piece))
                             IN  [out |-> s.out \o c, ivec |-> c],
           [out |-> <<>>, ivec |-> ivec], pieces)
CbcEncrypt(bits, ivec, in, outlen) ==
  IF outlen < BlockLen * Len(Pieces(in)) THEN [out |-> <<>>, ivec |-> ivec]
  ELSE EncryptChained(SetupEnc(bits), ivec, Pieces(in))

\* (seeded fault: in place, the vector is the block that was just written)
DecryptChainedOver(key, ivec, pieces) ==
  FoldLeft(LAMBDA s, c : LET p == XorAll(Decrypt(key, c), s.ivec)
                         IN  [out |-> s.out \o p, ivec |-> p],
           [out |-> <<>>, ivec |-> ivec], pieces)

\* ogs_aes_cbc_decrypt, of whole blocks only; into the same buffer it keeps
\* the block in `tmp' first.
DecryptChained(key, ivec, pieces) ==
  FoldLeft(LAMBDA s, c : [out |-> s.out \o XorAll(Decrypt(key, c), s.ivec), ivec |-> c],
           [out |-> <<>>, ivec |-> ivec], pieces)
CbcDecrypt(bits, ivec, in) ==
  IF Len(in) % BlockLen # 0 THEN [out |-> <<>>, ivec |-> ivec]
  ELSE DecryptChained(SetupDec(bits), ivec, Pieces(in))

\* ctr128_inc: from the last byte on, as long as it carries.
CounterInc(counter) ==
  FoldLeft(LAMBDA s, k : LET n == BlockLen + 1 - k
                         IN  [c |-> (s.c + counter[n]) \div 256,
                              out |-> <<(s.c + counter[n]) % 256>> \o s.out],
           [c |-> 1, out |-> <<>>], [k \in 1 .. BlockLen |-> k]).out

\* ogs_aes_ctr128_encrypt: the rest of the last key block is not kept.
EncryptCounted(key, ivec, pieces) ==
  FoldLeft(LAMBDA s, piece : [out |-> s.out \o XorAll(piece, Encrypt(key, s.ivec)),
                              ivec |-> CounterInc(s.ivec)],
           [out |-> <<>>, ivec |-> ivec], pieces)
CtrEncrypt(bits, ivec, in) == EncryptCounted(SetupEnc(bits), ivec, Pieces(in))

-----------------------------------------------------------------------------
(* ogs-aes-cmac.c                                                          *)

Zeros == [i \in 1 .. BlockLen |-> 0]

\* Each byte to the left with the first bit of the next; the last one is
\* reduced when a bit was lost.
Subkey(l) ==
  LET shifted == Evaluated([i \in 1 .. BlockLen |->
                    ((2 * l[i]) % 256) + (IF i < BlockLen THEN l[i + 1] \div 128 ELSE 0)])
  IN  IF l[1] < 128 THEN shifted ELSE [shifted EXCEPT ![BlockLen] = Xor(@, 135)]

SubkeysOf(k1) == <<k1, Subkey(k1)>>
GenerateSubkeys(bits) == SubkeysOf(Subkey(Encrypt(SetupEnc(bits), Zeros)))

\* ogs_aes_cmac_calculate.
LastMasked(rest, flag, subkeys) ==
  IF flag THEN XorAll(rest, subkeys[1])
  ELSE XorAll(rest \o <<128>> \o SubSeq(Zeros, Len(rest) + 2, BlockLen), subkeys[2])
Tag(key, mLast, pieces) ==
  Encrypt(key, XorAll(mLast, FoldLeft(LAMBDA x, piece : Encrypt(key, XorAll(x, piece)), Zeros, pieces)))
CmacCalculate(bits, msg) ==
  LET n == IF msg = <<>> THEN 1 ELSE (Len(msg) + 15) \div BlockLen
      flag == msg # <<>> /\ Len(msg) % BlockLen = 0
  IN  Tag(SetupEnc(bits), LastMasked(Piece(msg, n), flag, GenerateSubkeys(bits)),
          [i \in 1 .. n - 1 |-> Piece(msg, i)])

CmacVerify(cmac, bits, msg) == CmacCalculate(bits, msg) = cmac

-----------------------------------------------------------------------------
(* References: FIPS 197 byte by byte, SP 800-38A, RFC 4493                 *)

RECURSIVE DoubledOne(_)
DoubledOne(n) == IF n = 1 THEN 1 ELSE Double[DoubledOne(n - 1)]

\* w[i] of FIPS 197 from the words before it.
RECURSIVE FipsWords(_, _, _)
FipsWords(w, nk, n) ==
  LET i == Len(w)
      sub(v) == [b \in 1 .. 4 |-> Sbox[v[b]]]
      temp == CASE i % nk = 0 -> XorWord(sub(Tail(Last(w)) \o <<Head(Last(w))>>),
                                         <<DoubledOne(i \div nk), 0, 0, 0>>)
                [] nk > 6 /\ i % nk = 4 -> sub(Last(w))
                [] OTHER -> Last(w)
  IN  IF i = n THEN w ELSE FipsWords(Append(w, XorWord(w[i - nk + 1], temp)), nk, n)

\* The byte at row r and column c of the state is byte r + 4 * c of the text.
MixedByte(s, i) == LET r == (i - 1) % 4
                       row(k) == s[i - r + ((r + k) % 4)]
                   IN  Xor(Xor(Times(row(0), 2), Times(row(1), 3)), Xor(row(2), row(3)))
RECURSIVE FipsRounds(_, _, _, _)
FipsRounds(s, w, r, rounds) ==
  LET shifted == Evaluated([i \in 1 .. 16 |-> Sbox[s[(((i - 1) + 4 * ((i - 1) % 4)) % 16) + 1]]])
      mixed == [i \in 1 .. 16 |-> MixedByte(shifted, i)]
      roundKey == w[4 * r + 1] \o w[4 * r + 2] \o w[4 * r + 3] \o w[4 * r + 4]
  IN  IF Len(s) = 16 /\ r < rounds THEN FipsRounds(XorAll(mixed, roundKey), w, r + 1, rounds)
      ELSE XorAll(shifted, roundKey)

FipsCipher(bits, text) ==
  LET nk == Len(bits) \div 4
      w == FipsWords([i \in 1 .. nk |-> GetWord(bits, 4 * (i - 1))], nk, 4 * (nk + 7))
  IN  FipsRounds(XorAll(text, w[1] \o w[2] \o w[3] \o w[4]), w, 1, nk + 6)

\* The tables make the same cipher as the standard, the other tables undo it,
\* and the schedule fills the array a caller provides (OGS_AES_RKLENGTH).
AesAgrees(bits, text) ==
  /\ Encrypt(SetupEnc(bits), text) = FipsCipher(bits, text)
  /\ Decrypt(SetupDec(bits), FipsCipher(bits, text)) = text
  /\ Len(SetupEnc(bits).rk) = Len(bits) + 28

\* A text comes back, filled up with zeros; it may be given in two calls with
\* the vector the first one left, when that one was given whole blocks.  A
\* call that is refused leaves the vector for the next one.
CbcAgreesWith(all, bits, ivec, text, fill) ==
  LET room == Len(text) + fill
      second(first, cut) == CbcEncrypt(bits, first.ivec, SubSeq(text, cut + 1, Len(text)), room - cut)
      joined(first, cut) == [second(first, cut) EXCEPT !.out = first.out \o @]
  IN  /\ CbcEncrypt(bits, ivec, text, room - 1) = [out |-> <<>>, ivec |-> ivec]
      /\ fill # 0 => CbcDecrypt(bits, ivec, text) = [out |-> <<>>, ivec |-> ivec]
      /\ CbcDecrypt(bits, ivec, all.out) =
           [out |-> text \o SubSeq(Zeros, 1, fill), ivec |-> all.ivec]
      /\ \A cut \in {BlockLen * i : i \in 1 .. (Len(text) - 1) \div BlockLen} :
           joined(CbcEncrypt(bits, ivec, SubSeq(text, 1, cut), cut), cut) = all
CbcAgrees(bits, ivec, text) ==
  LET fill == (BlockLen - (Len(text) % BlockLen)) % BlockLen
  IN  CbcAgreesWith(CbcEncrypt(bits, ivec, text, Len(text) + fill), bits, ivec, text, fill)

\* Encrypting twice gives the text again; piece i is hidden by the counter
\* ivec + i - 1, over every carry, and two calls with whole blocks in the
\* first are one.
CtrAgrees(bits, ivec, text) ==
  LET all == CtrEncrypt(bits, ivec, text)
      plus(i) == FoldLeft(LAMBDA s, n : [c |-> (s.c + ivec[17 - n]) \div 256,
                                         out |-> <<(s.c + ivec[17 - n]) % 256>> \o s.out],
                          [c |-> i, out |-> <<>>], [n \in 1 .. 16 |-> n]).out
  IN  /\ CtrEncrypt(bits, ivec, all.out).out = text
      /\ all.ivec = plus(Len(Pieces(text)))
      /\ all.out = FlattenSeq([i \in DOMAIN Pieces(text) |->
                     XorAll(Piece(text, i), FipsCipher(bits, plus(i - 1)))])

\* RFC 4493: the subkeys are L and its double times x, modulo the polynomial
\* x^128 + x^7 + x^2 + x + 1; a number is here the set of its exponents.
Exponents(s) == {e \in 0 .. 127 : (s[16 - e \div 8] \div 2 ^ (e % 8)) % 2 = 1}
TimesX(p) == LET up == {e + 1 : e \in p}
                 low == {0, 1, 2, 7}
             IN  IF 128 \in up THEN ((up \ {128}) \ low) \cup (low \ up) ELSE up
RfcTag(bits, msg, k1) ==
  LET whole == msg # <<>> /\ Len(msg) % 16 = 0
      padded == IF whole THEN msg
                ELSE msg \o <<128>> \o SubSeq(Zeros, 1, 15 - (Len(msg) % 16))
      last == Len(padded) \div 16
      subkey == IF whole THEN k1 ELSE TimesX(k1)
      masked(i) == LET p == Exponents(Piece(padded, i))
                   IN  IF i = last THEN (p \ subkey) \cup (subkey \ p) ELSE p
      bytesOf(p) == [n \in 1 .. 16 |->
                       FoldLeft(LAMBDA acc, b : 2 * acc + (IF 8 * (16 - n) + 8 - b \in p THEN 1 ELSE 0),
                                0, [b \in 1 .. 8 |-> b])]
  IN  FoldLeft(LAMBDA x, i : FipsCipher(bits, XorAll(x, bytesOf(masked(i)))), Zeros,
               [i \in 1 .. last |-> i])
TagAgrees(tag, bits, msg) == /\ CmacCalculate(bits, msg) = tag
                             /\ CmacVerify(tag, bits, msg)
                             /\ ~CmacVerify([tag EXCEPT ![16] = Xor(@, 1)], bits, msg)
CmacAgrees(bits, msg) ==
  TagAgrees(RfcTag(bits, msg, TimesX(Exponents(FipsCipher(bits, Zeros)))), bits, msg)
=============================================================================
