---------------------------- MODULE OgsMilenage ----------------------------
(***************************************************************************)
(* src/crypt/milenage.c: the authentication of a subscriber and a network  *)
(* by a common key, on the cipher of OgsAes.                               *)
(*                                                                         *)
(* An output the caller gives no buffer for is left out by taking only     *)
(* some fields of a result.  (OgsAes never fails, so the error returns of  *)
(* f1 and f2345 are never taken.)                                          *)
(***************************************************************************)
EXTENDS OgsAes, TLC

EncryptBlock(k, in) == Encrypt(SetupEnc(k), in)

\* The bytes of a block turned to the left by n of them, as the loops do that
\* write byte i to place (i + 16 - n) % 16.
Turned(block, n) == SubSeq(block, n + 1, 16) \o SubSeq(block, 1, n)
WithLast(block, c) == [block EXCEPT ![16] = Xor(@, c)]

Macs(out) == [macA |-> SubSeq(out, 1, 8), macS |-> SubSeq(out, 9, 16)]
F1(opc, k, rand, sqn, amf) ==
  LET in1 == XorAll(sqn \o amf \o sqn \o amf, opc)
  IN  Macs(XorAll(EncryptBlock(k, XorAll(Turned(in1, 8), EncryptBlock(k, XorAll(rand, opc)))), opc))

OutputOf(opc, k, temp, n, c) == XorAll(EncryptBlock(k, WithLast(Turned(temp, n), c)), opc)
Keys(out2, ck, ik, akstar) ==
  [res |-> SubSeq(out2, 9, 16), ak |-> SubSeq(out2, 1, 6), ck |-> ck, ik |-> ik, akstar |-> akstar]
KeysOf(opc, k, temp) ==
  Keys(OutputOf(opc, k, temp, 0, 1), OutputOf(opc, k, temp, 4, 2), OutputOf(opc, k, temp, 8, 4),
       SubSeq(OutputOf(opc, k, temp, 12, 8), 1, 6))
F2345(opc, k, rand) == KeysOf(opc, k, XorAll(EncryptBlock(k, XorAll(rand, opc)), opc))

MilenageOpc(k, op) == XorAll(EncryptBlock(k, op), op)

\* milenage_generate, in the home network.
Vector(f, macA, amf, sqn) ==
  [resLen |-> 8, res |-> f.res, ck |-> f.ck, ik |-> f.ik, autn |-> XorAll(sqn, f.ak) \o amf \o macA]
Generate(opc, amf, k, sqn, rand, resLen) ==
  IF resLen < 8 THEN [resLen |-> 0]
  ELSE Vector(F2345(opc, k, rand), F1(opc, k, rand, sqn, amf).macA, amf, sqn)

\* memcmp as far as its sign: the first byte that differs decides.
Later(s, t) ==
  \E i \in DOMAIN s : s[i] > t[i] /\ \A j \in 1 .. i - 1 : s[j] = t[j]

NoAmf == <<0, 0>>

\* milenage_check, in the terminal, whose last sequence number is sqn: first
\* is the number new, then is the code right.
CheckWith(f, opc, k, sqn, rand, autn) ==
  LET rxSqn == XorAll(SubSeq(autn, 1, 6), f.ak)
      results(auts, ret) == [res |-> f.res, ck |-> f.ck, ik |-> f.ik, auts |-> auts, ret |-> ret]
  IN  IF ~Later(rxSqn, sqn)
      THEN results(XorAll(sqn, f.akstar) \o F1(opc, k, rand, sqn, NoAmf).macS, -2)
      ELSE IF F1(opc, k, rand, rxSqn, SubSeq(autn, 7, 8)).macA # SubSeq(autn, 9, 16)
      THEN results(<<>>, -1)
      ELSE results(<<>>, 0)
Check(opc, k, sqn, rand, autn) == CheckWith(F2345(opc, k, rand), opc, k, sqn, rand, autn)

\* milenage_auts, in the home network.
AutsWith(sqn, opc, k, rand, macS) ==
  [sqn |-> sqn, ret |-> IF F1(opc, k, rand, sqn, NoAmf).macS = macS THEN 0 ELSE -1]
Auts(opc, k, rand, auts) ==
  AutsWith(XorAll(SubSeq(auts, 1, 6), F2345(opc, k, rand).akstar), opc, k, rand, SubSeq(auts, 7, 14))

\* gsm_milenage: the halves of each output are added.
Halved(out) == XorAll(SubSeq(out, 1, Len(out) \div 2), SubSeq(out, Len(out) \div 2 + 1, Len(out)))
GsmOf(f) == [kc |-> XorAll(Halved(f.ck), Halved(f.ik)), sres |-> Halved(f.res)]
GsmMilenage(opc, k, rand) == GsmOf(F2345(opc, k, rand))

-----------------------------------------------------------------------------
(* Reference: TS 35.206, where block rotations and constants are of bits   *)

\* Bit 0 of a block is its most significant one.
Bit(block, i) == (block[(i \div 8) + 1] \div 2 ^ (7 - (i % 8))) % 2
FromBits(bit(_)) ==
  Evaluated([n \in 1 .. 16 |->
    LET value(i) == bit(8 * (n - 1) + i) * 2 ^ (7 - i)
    IN  value(0) + value(1) + value(2) + value(3) + value(4) + value(5) + value(6) + value(7)])
RotateBits(block, r) == FromBits(LAMBDA i : Bit(block, (i + r) % 128))

\* OUT_n: rotations 64, 0, 32, 64, 96; constants 0, 1, 2, 4, 8, of which each
\* but the first is one bit, from the last of the block on.
Rotation == <<64, 0, 32, 64, 96>>
InOf(n, temp, opc, in1) ==
  IF n = 1 THEN XorAll(temp, RotateBits(XorAll(in1, opc), Rotation[1]))
  ELSE RotateBits(XorAll(temp, opc), Rotation[n])
Out(n, opc, k, rand, in1) ==
  LET constant == FromBits(LAMBDA i : IF i = 129 - n THEN 1 ELSE 0)
  IN  XorAll(FipsCipher(k, XorAll(InOf(n, FipsCipher(k, XorAll(rand, opc)), opc, in1), constant)), opc)

\* A challenge of the network with sequence number sqnHe, of which `damage'
\* changes one byte, reaches a terminal that has seen sqnMs.  The terminal
\* accepts it only whole and new, and then has the keys of the network; it asks
\* for another when it is old, and the network then learns the number of the
\* terminal, unless that answer is damaged; a changed challenge never leads
\* to keys.
AkaAgreesWith(opc, k, rand, amf, sqnHe, sqnMs, damage, net, term, out) ==
  LET keys(s) == <<s.res, s.ck, s.ik>>
  IN  /\ net.autn = XorAll(sqnHe, SubSeq(out[2], 1, 6)) \o amf \o SubSeq(out[1], 1, 8)
      /\ keys(net) = <<SubSeq(out[2], 9, 16), out[3], out[4]>>
      /\ term.ret = 0 <=> damage = 0 /\ Later(sqnHe, sqnMs)
      /\ term.ret = 0 => keys(term) = keys(net)
      /\ damage \notin 1 .. 6 => (term.ret = -2 <=> ~Later(sqnHe, sqnMs))
      /\ term.ret = -2 =>
           /\ SubSeq(term.auts, 1, 6) = XorAll(sqnMs, SubSeq(out[5], 1, 6))
           /\ Auts(opc, k, rand, term.auts) = [sqn |-> sqnMs, ret |-> 0]
           /\ Auts(opc, k, rand, [term.auts EXCEPT ![7] = Xor(@, 1)]).ret = -1
      /\ Generate(opc, amf, k, sqnHe, rand, 7) = [resLen |-> 0]
      /\ GsmMilenage(opc, k, rand) =
           [kc |-> [i \in 1 .. 8 |-> Xor(Xor(out[3][i], out[3][i + 8]), Xor(out[4][i], out[4][i + 8]))],
            sres |-> [i \in 1 .. 4 |-> Xor(out[2][i + 8], out[2][i + 12])]]

\* The challenge is made, changed, and answered.
AkaOf(opc, k, rand, amf, sqnHe, sqnMs, damage, net) ==
  LET autn == IF damage = 0 THEN net.autn ELSE [net.autn EXCEPT ![damage] = Xor(@, 1)]
  IN  AkaAgreesWith(opc, k, rand, amf, sqnHe, sqnMs, damage, net, Check(opc, k, sqnMs, rand, autn),
                    [n \in 1 .. 5 |-> Out(n, opc, k, rand, sqnHe \o amf \o sqnHe \o amf)])
AkaFrom(opc, k, rand, amf, sqnHe, sqnMs, damage) ==
  AkaOf(opc, k, rand, amf, sqnHe, sqnMs, damage, Generate(opc, amf, k, sqnHe, rand, 8))
AkaAgrees(op, k, rand, amf, sqnHe, sqnMs, damage) ==
  AkaFrom(MilenageOpc(k, op), k, rand, amf, sqnHe, sqnMs, damage)
=============================================================================
