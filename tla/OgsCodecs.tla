------------------------------ MODULE OgsCodecs ------------------------------
(***************************************************************************)
(* The functions of the library that keep no state, each on the inputs of  *)
(* a set: conversions, texts, command lines, and the ciphers.              *)
(*                                                                         *)
(* An input is the name of a function and its arguments; a behaviour       *)
(* calls one of them.                                                      *)
(***************************************************************************)
EXTENDS OgsConv, OgsText, OgsGetopt, OgsMilenage

CONSTANTS
  Inputs,      \* the lists of arguments, by function
  NoInput      \* no call yet

VARIABLE input \* the call: a function and its arguments

CodecInit == input = NoInput

CodecCall == /\ input = NoInput
             /\ \E codec \in DOMAIN Inputs : \E args \in Inputs[codec] :
                  input' = [codec |-> codec, args |-> args]

Called(codec) == input # NoInput /\ input.codec = codec

\* What one conversion makes of a value its inverse reads again: hexadecimal
\* texts, integers, BCD digits, PLMN identities, domain names, configuration
\* options, wrapping identifiers, times.  A subnet has the bits of its mask; a
\* line of the log, a path, a sleep that is interrupted and a command line with
\* options in any place are what they should be.  Where the functions have a
\* limit, ogs_ascii_to_hex, ogs_pco_build and the line of the log keep it, in
\* bytes; ogs_hex_to_ascii does not count the bytes it writes (see
\* HexStaysInside).  The predicates are stated with the functions in OgsConv,
\* OgsText and OgsGetopt.
CodecsAgree ==
  LET a == input.args
  IN  /\ Called("hex") => HexAgrees(a[1])
      /\ Called("uint") => UintAgrees(a[1])
      /\ Called("bcd") => BcdAgrees(a[1])
      /\ Called("plmn") => PlmnAgrees(a[1], a[2], a[3])
      /\ Called("fqdn") => FqdnAgrees(a[1])
      /\ Called("pco") => PcoAgrees(a[1], a[2])
      /\ Called("id") => IdsAgree(a[1], a[2], a[3], a[4])
      /\ Called("time") => TimeAgrees(a[1])
      /\ Called("subnet") => SubnetAgrees(a[1], a[2], a[3])
      /\ Called("line") => LineAgrees(a[1])
      /\ Called("path") => PathAgrees(a[1])
      /\ Called("sleep") => SleepAgrees(a[1], a[2])
      /\ Called("getopt") => GetoptAgrees(a[1])

\* ogs_hex_to_ascii, given the size of its buffer as out_len as in
\* conv-test.c, writes its text and the end of it inside the buffer.
HexStaysInside ==
  Called("hex") => \A size \in 1 .. 3 * Len(input.args[1]) :
                     Len(HexToAscii(input.args[1], size)) + 1 <= size

\* The ciphers with tables and unrolled loops are the standards' ciphers:
\* AES (FIPS 197) and its chained and counter modes (SP 800-38A), CMAC (RFC
\* 4493) and MILENAGE (TS 35.206), whose two ends agree on keys exactly when
\* the challenge is whole and new.
CryptAgrees ==
  LET a == input.args
  IN  /\ Called("aes") => AesAgrees(a[1], a[2])
      /\ Called("cbc") => CbcAgrees(a[1], a[2], a[3])
      /\ Called("ctr") => CtrAgrees(a[1], a[2], a[3])
      /\ Called("cmac") => CmacAgrees(a[1], a[2])
      /\ Called("aka") => AkaAgrees(a[1], a[2], a[3], a[4], a[5], a[6], a[7])
=============================================================================
