------------------------------- MODULE MCLib -------------------------------
(***************************************************************************)
(* The parts of the library that keep their state to themselves, side by   *)
(* side: a behaviour uses one of them, with every sequence of calls.       *)
(***************************************************************************)
EXTENDS OgsMemory, OgsFsm, OgsTlv, OgsProcess, OgsLog, OgsSha, OgsCodecs

CONSTANT Parts    \* those that a run looks at

VARIABLE part

Others(mine) == /\ mine # "memory" => UNCHANGED <<vars, memory>>
                /\ mine # "fsm" => UNCHANGED fsmvars
                /\ mine # "tlv" => UNCHANGED tlvvars
                /\ mine # "process" => UNCHANGED procvars
                /\ mine \notin {"domains", "files"} => UNCHANGED logvars
                /\ mine # "sha" => UNCHANGED shavars
                /\ mine # "codec" => UNCHANGED input

\* Bounds: what the logs write to and what the domains are do not depend on
\* each other, so one part has one log and no rotation, the other one domain and
\* one level.
OneLog == /\ ToSet(logs') \subseteq {1} /\ disk' = disk
          /\ log'[1] # NoLog => log'[1].file \in {Stderr, "f"}
OneDomain == \A id \in ToSet(domains') : id = 1 /\ domain'[id].level = DefaultLevel

\* Of each part that is not used there is one initial state.
LibInit == /\ MemoryInit /\ FsmInit /\ TlvInit /\ ProcInit /\ LogInit /\ CodecInit /\ ShaStart
           /\ part \in Parts
           /\ part # "sha" => <<shaKind, keySize>> = <<"sha1", 0>>
           /\ part # "tlv" => tlvmode = CHOOSE m \in TlvModes : TRUE

LibNext == /\ \/ part = "memory" /\ MemoryNext
              \/ part = "fsm" /\ FsmNext
              \/ part = "tlv" /\ TlvNext
              \/ part = "process" /\ ProcNext
              \/ part = "domains" /\ LogNext /\ OneLog
              \/ part = "files" /\ LogNext /\ OneDomain
              \/ part = "sha" /\ ShaNext
              \/ part = "codec" /\ CodecCall
           /\ Others(part)
           /\ UNCHANGED part

LibSpec == LibInit /\ [][LibNext]_<<part, vars, memory, fsmvars, tlvvars, procvars, logvars, shavars, input>>

-----------------------------------------------------------------------------
(* Memory: a small class and a large one, whose sizes leave a block room   *)
(* to grow.                                                                *)
TwoClasses == 1 .. 2
TwoSizes == [k \in 1 .. 2 |-> 2 * k]
TwoPools == [k \in 1 .. 2 |-> 3 - k]

\* A chain of two kinds of element, one of which may hold others.
TwoElements == {[type |-> 6, instance |-> 0, value |-> <<1, 2>>], [type |-> 2, instance |-> 1, value |-> <<>>]}

\* The sizes of the algorithms in words of four bytes.  Keys up to the size of
\* a digest, or longer than a block: for the sizes between, init reads what is
\* behind its copy of the key (see KeyTemp), and no MAC is defined.
Algorithms == {"sha1", "sha224", "sha256", "sha384", "sha512"}
BlockWords == [k \in Algorithms |-> IF k \in {"sha384", "sha512"} THEN 32 ELSE 16]
LengthWords == [k \in Algorithms |-> IF k \in {"sha384", "sha512"} THEN 4 ELSE 2]
DigestWords == [k \in Algorithms |-> CASE k = "sha1" -> 5 [] k = "sha224" -> 7 [] k = "sha256" -> 8
                                       [] k = "sha384" -> 12 [] OTHER -> 16]
SafeKeys == [k \in Algorithms |-> {0, 1, DigestWords[k], BlockWords[k] + 1}]
-----------------------------------------------------------------------------
(* Inputs of the functions without state *)
UpTo(n, set) == UNION {[1 .. m -> set] : m \in 1 .. n}
Count(n) == [i \in 1 .. n |-> (37 * i) % 256]
Options == [c \in {"a", "r", "o"} |-> CASE c = "a" -> "none" [] c = "r" -> "required" [] c = "o" -> "optional"]
LongNames == <<[name |-> <<"l", "r">>, short |-> "r", argtype |-> "required"],
               [name |-> <<"l", "a">>, short |-> "a", argtype |-> "none"]>>
Words == {<<"f">>, <<"g">>, <<"-", "-">>, <<"-">>, <<"-", "a">>, <<"-", "r">>, <<"-", "a", "r">>, <<"-", "z">>,
          <<"-", "a", "z">>, <<"-", "r", "f">>, <<"-", "o">>, <<"-", "o", "a">>, <<"-", "-", "l", "r">>,
          <<"-", "-", "l", "r", "=", "v">>, <<"-", "-", "l", "a">>, <<"-", "-", "l", "a", "=">>, <<"-", "-", "x">>}
\* Texts whose characters are all different, one after another.
Texts(lengths) == [i \in DOMAIN lengths |-> [c \in 1 .. lengths[i] |-> 10 * i + c]]
Container(id, n) == [id |-> id, data |-> Count(n)]
OptionsOf(ids) == [ext |-> 1, spare |-> 5, protocol |-> 3, ids |-> ids]

Key == [i \in 1 .. 32 |-> i - 1]
Block == [i \in 1 .. 16 |-> 17 * (i - 1)]
NearCarry == [Block EXCEPT ![14] = 255, ![15] = 255, ![16] = 255]
Op == [i \in 1 .. 16 |-> (91 * i) % 256]
Sqn(x, y) == <<0, 0, 0, x, y, 7>>

Calls ==
  [codec \in {"hex", "uint", "bcd", "plmn", "fqdn", "pco", "id", "time", "subnet", "line", "path", "sleep",
              "getopt", "aes", "cbc", "ctr", "cmac", "aka"} |->
     CASE codec = "hex" -> {<<bytes>> : bytes \in UpTo(2, {0, 9, 171, 255}) \cup {Count(n) : n \in 3 .. 9}}
       [] codec = "uint" -> {<<n>> : n \in {0, 1, 255, 256, 257, 65535, 65536, 16777215, 16777216, 2147483647}}
       [] codec = "bcd" -> {<<digits>> : digits \in UpTo(4, {0, 4, 9})}
       [] codec = "plmn" -> {0, 1, 10, 208, 999} \X {0, 1, 10, 93, 99, 100, 208, 999} \X {2, 3}
       [] codec = "fqdn" -> {<<name>> : name \in {n \in UpTo(6, 0 .. 2) : /\ n[1] # 0 /\ n[Len(n)] # 0
                                                    /\ \A i \in 2 .. Len(n) : <<n[i - 1], n[i]>> # <<0, 0>>}}
       [] codec = "pco" -> {OptionsOf(<<>>), OptionsOf(<<Container(33, 2), Container(384, 0)>>),
                            OptionsOf([i \in 1 .. 16 |-> Container(i, 1)]), OptionsOf([i \in 1 .. 17 |-> Container(i, 0)])}
                           \X {1, 8, 9, 64, 65}
       [] codec = "id" -> (1 .. 8) \X (1 .. 8) \X {1} \X {8}
       [] codec = "time" -> {<<n>> : n \in 0 .. 99}
       [] codec = "subnet" -> {"inet", "inet6"} \X {[e \in 0 .. 3 |-> 0 .. 31], [e \in 0 .. 3 |-> {e, 7, 8, 31}]} \X (0 .. 129)
       [] codec = "line" -> {<<Texts(l)>> : l \in {<<>>} \cup UpTo(3, 0 .. 8)}
       [] codec = "path" -> {<<p>> : p \in UpTo(6, 1 .. 2)}
       [] codec = "sleep" -> {0, 1, 999999, 1000000, 2500000} \X ({<<>>} \cup UpTo(3, {0, 1, 999999, 1200000}))
       [] codec = "getopt" -> {<<args>> : args \in {<<>>} \cup UpTo(3, Words)}
       [] codec = "aes" -> {SubSeq(Key, 1, n) : n \in {16, 24, 32}} \X {Block}
       [] codec = "cbc" -> {SubSeq(Key, 1, 16)} \X {Block} \X {Key, Append(Key, 7)}
       [] codec = "ctr" -> {SubSeq(Key, 1, 16)} \X {NearCarry} \X {Append(Key, 7)}
       [] codec = "cmac" -> {SubSeq(Key, 1, 16)} \X {<<>>, SubSeq(Key, 1, 15), Key}
       [] codec = "aka" -> {Op} \X {SubSeq(Key, 1, 16)} \X {Block} \X {<<185, 185>>} \X {Sqn(1, 0)}
                           \X {Sqn(0, 9), Sqn(1, 0), Sqn(1, 1)} \X {0, 5, 9}]
=============================================================================
