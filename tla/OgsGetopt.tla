------------------------------ MODULE OgsGetopt ------------------------------
(***************************************************************************)
(* src/core/ogs-getopt.c: the options of a command line, with permutation. *)
(*                                                                         *)
(* An argument is a sequence of characters.  A state of the parser is its  *)
(* ogs_getopt_t: argv (without the program's name, so that optind starts   *)
(* at 1), optind, subopt, optarg, and what the call returned.              *)
(***************************************************************************)
EXTENDS Integers, SequencesExt

CONSTANTS ShortOptions,  \* a function from characters to "none", "required", "optional"
          LongOptions    \* a sequence of records: name, short, argtype

NoArg == <<"no argument">>
End == "end of options"
Bad == "?"

IsDashDash(arg) == arg = <<"-", "-">>
IsShortOpt(arg) == Len(arg) > 1 /\ arg[1] = "-" /\ arg[2] # "-"
IsLongOpt(arg) == Len(arg) > 2 /\ arg[1] = "-" /\ arg[2] = "-"

Start(args) == [argv |-> args, optind |-> 1, subopt |-> 0, optarg |-> NoArg, ret |-> End]

\* ogs_getopt_permute: the argument at index goes behind those up to optind.
Permute(s, index) ==
  [s EXCEPT !.argv = SubSeq(@, 1, index - 1) \o SubSeq(@, index + 1, s.optind - 1)
                     \o <<@[index]>> \o SubSeq(@, s.optind, Len(@))]

ArgType(c) == IF c \in DOMAIN ShortOptions THEN ShortOptions[c] ELSE "unknown"

\* One option of the cluster "-abc" at optind.
ShortOption(s) ==
  LET option == SubSeq(s.argv[s.optind], s.subopt + 2, Len(s.argv[s.optind]))
      c == option[1]
      rest == Tail(option)
      done == [s EXCEPT !.subopt = 0, !.optind = @ + 1, !.ret = c, !.optarg = NoArg]
  IN  CASE ArgType(c) = "unknown" -> [s EXCEPT !.optind = @ + 1, !.ret = Bad, !.optarg = NoArg]
        [] ArgType(c) = "none" ->
             IF rest # <<>> THEN [s EXCEPT !.subopt = @ + 1, !.ret = c, !.optarg = NoArg] ELSE done
        [] ArgType(c) = "required" ->
             CASE rest # <<>> -> [done EXCEPT !.optarg = rest]
               [] rest = <<>> /\ s.optind < Len(s.argv) ->
                    [done EXCEPT !.optarg = s.argv[s.optind + 1], !.optind = @ + 1]
               [] OTHER -> [done EXCEPT !.ret = Bad]
        [] OTHER -> IF rest # <<>> THEN [done EXCEPT !.optarg = rest] ELSE done

\* The part before "=" is the name; the part behind it, or nothing.
NameOf(option) == IF Contains(option, "=")
                  THEN SubSeq(option, 1, SelectInSeq(option, LAMBDA c : c = "=") - 1)
                  ELSE option
ValueOf(option) == IF Contains(option, "=")
                   THEN SubSeq(option, SelectInSeq(option, LAMBDA c : c = "=") + 1, Len(option))
                   ELSE NoArg

LongOption(s) ==
  LET option == SubSeq(s.argv[s.optind], 3, Len(s.argv[s.optind]))
      next == [s EXCEPT !.optind = @ + 1, !.optarg = NoArg]
      matches == SelectSeq(LongOptions, LAMBDA o : o.name = NameOf(option))
      o == matches[1]
  IN  CASE matches = <<>> -> [next EXCEPT !.ret = Bad]
        [] matches # <<>> /\ o.argtype = "none" /\ ValueOf(option) # NoArg -> [next EXCEPT !.ret = Bad]
        [] matches # <<>> /\ ValueOf(option) # NoArg ->
             [next EXCEPT !.ret = o.short, !.optarg = ValueOf(option)]
        [] matches # <<>> /\ ValueOf(option) = NoArg /\ o.argtype = "required" ->
             IF s.optind = Len(s.argv) THEN [next EXCEPT !.ret = Bad]
             ELSE [next EXCEPT !.ret = o.short, !.optarg = s.argv[s.optind + 1], !.optind = @ + 1]
        [] OTHER -> [next EXCEPT !.ret = o.short]

\* ogs_getopt_long; ogs_getopt, to which it leaves the short options, does
\* the same without the case of the long ones.
RECURSIVE GetoptLong(_)
GetoptLong(s) ==
  IF s.optind > Len(s.argv) THEN [s EXCEPT !.ret = End]
  ELSE LET arg == s.argv[s.optind]
       IN  CASE IsDashDash(arg) -> [s EXCEPT !.optind = @ + 1, !.ret = End]
             [] IsShortOpt(arg) -> ShortOption(s)
             [] IsLongOpt(arg) -> LongOption(s)
             [] OTHER -> LET after == GetoptLong([s EXCEPT !.optind = @ + 1])
                         IN  [Permute(after, s.optind) EXCEPT !.optind = @ - 1]

\* A program calls it until the end, at most once for each character, and
\* gives up at the first option it does not know.
RECURSIVE AllOptions(_, _)
AllOptions(s, calls) ==
  LET next == GetoptLong(s)
  IN  IF next.ret \in {End, Bad} \/ calls = 0
      THEN [options |-> IF next.ret = Bad THEN <<<<Bad, NoArg>>>> ELSE <<>>, ended |-> calls > 0,
            operands |-> SubSeq(next.argv, next.optind, Len(next.argv))]
      ELSE LET more == AllOptions(next, calls - 1)
           IN  [more EXCEPT !.options = <<<<next.ret, next.optarg>>>> \o @]

-----------------------------------------------------------------------------
(* Reference: the arguments from left to right, nothing is moved           *)

\* The options of a cluster; `next' is the next argument, and `took' says
\* whether it was used.  An unknown option ends its cluster.
RECURSIVE ClusterOptions(_, _)
ClusterOptions(cluster, next) ==
  LET c == cluster[1]
      rest == Tail(cluster)
      more == ClusterOptions(rest, next)
  IN  CASE ArgType(c) = "none" /\ rest # <<>> ->
             [more EXCEPT !.options = <<<<c, NoArg>>>> \o @]
        [] ArgType(c) = "none" \/ (ArgType(c) = "optional" /\ rest = <<>>) ->
             [options |-> <<<<c, NoArg>>>>, took |-> FALSE]
        [] ArgType(c) \in {"required", "optional"} /\ rest # <<>> ->
             [options |-> <<<<c, rest>>>>, took |-> FALSE]
        [] ArgType(c) = "required" /\ rest = <<>> /\ next # NoArg ->
             [options |-> <<<<c, next>>>>, took |-> TRUE]
        [] OTHER -> [options |-> <<<<Bad, NoArg>>>>, took |-> FALSE]

LongReference(option, next) ==
  LET known == SelectSeq(LongOptions, LAMBDA o : o.name = NameOf(option))
      value == ValueOf(option)
      bad == [options |-> <<<<Bad, NoArg>>>>, took |-> FALSE]
  IN  IF known = <<>> THEN bad
      ELSE LET type == known[1].argtype
               wants == type = "required" /\ value = NoArg
           IN  IF (type = "none" /\ value # NoArg) \/ (wants /\ next = NoArg) THEN bad
               ELSE [options |-> <<<<known[1].short, IF wants THEN next ELSE value>>>>, took |-> wants]

RECURSIVE LeftToRight(_)
LeftToRight(args) ==
  IF args = <<>> \/ IsDashDash(args[1])
  THEN [options |-> <<>>, operands |-> IF args = <<>> THEN <<>> ELSE Tail(args)]
  ELSE IF ~IsShortOpt(args[1]) /\ ~IsLongOpt(args[1])
  THEN LET more == LeftToRight(Tail(args)) IN [more EXCEPT !.operands = <<args[1]>> \o @]
  ELSE LET next == IF Len(args) > 1 THEN args[2] ELSE NoArg
           this == IF IsShortOpt(args[1]) THEN ClusterOptions(Tail(args[1]), next)
                   ELSE LongReference(SubSeq(args[1], 3, Len(args[1])), next)
           more == LeftToRight(SubSeq(args, IF this.took THEN 3 ELSE 2, Len(args)))
       IN  [more EXCEPT !.options = this.options \o @]

\* Whatever the order of options and other arguments: the program gets the
\* options of the command line in their order, each with its argument, up to
\* the first that is wrong; when none is, it finds the other arguments behind
\* them, in their order.  (After a wrong option inside a cluster the parser
\* keeps its place in the cluster and reads the next one from there.)
GetoptAgrees(args) ==
  LET got == AllOptions(Start(args), 12)
      want == LeftToRight(args)
      wrong == SelectInSeq(want.options, LAMBDA o : o[1] = Bad)
  IN  /\ got.ended
      /\ got.options = IF wrong = 0 THEN want.options ELSE SubSeq(want.options, 1, wrong)
      /\ wrong = 0 => got.operands = want.operands
=============================================================================
