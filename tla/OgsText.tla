------------------------------ MODULE OgsText ------------------------------
(***************************************************************************)
(* Texts in buffers of a fixed size: src/core/ogs-strings.c, the lines of  *)
(* src/core/ogs-log.c, the paths of src/core/ogs-misc.c.                   *)
(*                                                                         *)
(* A place in a buffer counts from 0; the buffer holds the characters that *)
(* were put there, a NUL as 0.                                             *)
(***************************************************************************)
EXTENDS Integers, SequencesExt

CONSTANTS LineLen   \* the size of the buffer of a log line (OGS_HUGE_LEN)

NUL == 0
Newline == -1

\* The text up to the first NUL.
TextIn(buffer) ==
  LET nul == CHOOSE i \in DOMAIN buffer :
               buffer[i] = NUL /\ \A j \in DOMAIN buffer : j < i => buffer[j] # NUL
  IN  [i \in 1 .. nul |-> buffer[i - 1]]

\* vsnprintf of text in the `size' bytes from `at', and the NUL that
\* ogs_vsnprintf puts in the last of them.
Vsnprintf(buffer, at, size, text) ==
  LET kept == IF Len(text) < size THEN Len(text) ELSE size - 1
  IN  [i \in DOMAIN buffer |->
         CASE i \in at .. at + kept - 1 -> text[i - at + 1]
           [] i = at + kept \/ i = at + size - 1 -> NUL
           [] OTHER -> buffer[i]]

\* ogs_slprintf: nothing is written from the end of the buffer on, and the
\* place moves back by one then; it moves by the length of the whole text
\* also when the text was cut.
Slprintf(s, text) ==
  IF s.at < LineLen
  THEN [buffer |-> Vsnprintf(s.buffer, s.at, LineLen - s.at, text), at |-> s.at + Len(text)]
  ELSE [s EXCEPT !.at = @ - 1]

\* (seeded fault: no room is made for the newline)
LinefeedPlain(s) == Slprintf(s, <<Newline>>)

\* log_linefeed makes room for the newline.
Linefeed(s) == Slprintf([s EXCEPT !.at = IF @ > LineLen - 2 THEN LineLen - 2 ELSE @], <<Newline>>)

\* The parts of a line (time, domain, level, content, error, place) one after
\* another into a buffer with anything in it, as ogs_log_vprintf does it, and
\* ogs_log_hexdump_func without the newline.
Printed(parts) ==
  FoldLeft(Slprintf, [buffer |-> [i \in 0 .. LineLen - 1 |-> 99], at |-> 0], parts)

\* Whatever the lengths, the line is the text of the parts, cut where the
\* buffer ends, and ends with a newline; without the newline it is such a
\* text too: moving back never damages what was written before.
LineAgrees(parts) ==
  LET text == FlattenSeq(parts)
      cut(n) == SubSeq(text, 1, IF Len(text) > n THEN n ELSE Len(text))
  IN  /\ parts # <<>> => TextIn(Printed(parts).buffer) = cut(LineLen - 1)
      /\ TextIn(Linefeed(Printed(parts)).buffer) = Append(cut(LineLen - 2), Newline)

-----------------------------------------------------------------------------
(* ogs_path_remove_last_component                                          *)

Separator == 1

\* path_canonicalize: no separators at the end.
RECURSIVE Canonical(_)
Canonical(dir) == IF dir # <<>> /\ Last(dir) = Separator THEN Canonical(Front(dir)) ELSE dir

\* Back to the last separator of what is left, which goes too.
PathRemoveLastComponent(path) ==
  LET dir == Canonical(path)
      seps == {i \in DOMAIN dir : path[i] = Separator}
  IN  IF seps = {} THEN <<>> ELSE SubSeq(path, 1, Max(seps) - 1)

\* What is removed is one component and the separators around it.
PathAgrees(path) ==
  LET dir == PathRemoveLastComponent(path)
      gone == SubSeq(path, Len(dir) + 1, Len(path))
      names == SelectSeq(gone, LAMBDA c : c # Separator)
  IN  /\ IsPrefix(dir, path)
      /\ dir # <<>> => gone # <<>> /\ gone[1] = Separator
      /\ ToSet(path) # {Separator} /\ path # <<>> => names # <<>>
      /\ \A i, j \in DOMAIN gone : i < j /\ gone[i] # Separator /\ gone[j] # Separator =>
           \A k \in i .. j : gone[k] # Separator

-----------------------------------------------------------------------------
(* ogs_usleep                                                              *)

UsecPerSec == 1000000
Timespec(usec) == [sec |-> usec \div UsecPerSec, nsec |-> (usec % UsecPerSec) * 1000]

\* A signal interrupts the sleep after each of the given times in turn; what
\* remains is slept again.
RECURSIVE Slept(_, _)
Slept(req, interrupts) ==
  LET usec == req.sec * UsecPerSec + req.nsec \div 1000
  IN  IF interrupts = <<>> \/ Head(interrupts) >= usec THEN usec
      ELSE Head(interrupts) + Slept(Timespec(usec - Head(interrupts)), Tail(interrupts))

\* The whole time is slept, however often signals come.
SleepAgrees(usec, interrupts) ==
  /\ Timespec(usec).nsec < 1000 * UsecPerSec
  /\ Slept(Timespec(usec), interrupts) = usec
=============================================================================
