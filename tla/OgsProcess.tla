----------------------------- MODULE OgsProcess -----------------------------
(***************************************************************************)
(* src/core/ogs-process.c on a POSIX system: child processes with pipes to *)
(* their standard streams.                                                 *)
(*                                                                         *)
(* A pipe belongs to a stream of the n-th child, and an end of it is open  *)
(* as long as some process holds a descriptor of it.  fork copies every    *)
(* descriptor of the parent, those of its other children too: the pipes    *)
(* are not marked close-on-exec.                                           *)
(***************************************************************************)
EXTENDS Naturals

CONSTANTS Children   \* how often ogs_proc_create is called: 1 .. n

ASSUME ProcAssumption == /\ Children \subseteq Nat \ {0}
                         /\ \A p \in Children : 1 .. p \subseteq Children

VARIABLES child,    \* "none", "failed", "running", "zombie" or "reaped"
          filter,   \* the child's program reads its input up to the end
          combined, \* the option ogs_proc_option_combined_stdout_stderr
          file,     \* the streams with an open FILE in the ogs_proc_t
          holds,    \* the ends of pipes each process holds; 0 is the parent
          joining,  \* the child ogs_proc_join waits for, or 0
          lost      \* history: ends left open by a creation that failed

procvars == <<child, filter, combined, file, holds, joining, lost>>

ProcInit == /\ child = [p \in Children |-> "none"]
            /\ filter = [p \in Children |-> FALSE]
            /\ combined = [p \in Children |-> FALSE]
            /\ file = [p \in Children |-> {}]
            /\ holds = [q \in {0} \cup Children |-> {}]
            /\ joining = 0
            /\ lost = {}

PipeEnd(p, stream, side) == <<p, stream, side>>
Pipe(p, stream) == {PipeEnd(p, stream, "r"), PipeEnd(p, stream, "w")}
PipesOf(p, combine) ==
  Pipe(p, "in") \cup Pipe(p, "out") \cup (IF combine THEN {} ELSE Pipe(p, "err"))

\* The ends that the child closes and the parent keeps, and the converse.
ParentEnds(p, combine) ==
  {PipeEnd(p, "in", "w"), PipeEnd(p, "out", "r")} \cup (IF combine THEN {} ELSE {PipeEnd(p, "err", "r")})
ChildEnds(p, combine) == PipesOf(p, combine) \ ParentEnds(p, combine)

-----------------------------------------------------------------------------
(* ogs_proc_create                                                         *)

Calling(p) == /\ joining = 0
              /\ child[p] = "none"
              /\ p > 1 => child[p - 1] # "none"

\* (seeded fault: the parent keeps the child's ends)
CreatedKeepingAll(p, combine, reads) ==
  /\ Calling(p)
  /\ child' = [child EXCEPT ![p] = "running"]
  /\ filter' = [filter EXCEPT ![p] = reads]
  /\ combined' = [combined EXCEPT ![p] = combine]
  /\ file' = [file EXCEPT ![p] = {"in", "out"} \cup (IF combine THEN {} ELSE {"err"})]
  /\ holds' = [holds EXCEPT ![0] = @ \cup PipesOf(p, combine),
                            ![p] = (holds[0] \cup PipesOf(p, combine)) \ ParentEnds(p, combine)]
  /\ UNCHANGED <<joining, lost>>

Created(p, combine, reads) ==
  /\ Calling(p)
  /\ child' = [child EXCEPT ![p] = "running"]
  /\ filter' = [filter EXCEPT ![p] = reads]
  /\ combined' = [combined EXCEPT ![p] = combine]
  /\ file' = [file EXCEPT ![p] = {"in", "out"} \cup (IF combine THEN {} ELSE {"err"})]
  /\ holds' = [holds EXCEPT
                 ![0] = (@ \cup PipesOf(p, combine)) \ ChildEnds(p, combine),
                 ![p] = (holds[0] \cup PipesOf(p, combine)) \ ParentEnds(p, combine)]
  /\ UNCHANGED <<joining, lost>>

\* A pipe cannot be made, or fork fails: what was made is not closed.
CreateFails(p, combine) ==
  /\ Calling(p)
  /\ child' = [child EXCEPT ![p] = "failed"]
  /\ \E made \in {{}, Pipe(p, "in"), Pipe(p, "in") \cup Pipe(p, "out"), PipesOf(p, combine)} :
       /\ holds' = [holds EXCEPT ![0] = @ \cup made]
       /\ lost' = lost \cup made
  /\ UNCHANGED <<filter, combined, file, joining>>

-----------------------------------------------------------------------------
(* The child                                                               *)

\* The end of its input comes when nobody can write to it.
AtEndOfInput(p) == \A q \in {0} \cup Children : PipeEnd(p, "in", "w") \notin holds[q]

CanExit(p) == child[p] = "running" /\ (filter[p] => AtEndOfInput(p))

\* The exit by itself, and by the signal of ogs_proc_terminate or _kill (of a
\* child that was not waited for: the number is nobody else's before that).
Exits(p) == /\ child[p] = "running"
            /\ CanExit(p) \/ joining = 0
            /\ child' = [child EXCEPT ![p] = "zombie"]
            /\ holds' = [holds EXCEPT ![p] = {}]
            /\ UNCHANGED <<filter, combined, file, joining, lost>>

-----------------------------------------------------------------------------
(* ogs_proc_join and ogs_proc_destroy                                      *)

\* fclose of one stream, when it is open.
CloseFile(p, streams) ==
  /\ file' = [file EXCEPT ![p] = @ \ streams]
  /\ holds' = [holds EXCEPT ![0] = @ \ {PipeEnd(p, s, side) : s \in streams \cap file[p],
                                                          side \in {"r", "w"}}]

\* The child's input is closed, and the parent sleeps in waitpid.
Join(p) == /\ joining = 0
           /\ child[p] \in {"running", "zombie"} /\ file[p] # {}
           /\ CloseFile(p, {"in"})
           /\ joining' = p
           /\ UNCHANGED <<child, filter, combined, lost>>

Joined == /\ joining # 0 /\ child[joining] = "zombie"
          /\ child' = [child EXCEPT ![joining] = "reaped"]
          /\ joining' = 0
          /\ UNCHANGED <<filter, combined, file, holds, lost>>

\* With or without a join before; once.  stdin_file is NULL after a join.
Destroy(p) == /\ joining = 0 /\ file[p] # {}
              /\ CloseFile(p, {"in", "out", "err"})
              /\ UNCHANGED <<child, filter, combined, joining, lost>>

ProcNext ==
  \/ \E p \in Children : \/ \E c, r \in BOOLEAN : Created(p, c, r)
                         \/ \E c \in BOOLEAN : CreateFails(p, c)
                         \/ Exits(p) \/ Join(p) \/ Destroy(p)
  \/ Joined

-----------------------------------------------------------------------------
(* Properties                                                              *)

\* Apart from what failed creations left behind, the parent holds exactly
\* one end of each stream it has a FILE for, and the child its other ends.
\* When the parent sleeps in ogs_proc_join, nobody can write to that child's
\* input but children that were created later and still run: without such a
\* one, a child that reads to the end of its input exits, and the join ends.
ProcessSound ==
  /\ holds[0] \ lost = UNION {{e \in ParentEnds(p, combined[p]) : e[2] \in file[p]} : p \in Children}
  /\ \A p \in Children :
       child[p] = "running" => ChildEnds(p, combined[p]) \subseteq holds[p]
  /\ joining # 0 => \A q \in {0} \cup Children :
       PipeEnd(joining, "in", "w") \in holds[q] => q > joining /\ child[q] = "running"
  /\ joining # 0 /\ (\A q \in Children : q > joining => child[q] # "running") =>
       child[joining] = "zombie" \/ CanExit(joining)
=============================================================================
