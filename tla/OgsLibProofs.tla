---------------------------- MODULE OgsLibProofs ----------------------------
(***************************************************************************)
(* Theorems about the parts of the library that keep their state to        *)
(* themselves: the state machine (OgsFsm), for any number of states and    *)
(* whatever its handlers ask for, the child processes (OgsProcess), for    *)
(* any number of them, the logs and domains (OgsLog), and the memory and   *)
(* packet buffers (OgsMemory): the count of every cluster, the owner of    *)
(* every pkbuf, the windows and the pools.                                 *)
(***************************************************************************)
EXTENDS OgsFsm, OgsProcess, OgsLog, OgsMemory, ProofLemmas

-----------------------------------------------------------------------------
(* The state machine                                                       *)

FsmSpec == FsmInit /\ [][FsmNext]_fsmvars

\* Where a transition is under way the state is one of the program's: a
\* handler has asked for it.
InTransition == {"first entry", "exit", "entry"}

StateInv == /\ at # "deleted" => state \in FsmStates \cup {Initial}
            /\ at \in InTransition => state \in FsmStates

\* Which states have had their ENTRY and not their EXIT, at each place.
ActiveInv ==
  ~misused => /\ at \in {"deleted", "created", "first entry", "entry", "final"} => active = {}
              /\ at \in {"ready", "last exit"} => active = {state} \ {Initial}
              /\ at = "exit" => active = {tmp} \ {Initial}

FsmInv == StateInv /\ ActiveInv

-----------------------------------------------------------------------------
\* A machine just made satisfies the invariant.
LEMMA FsmInvInit == FsmInit => FsmInv
  BY DEF FsmInit, FsmInv, StateInv, ActiveInv, InTransition

\* ENTRY reaches a machine that is in no other state.
LEMMA EnterKeepsInv ==
  ASSUME FsmInv, at \in {"first entry", "entry"}, Enter PROVE FsmInv'
<1>1. state \in FsmStates /\ state # Initial
  BY FsmAssumption DEF FsmInv, StateInv, InTransition
<1>2. StateInv'
  BY <1>1 DEF Enter, MayTran, StateInv, InTransition
<1>3. ActiveInv'
  <2>1. CASE misused'
    BY <2>1 DEF ActiveInv
  <2>2. CASE ~misused'
    <3>1. ~misused /\ state' = state
      BY <2>2 DEF Enter
    <3>2. active' = {state}
      BY <3>1 DEF Enter, FsmInv, ActiveInv
    <3> QED BY <1>1, <3>1, <3>2 DEF Enter, ActiveInv
  <2> QED BY <2>1, <2>2
<1> QED BY <1>2, <1>3 DEF FsmInv

\* Every call of a handler, and every request of one, keeps the invariant.
LEMMA FsmInvStep == FsmInv /\ [FsmNext]_fsmvars => FsmInv'
<1> SUFFICES ASSUME FsmInv, [FsmNext]_fsmvars PROVE FsmInv'
  OBVIOUS
<1> USE DEF FsmInv, StateInv, ActiveInv, InTransition
<1>1. CASE FsmCreate
  BY <1>1 DEF FsmCreate
<1>2. CASE FsmDelete
  BY <1>2 DEF FsmDelete
<1>3. CASE FsmStart
  BY <1>3 DEF FsmStart, MayTran
<1>4. CASE FirstEntry
  BY <1>4, EnterKeepsInv DEF FirstEntry
<1>5. CASE Dispatch
  BY <1>5 DEF Dispatch, MayTran
<1>6. CASE Leave
  BY <1>6 DEF Leave, MayTran
<1>7. CASE EntryOfTarget
  BY <1>7, EnterKeepsInv DEF EntryOfTarget
\* Where no EXIT is sent the final handler is the current one, which then is
\* the initial one too, and that is never entered.
<1>8. CASE FsmFini
  <2>1. CASE state # Final
    BY <1>8, <2>1 DEF FsmFini
  <2>2. CASE state = Final
    <3>1. state = Initial
      BY <1>8, <2>2, FsmAssumption DEF FsmFini
    <3> QED BY <1>8, <2>2, <3>1 DEF FsmFini
  <2> QED BY <2>1, <2>2
<1>9. CASE LastExit
  BY <1>9 DEF LastExit, MayTran
<1>10. CASE Finish
  BY <1>10 DEF Finish
<1>11. CASE UNCHANGED fsmvars
  BY <1>11 DEF fsmvars
<1> QED BY <1>1, <1>2, <1>3, <1>4, <1>5, <1>6, <1>7, <1>8, <1>9, <1>10, <1>11 DEF FsmNext

\* Whatever handlers ask for, on any event but ENTRY, the machine is in one
\* state between two calls, which has had its ENTRY and not its EXIT, and all
\* states before it have had theirs.
THEOREM MachineHasOneState == FsmSpec => []OneActiveState
<1>1. FsmInv => OneActiveState
  BY DEF FsmInv, ActiveInv, OneActiveState
<1> QED BY <1>1, FsmInvInit, FsmInvStep, PTL DEF FsmSpec

-----------------------------------------------------------------------------
(* The child processes                                                     *)

ProcSpec == ProcInit /\ [][ProcNext]_procvars

Ends == Children \X {"in", "out", "err"} \X {"r", "w"}

ProcTypes ==
  /\ child \in [Children -> {"none", "failed", "running", "zombie", "reaped"}]
  /\ filter \in [Children -> BOOLEAN] /\ combined \in [Children -> BOOLEAN]
  /\ file \in [Children -> SUBSET {"in", "out", "err"}]
  /\ holds \in [{0} \cup Children -> SUBSET Ends]
  /\ joining \in {0} \cup Children
  /\ lost \subseteq Ends

\* What the parent holds, and what became of a failed creation.
ParentHolds ==
  /\ \A e \in Ends : e \in holds[0] \ lost <=> e \in ParentEnds(e[1], combined[e[1]]) /\ e[2] \in file[e[1]]
  /\ \A e \in lost : child[e[1]] = "failed"
  /\ \A p \in Children : child[p] \in {"none", "failed"} => file[p] = {}

\* Children are created in order, and an end is there since its creation.
InOrder ==
  /\ \A p, q \in Children : q < p /\ child[p] # "none" => child[q] # "none"
  /\ \A q \in {0} \cup Children : \A e \in holds[q] : child[e[1]] # "none"

\* Of its siblings only a younger one, while it runs, can hold the end that
\* writes to a child's input.
ChildHolds ==
  /\ \A p \in Children : child[p] = "running" => ChildEnds(p, combined[p]) \subseteq holds[p]
  /\ \A p \in Children : child[p] # "running" => holds[p] = {}
  /\ \A p, q \in Children :
       PipeEnd(p, "in", "w") \in holds[q] /\ child[p] # "failed" => q > p

JoinTypes == joining # 0 => "in" \notin file[joining] /\ child[joining] \in {"running", "zombie"}

\* The inductive invariant.
ProcInv == ProcTypes /\ ParentHolds /\ InOrder /\ ChildHolds /\ JoinTypes

\* The pipes of a child, and the two sides of them.
LEMMA EndsOfChild ==
  ASSUME NEW p \in Children, NEW c \in BOOLEAN
  PROVE  /\ \A e \in PipesOf(p, c) : e \in Ends /\ e[1] = p
         /\ ParentEnds(p, c) \subseteq PipesOf(p, c)
         /\ ChildEnds(p, c) = PipesOf(p, c) \ ParentEnds(p, c)
         /\ PipeEnd(p, "in", "w") \in ParentEnds(p, c)
         /\ \A e \in ParentEnds(p, c) : e[2] \in {"in", "out"} \cup (IF c THEN {} ELSE {"err"})
         /\ Pipe(p, "in") \subseteq PipesOf(p, c) /\ Pipe(p, "out") \subseteq PipesOf(p, c)
  BY DEF PipesOf, ParentEnds, ChildEnds, Pipe, PipeEnd, Ends

\* Nothing is there of a child that is not there.
LEMMA NothingOfNone ==
  ASSUME ProcInv, NEW p \in Children, child[p] = "none"
  PROVE  /\ \A q \in {0} \cup Children : \A e \in holds[q] : e[1] # p
         /\ \A e \in lost : e[1] # p
         /\ file[p] = {}
  BY DEF ProcInv, InOrder, ParentHolds

\* The children created before the next one.
LEMMA EldersAreThere ==
  ASSUME ProcInv, NEW p \in Children, p > 1 => child[p - 1] # "none"
  PROVE  \A q \in Children : q < p => child[q] # "none"
<1>1. ASSUME NEW q \in Children, q < p, child[q] = "none" PROVE FALSE
  <2>1. q \in Nat \ {0} /\ p \in Nat /\ p > 1 /\ p - 1 \in 1 .. p /\ q <= p - 1
    BY <1>1, ProcAssumption
  <2>2. p - 1 \in Children /\ child[p - 1] # "none"
    BY <2>1, ProcAssumption
  <2>3. q = p - 1 \/ q < p - 1
    BY <2>1
  <2>4. QED
    BY <1>1, <2>2, <2>3 DEF ProcInv, InOrder
<1>2. QED
  BY <1>1

\* ogs_proc_create makes the next child.
LEMMA CreatedKeepsInv ==
  ASSUME ProcInv, NEW p \in Children, NEW c \in BOOLEAN, NEW r \in BOOLEAN, Created(p, c, r)
  PROVE  ProcInv'
<1> DEFINE streams == {"in", "out"} \cup (IF c THEN {} ELSE {"err"})
           pipes == PipesOf(p, c)
           ours == ParentEnds(p, c)
           theirs == ChildEnds(p, c)
<1>1. /\ joining = 0 /\ child[p] = "none" /\ (p > 1 => child[p - 1] # "none")
      /\ child' = [child EXCEPT ![p] = "running"] /\ filter' = [filter EXCEPT ![p] = r]
      /\ combined' = [combined EXCEPT ![p] = c] /\ file' = [file EXCEPT ![p] = streams]
      /\ holds' = [holds EXCEPT ![0] = (@ \cup pipes) \ theirs, ![p] = (holds[0] \cup pipes) \ ours]
      /\ joining' = joining /\ lost' = lost
  BY DEF Created, Calling
<1>2. /\ \A e \in pipes : e \in Ends /\ e[1] = p
      /\ ours \subseteq pipes /\ theirs = pipes \ ours /\ PipeEnd(p, "in", "w") \in ours
      /\ \A e \in ours : e[2] \in streams
      /\ streams \subseteq {"in", "out", "err"}
  BY EndsOfChild
<1>3. /\ \A q \in {0} \cup Children : \A e \in holds[q] : e[1] # p
      /\ \A e \in lost : e[1] # p
      /\ file[p] = {}
  BY <1>1, NothingOfNone
<1> HIDE DEF streams, pipes, theirs
<1>4. ours = ParentEnds(p, c)
  OBVIOUS
<1>5. theirs = ChildEnds(p, c)
  BY DEF theirs
<1> HIDE DEF ours
<1>6. p \in Nat /\ p # 0 /\ 0 \notin Children
  BY ProcAssumption
<1>7. /\ child' \in [Children -> {"none", "failed", "running", "zombie", "reaped"}]
      /\ child'[p] = "running" /\ \A q \in Children \ {p} : child'[q] = child[q]
  BY <1>1 DEF ProcInv, ProcTypes
<1>8. /\ combined' \in [Children -> BOOLEAN] /\ filter' \in [Children -> BOOLEAN]
      /\ combined'[p] = c /\ \A q \in Children \ {p} : combined'[q] = combined[q]
  BY <1>1, Zenon DEF ProcInv, ProcTypes
<1>9. /\ file' \in [Children -> SUBSET {"in", "out", "err"}]
      /\ file'[p] = streams /\ \A q \in Children \ {p} : file'[q] = file[q]
  BY <1>1, <1>2 DEF ProcInv, ProcTypes
<1>10. /\ holds' \in [{0} \cup Children -> SUBSET Ends]
       /\ holds'[0] = holds[0] \cup ours /\ holds'[p] = holds[0] \cup theirs
       /\ \A q \in Children \ {p} : holds'[q] = holds[q]
  <2>1. holds \in [{0} \cup Children -> SUBSET Ends]
    BY DEF ProcInv, ProcTypes
  <2>2. /\ holds'[0] = (holds[0] \cup pipes) \ theirs /\ holds'[p] = (holds[0] \cup pipes) \ ours
        /\ \A q \in Children \ {p} : holds'[q] = holds[q]
    BY <1>1, <1>6, <2>1
  <2>3. holds'[0] = holds[0] \cup ours /\ holds'[p] = holds[0] \cup theirs
    BY <1>2, <1>3, <2>2
  <2>4. holds[0] \cup ours \in SUBSET Ends /\ holds[0] \cup theirs \in SUBSET Ends
    BY <1>2, <2>1
  <2>5. holds' \in [{0} \cup Children -> SUBSET Ends]
    <3>1. DOMAIN holds' = {0} \cup Children /\ holds' = [q \in DOMAIN holds' |-> holds'[q]]
      BY <1>1, <2>1
    <3>2. \A q \in {0} \cup Children : holds'[q] \in SUBSET Ends
      BY <2>1, <2>2, <2>3, <2>4
    <3>3. QED
      BY <3>1, <3>2
  <2>6. QED
    BY <2>2, <2>3, <2>5
<1>11. ProcTypes'
  BY <1>1, <1>7, <1>8, <1>9, <1>10 DEF ProcInv, ProcTypes
<1>12. ParentHolds'
  <2>1. ASSUME NEW e \in Ends
        PROVE  e \in holds'[0] \ lost' <=> e \in ParentEnds(e[1], combined'[e[1]]) /\ e[2] \in file'[e[1]]
    <3>1. e[1] \in Children
      BY DEF Ends
    <3>2. CASE e[1] = p
      BY <1>1, <1>2, <1>3, <1>4, <1>8, <1>9, <1>10, <3>2
    <3>3. CASE e[1] # p
      BY <1>1, <1>2, <1>8, <1>9, <1>10, <3>1, <3>3 DEF ProcInv, ParentHolds
    <3>4. QED
      BY <3>2, <3>3
  <2>2. \A e \in lost' : child'[e[1]] = "failed"
    BY <1>1, <1>3, <1>7 DEF ProcInv, ProcTypes, ParentHolds, Ends
  <2>3. \A q \in Children : child'[q] \in {"none", "failed"} => file'[q] = {}
    BY <1>7, <1>9 DEF ProcInv, ParentHolds
  <2>4. QED
    BY <2>1, <2>2, <2>3 DEF ParentHolds
<1>13. \A q \in Children : q < p => child[q] # "none"
  BY <1>1, EldersAreThere
<1>14. InOrder'
  <2>1. \A q \in Children \ {p} : child'[q] = "none" <=> child[q] = "none"
    BY <1>7
  <2>2. \A q1, q2 \in Children : q2 < q1 /\ child'[q1] # "none" => child'[q2] # "none"
    BY <1>7, <1>13, <2>1 DEF ProcInv, InOrder
  <2>3. ASSUME NEW q \in {0} \cup Children, NEW e \in holds'[q] PROVE child'[e[1]] # "none"
    <3>1. e \in Ends /\ e[1] \in Children
      BY <1>10 DEF Ends
    <3>2. CASE e[1] = p
      BY <1>7, <3>2
    <3>3. CASE e[1] # p
      BY <1>2, <1>7, <1>10, <3>1, <3>3 DEF ProcInv, InOrder
    <3>4. QED
      BY <3>2, <3>3
  <2>4. QED
    BY <2>2, <2>3 DEF InOrder
<1>15. ChildHolds'
  <2>1. \A q \in Children : child'[q] = "running" => ChildEnds(q, combined'[q]) \subseteq holds'[q]
    BY <1>5, <1>7, <1>8, <1>10 DEF ProcInv, ChildHolds
  <2>2. \A q \in Children : child'[q] # "running" => holds'[q] = {}
    BY <1>7, <1>10 DEF ProcInv, ChildHolds
  <2>3. ASSUME NEW q1 \in Children, NEW q2 \in Children,
               PipeEnd(q1, "in", "w") \in holds'[q2], child'[q1] # "failed"
        PROVE  q2 > q1
    <3>1. PipeEnd(q1, "in", "w")[1] = q1
      BY DEF PipeEnd
    <3>2. CASE q2 # p
      <4>1. PipeEnd(q1, "in", "w") \in holds[q2]
        BY <1>10, <2>3, <3>2
      <4>2. q1 # p
        BY <1>3, <3>1, <4>1
      <4>3. child[q1] # "failed"
        BY <1>7, <2>3, <4>2
      <4>4. QED
        BY <4>1, <4>3 DEF ProcInv, ChildHolds
    <3>3. CASE q2 = p
      <4>1. q1 # p
        BY <1>2, <1>3, <1>10, <2>3, <3>1, <3>3
      <4>2. child[q1] # "none"
        BY <1>2, <1>10, <2>3, <3>1, <3>3, <4>1 DEF ProcInv, InOrder
      <4>3. ~(p < q1)
        BY <1>1, <4>2 DEF ProcInv, InOrder
      <4>4. QED
        BY <1>6, <3>3, <4>1, <4>3, ProcAssumption
    <3>4. QED
      BY <3>2, <3>3
  <2>4. QED
    BY <2>1, <2>2, <2>3 DEF ChildHolds
<1>16. JoinTypes'
  BY <1>1 DEF JoinTypes
<1>17. QED
  BY <1>11, <1>12, <1>14, <1>15, <1>16 DEF ProcInv

\* What a failed creation made stays with the parent.
LEMMA CreateFailsKeepsInv ==
  ASSUME ProcInv, NEW p \in Children, NEW c \in BOOLEAN, CreateFails(p, c)
  PROVE  ProcInv'
<1> DEFINE pipes == PipesOf(p, c)
<1>1. PICK made \in {{}, Pipe(p, "in"), Pipe(p, "in") \cup Pipe(p, "out"), PipesOf(p, c)} :
        holds' = [holds EXCEPT ![0] = @ \cup made] /\ lost' = lost \cup made
  BY DEF CreateFails
<1>2. /\ joining = 0 /\ child[p] = "none" /\ (p > 1 => child[p - 1] # "none")
      /\ child' = [child EXCEPT ![p] = "failed"] /\ filter' = filter
      /\ combined' = combined /\ file' = file /\ joining' = joining
  BY DEF CreateFails, Calling
<1>3. \A e \in made : e \in Ends /\ e[1] = p
  BY <1>1, EndsOfChild
<1>4. /\ \A q \in {0} \cup Children : \A e \in holds[q] : e[1] # p
      /\ \A e \in lost : e[1] # p
      /\ file[p] = {}
  BY <1>2, NothingOfNone
<1>5. p \in Nat /\ p # 0 /\ 0 \notin Children
  BY ProcAssumption
<1>6. /\ child' \in [Children -> {"none", "failed", "running", "zombie", "reaped"}]
      /\ child'[p] = "failed" /\ \A q \in Children \ {p} : child'[q] = child[q]
  BY <1>2 DEF ProcInv, ProcTypes
<1>7. /\ holds' \in [{0} \cup Children -> SUBSET Ends]
      /\ holds'[0] = holds[0] \cup made
      /\ \A q \in Children : holds'[q] = holds[q]
  BY <1>1, <1>3, <1>5 DEF ProcInv, ProcTypes
<1>8. ProcTypes'
  BY <1>1, <1>2, <1>3, <1>6, <1>7 DEF ProcInv, ProcTypes
<1>9. ParentHolds'
  <2>1. ASSUME NEW e \in Ends
        PROVE  e \in holds'[0] \ lost' <=> e \in ParentEnds(e[1], combined'[e[1]]) /\ e[2] \in file'[e[1]]
    <3>1. e[1] \in Children
      BY DEF Ends
    <3>2. e \in holds'[0] \ lost' <=> e \in holds[0] \ lost
      BY <1>1, <1>3, <1>4, <1>7
    <3>3. QED
      BY <1>2, <3>1, <3>2 DEF ProcInv, ParentHolds
  <2>2. \A e \in lost' : child'[e[1]] = "failed"
    BY <1>1, <1>3, <1>4, <1>6 DEF ProcInv, ProcTypes, ParentHolds, Ends
  <2>3. \A q \in Children : child'[q] \in {"none", "failed"} => file'[q] = {}
    BY <1>2, <1>4, <1>6 DEF ProcInv, ParentHolds
  <2>4. QED
    BY <2>1, <2>2, <2>3 DEF ParentHolds
<1>10. \A q \in Children : q < p => child[q] # "none"
  BY <1>2, EldersAreThere
<1>11. InOrder'
  <2>1. \A q1, q2 \in Children : q2 < q1 /\ child'[q1] # "none" => child'[q2] # "none"
    BY <1>6, <1>10 DEF ProcInv, InOrder
  <2>2. ASSUME NEW q \in {0} \cup Children, NEW e \in holds'[q] PROVE child'[e[1]] # "none"
    <3>1. e \in Ends /\ e[1] \in Children
      BY <1>7 DEF Ends
    <3>2. CASE e[1] = p
      BY <1>6, <3>2
    <3>3. CASE e[1] # p
      BY <1>3, <1>6, <1>7, <3>1, <3>3 DEF ProcInv, InOrder
    <3>4. QED
      BY <3>2, <3>3
  <2>3. QED
    BY <2>1, <2>2 DEF InOrder
<1>12. ChildHolds'
  <2>1. \A q \in Children : child'[q] = "running" => ChildEnds(q, combined'[q]) \subseteq holds'[q]
    BY <1>2, <1>6, <1>7 DEF ProcInv, ChildHolds
  <2>2. \A q \in Children : child'[q] # "running" => holds'[q] = {}
    BY <1>2, <1>6, <1>7 DEF ProcInv, ChildHolds
  <2>3. \A q1, q2 \in Children :
          PipeEnd(q1, "in", "w") \in holds'[q2] /\ child'[q1] # "failed" => q2 > q1
    BY <1>6, <1>7 DEF ProcInv, ChildHolds
  <2>4. QED
    BY <2>1, <2>2, <2>3 DEF ChildHolds
<1>13. JoinTypes'
  BY <1>2 DEF JoinTypes
<1>14. QED
  BY <1>8, <1>9, <1>11, <1>12, <1>13 DEF ProcInv

\* A child that exits holds nothing any more.
LEMMA ExitsKeepsInv ==
  ASSUME ProcInv, NEW p \in Children, Exits(p)
  PROVE  ProcInv'
<1>1. /\ child[p] = "running" /\ child' = [child EXCEPT ![p] = "zombie"]
      /\ holds' = [holds EXCEPT ![p] = {}] /\ filter' = filter
      /\ combined' = combined /\ file' = file /\ joining' = joining /\ lost' = lost
  BY DEF Exits
<1>2. 0 \notin Children
  BY ProcAssumption
<1>3. /\ child' \in [Children -> {"none", "failed", "running", "zombie", "reaped"}]
      /\ child'[p] = "zombie" /\ \A q \in Children \ {p} : child'[q] = child[q]
  BY <1>1 DEF ProcInv, ProcTypes
<1>4. /\ holds' \in [{0} \cup Children -> SUBSET Ends]
      /\ holds'[p] = {} /\ \A q \in ({0} \cup Children) \ {p} : holds'[q] = holds[q]
      /\ holds'[0] = holds[0]
  BY <1>1, <1>2 DEF ProcInv, ProcTypes
<1>5. ProcTypes'
  BY <1>1, <1>3, <1>4 DEF ProcInv, ProcTypes
<1>6. ParentHolds'
  BY <1>1, <1>3, <1>4 DEF ProcInv, ProcTypes, ParentHolds, Ends
<1>7. InOrder'
  BY <1>1, <1>3, <1>4 DEF ProcInv, ProcTypes, InOrder, Ends
<1>8. ChildHolds'
  BY <1>1, <1>3, <1>4 DEF ProcInv, ChildHolds
<1>9. JoinTypes'
  BY <1>1, <1>3 DEF ProcInv, ProcTypes, JoinTypes
<1>10. QED
  BY <1>5, <1>6, <1>7, <1>8, <1>9 DEF ProcInv

\* The parent closes files of a child.
LEMMA CloseFileKeeps ==
  ASSUME ProcInv, NEW p \in Children, NEW streams \in SUBSET {"in", "out", "err"}, CloseFile(p, streams),
         file[p] # {}, UNCHANGED <<child, filter, combined, lost>>
  PROVE  /\ joining' \in {0} \cup Children => ProcTypes'
         /\ ParentHolds' /\ InOrder' /\ ChildHolds'
         /\ file'[p] = file[p] \ streams
<1>1. /\ file' = [file EXCEPT ![p] = @ \ streams]
      /\ holds' = [holds EXCEPT ![0] = @ \ {PipeEnd(p, s, side) : s \in streams \cap file[p], side \in {"r", "w"}}]
  BY DEF CloseFile
<1>2. 0 \notin Children
  BY ProcAssumption
<1>3. /\ file' \in [Children -> SUBSET {"in", "out", "err"}] /\ file'[p] = file[p] \ streams
      /\ \A q \in Children \ {p} : file'[q] = file[q]
  BY <1>1 DEF ProcInv, ProcTypes
<1>4. /\ holds' \in [{0} \cup Children -> SUBSET Ends]
      /\ holds'[0] \subseteq holds[0]
      /\ \A e \in Ends : e \in holds'[0] <=> e \in holds[0] /\ ~(e[1] = p /\ e[2] \in streams \cap file[p])
      /\ \A q \in Children : holds'[q] = holds[q]
  BY <1>1, <1>2 DEF ProcInv, ProcTypes, PipeEnd, Ends
<1>5. ParentHolds'
  <2>1. ASSUME NEW e \in Ends
        PROVE  e \in holds'[0] \ lost <=> e \in ParentEnds(e[1], combined[e[1]]) /\ e[2] \in file'[e[1]]
    <3>1. e[1] \in Children
      BY DEF Ends
    <3>2. e \in holds[0] \ lost <=> e \in ParentEnds(e[1], combined[e[1]]) /\ e[2] \in file[e[1]]
      BY DEF ProcInv, ParentHolds
    <3>3. QED
      BY <1>3, <1>4, <3>1, <3>2
  <2>2. QED
    BY <1>3, <2>1 DEF ProcInv, ParentHolds
<1>6. InOrder'
  BY <1>4 DEF ProcInv, InOrder
<1>7. ChildHolds'
  BY <1>4 DEF ProcInv, ChildHolds
<1>8. ASSUME joining' \in {0} \cup Children PROVE ProcTypes'
  BY <1>3, <1>4, <1>8 DEF ProcInv, ProcTypes
<1>9. QED
  BY <1>3, <1>5, <1>6, <1>7, <1>8

\* ogs_proc_create and the rest of the interface keep the invariant, and the
\* exits of the children do.
LEMMA ProcInvStep == ProcInv /\ [ProcNext]_procvars => ProcInv'
<1> SUFFICES ASSUME ProcInv, [ProcNext]_procvars PROVE ProcInv'
  OBVIOUS
<1>1. ASSUME NEW p \in Children, NEW c \in BOOLEAN, NEW r \in BOOLEAN, Created(p, c, r) PROVE ProcInv'
  BY <1>1, CreatedKeepsInv
<1>2. ASSUME NEW p \in Children, NEW c \in BOOLEAN, CreateFails(p, c) PROVE ProcInv'
  BY <1>2, CreateFailsKeepsInv
<1>3. ASSUME NEW p \in Children, Exits(p) PROVE ProcInv'
  BY <1>3, ExitsKeepsInv
<1>4. ASSUME NEW p \in Children, Join(p) PROVE ProcInv'
  <2>1. /\ joining' = p /\ child' = child /\ child[p] \in {"running", "zombie"} /\ file[p] # {}
        /\ CloseFile(p, {"in"}) /\ UNCHANGED <<child, filter, combined, lost>>
    BY <1>4 DEF Join
  <2>2. ProcTypes' /\ ParentHolds' /\ InOrder' /\ ChildHolds' /\ file'[p] = file[p] \ {"in"}
    BY <2>1, CloseFileKeeps
  <2>3. JoinTypes'
    BY <2>1, <2>2 DEF JoinTypes
  <2>4. QED
    BY <2>2, <2>3 DEF ProcInv
<1>5. ASSUME NEW p \in Children, Destroy(p) PROVE ProcInv'
  <2>1. /\ joining = 0 /\ joining' = joining /\ file[p] # {}
        /\ CloseFile(p, {"in", "out", "err"}) /\ UNCHANGED <<child, filter, combined, lost>>
    BY <1>5 DEF Destroy
  <2>2. ProcTypes' /\ ParentHolds' /\ InOrder' /\ ChildHolds'
    BY <2>1, CloseFileKeeps
  <2>3. JoinTypes'
    BY <2>1 DEF JoinTypes
  <2>4. QED
    BY <2>2, <2>3 DEF ProcInv
<1>6. CASE Joined
  <2>1. /\ joining \in Children /\ child[joining] = "zombie" /\ child' = [child EXCEPT ![joining] = "reaped"]
        /\ joining' = 0 /\ UNCHANGED <<filter, combined, file, holds, lost>>
    BY <1>6 DEF Joined, ProcInv, ProcTypes
  <2>2. /\ child' \in [Children -> {"none", "failed", "running", "zombie", "reaped"}]
        /\ child'[joining] = "reaped" /\ \A q \in Children \ {joining} : child'[q] = child[q]
    BY <2>1 DEF ProcInv, ProcTypes
  <2>3. ProcTypes'
    BY <2>1, <2>2 DEF ProcInv, ProcTypes
  <2>4. ParentHolds'
    BY <2>1, <2>2 DEF ProcInv, ProcTypes, ParentHolds, Ends
  <2>5. InOrder'
    BY <2>1, <2>2 DEF ProcInv, ProcTypes, InOrder, Ends
  <2>6. ChildHolds'
    BY <2>1, <2>2 DEF ProcInv, ChildHolds
  <2>7. JoinTypes'
    BY <2>1 DEF JoinTypes
  <2>8. QED
    BY <2>3, <2>4, <2>5, <2>6, <2>7 DEF ProcInv
<1>7. CASE UNCHANGED procvars
  BY <1>7 DEF procvars, ProcInv, ProcTypes, ParentHolds, InOrder, ChildHolds, JoinTypes
<1>8. QED
  BY <1>1, <1>2, <1>3, <1>4, <1>5, <1>6, <1>7 DEF ProcNext

\* Before the first creation nothing is open.
LEMMA ProcInvInit == ProcInit => ProcInv
<1> SUFFICES ASSUME ProcInit PROVE ProcInv
  OBVIOUS
<1>1. filter \in [Children -> BOOLEAN] /\ combined \in [Children -> BOOLEAN]
  BY Zenon DEF ProcInit
<1>2. ProcTypes
  BY <1>1 DEF ProcInit, ProcTypes
<1>3. ParentHolds /\ InOrder /\ ChildHolds /\ JoinTypes
  BY DEF ProcInit, ParentHolds, InOrder, ChildHolds, JoinTypes, Ends
<1>4. QED
  BY <1>2, <1>3 DEF ProcInv

\* For any number of children, whatever creations fail: the parent holds one
\* end of each stream it has a FILE for, the children hold the others, and a
\* join waits for nothing but that child, or for the children created after it.
THEOREM ChildrenAreSound == ProcSpec => []ProcessSound
<1>1. ASSUME ProcInv PROVE ProcessSound
  <2> DEFINE Open(p) == {e \in ParentEnds(p, combined[p]) : e[2] \in file[p]}
  <2>1. ASSUME NEW p \in Children PROVE \A e \in Open(p) : e \in Ends /\ e[1] = p
    BY <1>1, EndsOfChild DEF ProcInv, ProcTypes
  <2>2. holds[0] \subseteq Ends
    BY <1>1 DEF ProcInv, ProcTypes
  <2>3. \A e \in Ends : e[1] \in Children
    BY DEF Ends
  <2>4. \A e \in Ends : e \in holds[0] \ lost <=> e \in Open(e[1])
    BY <1>1 DEF ProcInv, ParentHolds
  <2>5. holds[0] \ lost = UNION {Open(p) : p \in Children}
    <3> HIDE DEF Open
    <3>1. ASSUME NEW e \in holds[0] \ lost PROVE e \in UNION {Open(p) : p \in Children}
      BY <2>2, <2>3, <2>4
    <3>2. ASSUME NEW p \in Children, NEW e \in Open(p) PROVE e \in holds[0] \ lost
      BY <2>1, <2>4
    <3>3. QED
      BY <3>1, <3>2
  <2>6. ASSUME joining # 0, NEW q \in {0} \cup Children, PipeEnd(joining, "in", "w") \in holds[q]
        PROVE  q \in Children /\ q > joining /\ child[q] = "running"
    <3>1. /\ joining \in Children /\ child[joining] \in {"running", "zombie"} /\ "in" \notin file[joining]
      BY <1>1, <2>6 DEF ProcInv, ProcTypes, JoinTypes
    <3>2. q # 0
      <4>1. /\ PipeEnd(joining, "in", "w") \in Ends
            /\ PipeEnd(joining, "in", "w")[1] = joining /\ PipeEnd(joining, "in", "w")[2] = "in"
        BY <3>1 DEF Ends, PipeEnd
      <4>2. PipeEnd(joining, "in", "w") \notin lost
        BY <1>1, <3>1, <4>1 DEF ProcInv, ParentHolds
      <4>3. PipeEnd(joining, "in", "w") \notin holds[0]
        BY <1>1, <3>1, <4>1, <4>2 DEF ProcInv, ParentHolds
      <4>4. QED
        BY <2>6, <4>3
    <3>3. QED
      BY <1>1, <2>6, <3>1, <3>2 DEF ProcInv, ChildHolds
  <2>7. ASSUME joining # 0, \A q \in Children : q > joining => child[q] # "running"
        PROVE  child[joining] = "zombie" \/ CanExit(joining)
    <3>1. child[joining] \in {"running", "zombie"}
      BY <1>1, <2>7 DEF ProcInv, JoinTypes
    <3>2. AtEndOfInput(joining)
      BY <2>6, <2>7 DEF AtEndOfInput
    <3>3. QED
      BY <3>1, <3>2 DEF CanExit
  <2>8. \A p \in Children : child[p] = "running" => ChildEnds(p, combined[p]) \subseteq holds[p]
    BY <1>1 DEF ProcInv, ChildHolds
  <2>9. QED
    BY <2>5, <2>6, <2>7, <2>8 DEF ProcessSound
<1>2. QED
  BY <1>1, ProcInvInit, ProcInvStep, PTL DEF ProcSpec

-----------------------------------------------------------------------------
(* The logs and the domains                                                *)

LogSpec == LogInit /\ [][LogNext]_logvars

\* The list of the domains is that of the records in use; the id of a module
\* is that of a domain of its name, unless that was removed.
DomainInv ==
  /\ domains \in Seq(DomainIds) /\ domain \in [DomainIds -> DomainRecords \cup {NoDomain}]
  /\ held \in [DomainNames -> DomainIds \cup {0}]
  /\ IsInjective(domains) /\ ToSet(domains) = UsedIds
  /\ \A m \in DomainNames \ orphaned :
       held[m] # 0 => held[m] \in UsedIds /\ domain[held[m]].name = m

\* The list of the logs is that of the records in use; they write to the
\* files that their names stand for.
FilesInv ==
  /\ logs \in Seq(LogRecords) /\ log \in [LogRecords -> OpenLogs \cup {NoLog}]
  /\ disk \in [LogFiles -> 0 .. MaxRotations] /\ rotated \subseteq LogFiles
  /\ IsInjective(logs) /\ ToSet(logs) = {r \in LogRecords : log[r] # NoLog}
  /\ \A r \in LogRecords :
       log[r] # NoLog /\ log[r].file \in LogFiles \ rotated => log[r].gen = disk[log[r].file]

\* Between ogs_log_final and the next ogs_log_init nothing is there; else the
\* library's own domain is.
BothOrNeither == IF domains = << >> THEN logs = << >> ELSE 1 \in UsedIds

LineAgrees == line.file => line.stderr > 0

\* The inductive invariant.
LogInv == DomainInv /\ FilesInv /\ BothOrNeither /\ LineAgrees

\* Where an element of a list is, and the list without it.
LEMMA ListWithoutIs ==
  ASSUME NEW S, NEW list \in Seq(S), IsInjective(list), NEW x \in ToSet(list)
  PROVE  /\ ListWithout(list, x) \in Seq(S) /\ IsInjective(ListWithout(list, x))
         /\ ToSet(ListWithout(list, x)) = ToSet(list) \ {x}
<1> DEFINE k == CHOOSE i \in DOMAIN list : list[i] = x
<1>1. k \in DOMAIN list /\ list[k] = x
  BY DEF ToSet
<1>2. ListWithout(list, x) = RemoveAt(list, k)
  BY DEF ListWithout
<1> HIDE DEF k
<1>3. QED
  BY <1>1, <1>2, InjectiveRemove

\* ogs_log_find_domain finds a domain of that name, or there is none.
LEMMA FoundDomain ==
  ASSUME LogInv, NEW name
  PROVE  FindDomain(name) # 0 => FindDomain(name) \in UsedIds /\ domain[FindDomain(name)].name = name
<1> DEFINE found == {i \in DOMAIN domains : domain[domains[i]].name = name}
<1>1. domains \in Seq(DomainIds) /\ ToSet(domains) = UsedIds
  BY DEF LogInv, DomainInv
<1>2. DOMAIN domains = 1 .. Len(domains) /\ Len(domains) \in Nat
  BY <1>1, LenProperties
<1>3. found \subseteq Nat
  BY <1>2
<1>4. FindDomain(name) = IF found = {} THEN 0 ELSE domains[Min(found)]
  BY DEF FindDomain
<1>5. ASSUME found # {} PROVE Min(found) \in found
  <2> HIDE DEF found
  <2>1. \E n \in found : \A m \in found : n <= m
    BY <1>3, <1>5, LeastNumber
  <2>2. QED
    BY <2>1 DEF Min
<1>6. QED
  BY <1>1, <1>4, <1>5 DEF ToSet

\* What leaves the domains, or the logs, alone.
LEMMA OthersKeepParts ==
  ASSUME LogInv
  PROVE  /\ UNCHANGED <<domains, domain, held, orphaned>> => DomainInv' /\ UsedIds' = UsedIds
         /\ UNCHANGED <<logs, log, disk, rotated>> => FilesInv'
         /\ UNCHANGED line => LineAgrees'
  BY DEF LogInv, DomainInv, FilesInv, UsedIds, LineAgrees

\* ogs_log_add_domain, the id handed to a module or not.
LEMMA AddDomainKeepsInv ==
  ASSUME LogInv, domains # << >>, NEW id \in DomainIds, NEW m \in DomainNames,
         NEW level \in LogLevels \cup {DefaultLevel}, AddDomainAs(id, m, level),
         \/ UNCHANGED <<held, orphaned>>
         \/ held' = [held EXCEPT ![m] = id] /\ orphaned' = orphaned \ {m},
         UNCHANGED <<logs, log, disk, rotated, line>>
  PROVE  LogInv'
<1>1. /\ id \notin UsedIds /\ domains' = Append(domains, id)
      /\ domain' = [domain EXCEPT ![id] = [name |-> m, level |-> level]]
  BY DEF AddDomainAs
<1>2. /\ domains \in Seq(DomainIds) /\ IsInjective(domains) /\ ToSet(domains) = UsedIds
      /\ domain \in [DomainIds -> DomainRecords \cup {NoDomain}]
      /\ held \in [DomainNames -> DomainIds \cup {0}]
      /\ \A n \in DomainNames \ orphaned : held[n] # 0 => held[n] \in UsedIds /\ domain[held[n]].name = n
  BY DEF LogInv, DomainInv
<1>3. /\ domains' \in Seq(DomainIds) /\ IsInjective(domains') /\ ToSet(domains') = UsedIds \cup {id}
  BY <1>1, <1>2, InjectiveAppend
<1>4. [name |-> m, level |-> level] \in DomainRecords
  BY DEF DomainRecords
<1>5. /\ domain' \in [DomainIds -> DomainRecords \cup {NoDomain}]
      /\ domain'[id].name = m /\ domain'[id] # NoDomain
      /\ \A i \in DomainIds \ {id} : domain'[i] = domain[i]
  BY <1>1, <1>2, <1>4, LogAssumption
<1>6. UsedIds' = UsedIds \cup {id}
  BY <1>5 DEF UsedIds
<1>7. id # 0
  BY LogAssumption
<1>8. /\ held' \in [DomainNames -> DomainIds \cup {0}]
      /\ \A n \in DomainNames \ orphaned' : held'[n] # 0 => held'[n] \in UsedIds' /\ domain'[held'[n]].name = n
  <2>1. \A n \in DomainNames \ orphaned : held[n] # 0 => held[n] \in UsedIds' /\ domain'[held[n]].name = n
    BY <1>1, <1>2, <1>5, <1>6 DEF UsedIds
  <2>2. id \in UsedIds' /\ domain'[id].name = m
    BY <1>5, <1>6
  <2>3. QED
    BY <1>2, <1>5, <2>1, <2>2
<1>9. DomainInv'
  BY <1>3, <1>5, <1>6, <1>8 DEF DomainInv
<1>10. BothOrNeither'
  <2>1. 1 \in UsedIds'
    BY <1>6 DEF LogInv, BothOrNeither
  <2>2. domains' # << >>
    BY <1>3, <1>6, <2>1 DEF ToSet
  <2>3. QED
    BY <2>1, <2>2 DEF BothOrNeither
<1>11. QED
  BY <1>9, <1>10, OthersKeepParts DEF LogInv

\* ogs_log_remove_domain.
LEMMA RemoveDomainKeepsInv ==
  ASSUME LogInv, NEW id \in DomainIds, RemoveDomain(id)
  PROVE  LogInv'
<1>1. /\ id \in UsedIds /\ id # 1 /\ domains' = ListWithout(domains, id)
      /\ domain' = [domain EXCEPT ![id] = NoDomain]
      /\ orphaned' = orphaned \cup {m \in DomainNames : held[m] = id}
      /\ UNCHANGED <<logs, log, held, disk, rotated, line>>
  BY DEF RemoveDomain
<1>2. /\ domains \in Seq(DomainIds) /\ IsInjective(domains) /\ ToSet(domains) = UsedIds
      /\ domain \in [DomainIds -> DomainRecords \cup {NoDomain}]
      /\ held \in [DomainNames -> DomainIds \cup {0}]
  BY DEF LogInv, DomainInv
<1>3. domains # << >>
  BY <1>1, <1>2 DEF ToSet
<1>4. domains' \in Seq(DomainIds) /\ IsInjective(domains') /\ ToSet(domains') = UsedIds \ {id}
  BY <1>1, <1>2, ListWithoutIs
<1>5. /\ domain' \in [DomainIds -> DomainRecords \cup {NoDomain}]
      /\ domain'[id] = NoDomain /\ \A i \in DomainIds \ {id} : domain'[i] = domain[i]
  BY <1>1, <1>2
<1>6. UsedIds' = UsedIds \ {id}
  BY <1>5 DEF UsedIds
<1>7. \A n \in DomainNames \ orphaned' : held[n] # 0 => held[n] \in UsedIds' /\ domain'[held[n]].name = n
  <2>1. \A n \in DomainNames \ orphaned : held[n] # 0 => held[n] \in UsedIds /\ domain[held[n]].name = n
    BY DEF LogInv, DomainInv
  <2>2. \A n \in DomainNames \ orphaned' : n \notin orphaned /\ held[n] # id
    BY <1>1
  <2>3. QED
    BY <1>2, <1>5, <1>6, <2>1, <2>2
<1>8. DomainInv'
  BY <1>1, <1>2, <1>4, <1>5, <1>6, <1>7 DEF DomainInv
<1>9. BothOrNeither'
  <2>1. 1 \in UsedIds'
    BY <1>1, <1>3, <1>6 DEF LogInv, BothOrNeither
  <2>2. domains' # << >>
    BY <1>4, <1>6, <2>1 DEF ToSet
  <2>3. QED
    BY <2>1, <2>2 DEF BothOrNeither
<1>10. QED
  BY <1>1, <1>8, <1>9, OthersKeepParts DEF LogInv

\* Changes of levels, and an id handed to one more module.
LEMMA LevelsKeepInv ==
  ASSUME LogInv, domains # << >>, UNCHANGED <<domains, logs, log, disk, rotated, line>>,
         domain' \in [DomainIds -> DomainRecords \cup {NoDomain}], UsedIds' = UsedIds,
         \A id \in UsedIds : domain'[id].name = domain[id].name,
         \/ UNCHANGED <<held, orphaned>>
         \/ \E m \in DomainNames, id \in UsedIds :
              domain[id].name = m /\ held' = [held EXCEPT ![m] = id] /\ orphaned' = orphaned \ {m}
  PROVE  LogInv'
<1>1. /\ held \in [DomainNames -> DomainIds \cup {0}]
      /\ \A n \in DomainNames \ orphaned : held[n] # 0 => held[n] \in UsedIds /\ domain[held[n]].name = n
  BY DEF LogInv, DomainInv
<1>2. UsedIds \subseteq DomainIds
  BY DEF UsedIds
<1>3. /\ held' \in [DomainNames -> DomainIds \cup {0}]
      /\ \A n \in DomainNames \ orphaned' : held'[n] # 0 => held'[n] \in UsedIds /\ domain'[held'[n]].name = n
  BY <1>1, <1>2
<1>4. DomainInv'
  BY <1>3 DEF LogInv, DomainInv
<1>5. BothOrNeither'
  BY DEF LogInv, BothOrNeither
<1>6. QED
  BY <1>4, <1>5, OthersKeepParts DEF LogInv

\* A level that is set leaves the names.
LEMMA LevelSet ==
  ASSUME LogInv, NEW ids, NEW level \in LogLevels \cup {DefaultLevel},
         domain' = [id \in DomainIds |-> IF id \in ids /\ id \in UsedIds
                                          THEN [domain[id] EXCEPT !.level = level] ELSE domain[id]]
  PROVE  /\ domain' \in [DomainIds -> DomainRecords \cup {NoDomain}] /\ UsedIds' = UsedIds
         /\ \A id \in UsedIds : domain'[id].name = domain[id].name
<1>1. domain \in [DomainIds -> DomainRecords \cup {NoDomain}]
  BY DEF LogInv, DomainInv
<1>2. ASSUME NEW id \in DomainIds
      PROVE  /\ domain'[id] \in DomainRecords \cup {NoDomain}
             /\ domain'[id] = NoDomain <=> domain[id] = NoDomain
             /\ id \in UsedIds => domain'[id].name = domain[id].name
  <2>1. CASE id \in ids /\ id \in UsedIds
    <3>1. domain[id] \in DomainRecords
      BY <1>1, <2>1 DEF UsedIds
    <3>2. domain'[id] = [domain[id] EXCEPT !.level = level]
      BY <2>1
    <3>3. domain'[id] \in DomainRecords /\ domain'[id].name = domain[id].name
      BY <3>1, <3>2 DEF DomainRecords
    <3>4. QED
      BY <3>1, <3>3, LogAssumption
  <2>2. CASE ~(id \in ids /\ id \in UsedIds)
    BY <1>1, <2>2
  <2>3. QED
    BY <2>1, <2>2
<1>3. domain' \in [DomainIds -> DomainRecords \cup {NoDomain}]
  <2>1. DOMAIN domain' = DomainIds /\ domain' = [id \in DomainIds |-> domain'[id]]
    OBVIOUS
  <2>2. QED
    BY <1>2, <2>1
<1>4. QED
  BY <1>2, <1>3 DEF UsedIds

\* ogs_log_set_domain_level, ogs_log_install_domain of a name that is there,
\* and ogs_log_set_mask_level.
LEMMA OneLevelSet ==
  ASSUME LogInv, NEW id \in UsedIds, NEW level \in LogLevels \cup {DefaultLevel},
         domain' = [domain EXCEPT ![id].level = level]
  PROVE  /\ domain' \in [DomainIds -> DomainRecords \cup {NoDomain}] /\ UsedIds' = UsedIds
         /\ \A i \in UsedIds : domain'[i].name = domain[i].name
<1>1. domain \in [DomainIds -> DomainRecords \cup {NoDomain}] /\ id \in DomainIds
  BY DEF LogInv, DomainInv, UsedIds
<1>2. domain' = [i \in DomainIds |-> IF i \in {id} /\ i \in UsedIds
                                     THEN [domain[i] EXCEPT !.level = level] ELSE domain[i]]
  BY <1>1
<1>3. QED
  BY <1>2, LevelSet

\* ogs_log_add_stderr and ogs_log_add_file.
LEMMA AddLogKeepsInv ==
  ASSUME LogInv, domains # << >>, NEW r \in LogRecords, NEW f \in LogFiles \cup {Stderr}, AddLog(r, f)
  PROVE  LogInv'
<1> DEFINE opened == [file |-> f, gen |-> IF f = Stderr THEN 0 ELSE disk[f]]
<1>1. /\ log[r] = NoLog /\ logs' = Append(logs, r) /\ log' = [log EXCEPT ![r] = opened]
      /\ UNCHANGED <<domains, domain, held, orphaned, disk, rotated, line>>
  BY DEF AddLog
<1>2. /\ logs \in Seq(LogRecords) /\ IsInjective(logs) /\ ToSet(logs) = {q \in LogRecords : log[q] # NoLog}
      /\ log \in [LogRecords -> OpenLogs \cup {NoLog}] /\ disk \in [LogFiles -> 0 .. MaxRotations]
      /\ \A q \in LogRecords : log[q] # NoLog /\ log[q].file \in LogFiles \ rotated => log[q].gen = disk[log[q].file]
  BY DEF LogInv, FilesInv
<1>3. opened \in OpenLogs /\ opened.file = f /\ (f \in LogFiles => opened.gen = disk[f])
  BY <1>2, LogAssumption DEF OpenLogs
<1> HIDE DEF opened
<1>4. logs' \in Seq(LogRecords) /\ IsInjective(logs') /\ ToSet(logs') = ToSet(logs) \cup {r}
  BY <1>1, <1>2, InjectiveAppend
<1>5. /\ log' \in [LogRecords -> OpenLogs \cup {NoLog}] /\ log'[r] = opened /\ log'[r] # NoLog
      /\ \A q \in LogRecords \ {r} : log'[q] = log[q]
  BY <1>1, <1>2, <1>3, LogAssumption
<1>6. ToSet(logs') = {q \in LogRecords : log'[q] # NoLog}
  BY <1>1, <1>2, <1>4, <1>5
<1>7. \A q \in LogRecords :
        log'[q] # NoLog /\ log'[q].file \in LogFiles \ rotated' => log'[q].gen = disk'[log'[q].file]
  BY <1>1, <1>2, <1>3, <1>5
<1>8. FilesInv'
  BY <1>1, <1>4, <1>5, <1>6, <1>7 DEF LogInv, FilesInv
<1>9. BothOrNeither'
  BY <1>1 DEF LogInv, BothOrNeither, UsedIds
<1>10. QED
  BY <1>1, <1>8, <1>9, OthersKeepParts DEF LogInv

\* ogs_log_remove.
LEMMA RemoveLogKeepsInv ==
  ASSUME LogInv, domains # << >>, NEW r \in LogRecords, RemoveLog(r)
  PROVE  LogInv'
<1>1. /\ log[r] # NoLog /\ logs' = ListWithout(logs, r) /\ log' = [log EXCEPT ![r] = NoLog]
      /\ UNCHANGED <<domains, domain, held, orphaned, disk, rotated, line>>
  BY DEF RemoveLog
<1>2. /\ logs \in Seq(LogRecords) /\ IsInjective(logs) /\ ToSet(logs) = {q \in LogRecords : log[q] # NoLog}
      /\ log \in [LogRecords -> OpenLogs \cup {NoLog}]
      /\ \A q \in LogRecords : log[q] # NoLog /\ log[q].file \in LogFiles \ rotated => log[q].gen = disk[log[q].file]
  BY DEF LogInv, FilesInv
<1>3. logs' \in Seq(LogRecords) /\ IsInjective(logs') /\ ToSet(logs') = ToSet(logs) \ {r}
  BY <1>1, <1>2, ListWithoutIs
<1>4. /\ log' \in [LogRecords -> OpenLogs \cup {NoLog}] /\ log'[r] = NoLog
      /\ \A q \in LogRecords \ {r} : log'[q] = log[q]
  BY <1>1, <1>2
<1>5. ToSet(logs') = {q \in LogRecords : log'[q] # NoLog}
  BY <1>1, <1>2, <1>3, <1>4
<1>6. \A q \in LogRecords :
        log'[q] # NoLog /\ log'[q].file \in LogFiles \ rotated' => log'[q].gen = disk'[log'[q].file]
  BY <1>1, <1>2, <1>4
<1>7. FilesInv'
  BY <1>1, <1>3, <1>4, <1>5, <1>6 DEF LogInv, FilesInv
<1>8. BothOrNeither'
  BY <1>1 DEF LogInv, BothOrNeither, UsedIds
<1>9. QED
  BY <1>1, <1>7, <1>8, OthersKeepParts DEF LogInv

\* A log file is moved away.
LEMMA RotateKeepsInv ==
  ASSUME LogInv, NEW f \in LogFiles, Rotate(f)
  PROVE  LogInv'
<1>1. /\ disk[f] < MaxRotations /\ disk' = [disk EXCEPT ![f] = @ + 1] /\ rotated' = rotated \cup {f}
      /\ UNCHANGED <<domains, domain, logs, log, held, orphaned, line>>
  BY DEF Rotate
<1>2. disk \in [LogFiles -> 0 .. MaxRotations] /\ MaxRotations \in Nat
  BY LogAssumption DEF LogInv, FilesInv
<1>3. disk' \in [LogFiles -> 0 .. MaxRotations] /\ \A g \in LogFiles \ {f} : disk'[g] = disk[g]
  BY <1>1, <1>2
<1>4. FilesInv'
  BY <1>1, <1>3 DEF LogInv, FilesInv
<1>5. BothOrNeither'
  BY <1>1 DEF LogInv, BothOrNeither, UsedIds
<1>6. QED
  BY <1>1, <1>4, <1>5, OthersKeepParts DEF LogInv

\* ogs_log_cycle.
LEMMA CycleKeepsInv ==
  ASSUME LogInv, Cycle
  PROVE  LogInv'
<1>1. /\ log' = [r \in LogRecords |->
                   IF log[r] = NoLog \/ log[r].file = Stderr THEN log[r]
                   ELSE [log[r] EXCEPT !.gen = disk[log[r].file]]]
      /\ rotated' = {} /\ UNCHANGED <<domains, domain, logs, held, orphaned, disk, line>>
  BY DEF Cycle
<1>2. /\ log \in [LogRecords -> OpenLogs \cup {NoLog}] /\ disk \in [LogFiles -> 0 .. MaxRotations]
      /\ ToSet(logs) = {q \in LogRecords : log[q] # NoLog}
  BY DEF LogInv, FilesInv
<1>3. ASSUME NEW r \in LogRecords
      PROVE  /\ log'[r] \in OpenLogs \cup {NoLog}
             /\ log'[r] = NoLog <=> log[r] = NoLog
             /\ log'[r] # NoLog /\ log'[r].file \in LogFiles => log'[r].gen = disk[log'[r].file]
  <2>1. CASE log[r] = NoLog \/ log[r].file = Stderr
    BY <1>1, <1>2, <2>1, LogAssumption
  <2>2. CASE ~(log[r] = NoLog \/ log[r].file = Stderr)
    <3>1. log[r] \in OpenLogs /\ log[r].file \in LogFiles /\ disk[log[r].file] \in 0 .. MaxRotations
      BY <1>2, <2>2 DEF OpenLogs
    <3>2. log'[r] = [log[r] EXCEPT !.gen = disk[log[r].file]]
      BY <1>1, <2>2
    <3>3. /\ log'[r] \in OpenLogs /\ log'[r].file = log[r].file
          /\ log'[r].gen = disk[log[r].file]
      BY <3>1, <3>2 DEF OpenLogs
    <3>4. QED
      BY <2>2, <3>3, LogAssumption
  <2>3. QED
    BY <2>1, <2>2
<1>4. log' \in [LogRecords -> OpenLogs \cup {NoLog}]
  <2>1. log' = [r \in LogRecords |-> log'[r]]
    BY <1>1
  <2>2. QED
    BY <1>3, <2>1
<1>5. ToSet(logs') = {q \in LogRecords : log'[q] # NoLog}
  BY <1>1, <1>2, <1>3
<1>6. FilesInv'
  BY <1>1, <1>3, <1>4, <1>5 DEF LogInv, FilesInv
<1>7. BothOrNeither'
  BY <1>1 DEF LogInv, BothOrNeither, UsedIds
<1>8. QED
  BY <1>1, <1>6, <1>7, OthersKeepParts DEF LogInv

\* ogs_log_vprintf: what reaches a file reaches standard error.
LEMMA PrintfKeepsInv ==
  ASSUME LogInv, NEW id, NEW level, Printf(id, level)
  PROVE  LogInv'
<1> DEFINE passes == logs = << >> \/ domain[id].level >= level
           errs == {r \in ToSet(logs) : log[r].file = Stderr}
<1>1. /\ line' = IF ~passes THEN NoLine
                  ELSE [file |-> errs # ToSet(logs),
                        stderr |-> IF errs = {} THEN 1 ELSE Cardinality(errs)]
      /\ UNCHANGED <<domains, domain, logs, log, held, orphaned, disk, rotated>>
  BY DEF Printf
<1>2. IsFiniteSet(errs)
  <2>1. logs \in Seq(LogRecords)
    BY DEF LogInv, FilesInv
  <2>2. IsFiniteSet(ToSet(logs))
    BY <2>1, ElementsAreFinite
  <2>3. errs \in SUBSET ToSet(logs)
    OBVIOUS
  <2>4. QED
    BY <2>2, <2>3, FS_Subset
<1> HIDE DEF errs, passes
<1>3. errs # {} => Cardinality(errs) \in Nat /\ Cardinality(errs) # 0
  BY <1>2, FS_CardinalityType, FS_EmptySet
<1>4. LineAgrees'
  <2>1. CASE ~passes
    BY <1>1, <2>1 DEF LineAgrees, NoLine
  <2>2. CASE passes
    <3>1. line'.stderr = IF errs = {} THEN 1 ELSE Cardinality(errs)
      BY <1>1, <2>2
    <3>2. QED
      BY <1>3, <3>1 DEF LineAgrees
  <2>3. QED
    BY <2>1, <2>2
<1>5. BothOrNeither'
  BY <1>1 DEF LogInv, BothOrNeither, UsedIds
<1>6. QED
  BY <1>1, <1>4, <1>5, OthersKeepParts DEF LogInv

\* ogs_log_init and ogs_log_final.
LEMMA LogBeginsAndEnds ==
  /\ LogInit => LogInv
  /\ LogInv /\ LogFinal => LogInv'
  /\ LogInv /\ LogInitAgain => LogInv'
<1>1. /\ \A S : << >> \in Seq(S)
      /\ IsInjective(<< >>) /\ ToSet(<< >>) = {}
  BY EmptySeq DEF IsInjective, ToSet
<1>2. /\ <<1>> \in Seq(DomainIds) /\ <<1>> \in Seq(LogRecords)
      /\ IsInjective(<<1>>) /\ ToSet(<<1>>) = {1} /\ <<1>> # << >>
  BY LogAssumption DEF IsInjective, ToSet
<1> DEFINE core == [name |-> "core", level |-> DefaultLevel]
           errors == [file |-> Stderr, gen |-> 0]
<1>3. /\ core \in DomainRecords /\ core # NoDomain
      /\ errors \in OpenLogs /\ errors # NoLog /\ errors.file \notin LogFiles
  BY LogAssumption DEF DomainRecords, OpenLogs
<1>4. ASSUME LogInit PROVE LogInv
  <2>1. /\ domains = <<1>> /\ domain = [id \in DomainIds |-> IF id = 1 THEN core ELSE NoDomain]
        /\ logs = <<1>> /\ log = [r \in LogRecords |-> IF r = 1 THEN errors ELSE NoLog]
        /\ held = [m \in DomainNames |-> 0] /\ orphaned = {} /\ disk = [f \in LogFiles |-> 0]
        /\ rotated = {} /\ line = NoLine
    BY <1>4 DEF LogInit
  <2> HIDE DEF core, errors
  <2>2. UsedIds = {1}
    BY <1>3, <2>1, LogAssumption DEF UsedIds
  <2>3. DomainInv
    BY <1>2, <1>3, <2>1, <2>2 DEF DomainInv
  <2>4. {r \in LogRecords : log[r] # NoLog} = {1}
    BY <1>3, <2>1, LogAssumption
  <2>5. disk \in [LogFiles -> 0 .. MaxRotations] /\ log \in [LogRecords -> OpenLogs \cup {NoLog}]
    BY <1>3, <2>1, LogAssumption
  <2>6. FilesInv
    BY <1>2, <1>3, <2>1, <2>4, <2>5 DEF FilesInv
  <2>7. BothOrNeither /\ LineAgrees
    BY <1>2, <2>1, <2>2 DEF BothOrNeither, LineAgrees, NoLine
  <2>8. QED
    BY <2>3, <2>6, <2>7 DEF LogInv
<1>5. ASSUME LogInv, LogFinal PROVE LogInv'
  <2>1. /\ logs' = << >> /\ log' = [r \in LogRecords |-> NoLog]
        /\ domains' = << >> /\ domain' = [id \in DomainIds |-> NoDomain]
        /\ orphaned' = {m \in DomainNames : held[m] # 0}
        /\ rotated' = {} /\ line' = NoLine /\ UNCHANGED <<held, disk>>
    BY <1>5 DEF LogFinal
  <2>2. UsedIds' = {}
    BY <2>1 DEF UsedIds
  <2>3. DomainInv'
    BY <1>1, <1>5, <2>1, <2>2 DEF LogInv, DomainInv
  <2>4. FilesInv'
    BY <1>1, <1>5, <2>1 DEF LogInv, FilesInv
  <2>5. BothOrNeither' /\ LineAgrees'
    BY <2>1 DEF BothOrNeither, LineAgrees, NoLine
  <2>6. QED
    BY <2>3, <2>4, <2>5 DEF LogInv
<1>6. ASSUME LogInv, LogInitAgain PROVE LogInv'
  <2>1. /\ domains = << >> /\ domains' = <<1>> /\ domain' = [domain EXCEPT ![1] = core]
        /\ logs' = <<1>> /\ log' = [log EXCEPT ![1] = errors]
        /\ UNCHANGED <<held, orphaned, disk, rotated, line>>
    BY <1>6 DEF LogInitAgain
  <2> HIDE DEF core, errors
  <2>2. /\ \A id \in DomainIds : domain[id] = NoDomain
        /\ \A r \in LogRecords : log[r] = NoLog
        /\ domain \in [DomainIds -> DomainRecords \cup {NoDomain}]
        /\ log \in [LogRecords -> OpenLogs \cup {NoLog}]
    <3>1. UsedIds = {} /\ {r \in LogRecords : log[r] # NoLog} = {}
      BY <1>1, <1>6, <2>1 DEF LogInv, DomainInv, FilesInv, BothOrNeither
    <3>2. QED
      BY <1>6, <3>1 DEF LogInv, DomainInv, FilesInv, UsedIds
  <2>3. /\ domain' \in [DomainIds -> DomainRecords \cup {NoDomain}] /\ domain'[1] = core
        /\ \A id \in DomainIds \ {1} : domain'[id] = NoDomain
        /\ log' \in [LogRecords -> OpenLogs \cup {NoLog}] /\ log'[1] = errors
        /\ \A r \in LogRecords \ {1} : log'[r] = NoLog
    BY <1>3, <2>1, <2>2, LogAssumption
  <2>4. UsedIds' = {1} /\ {r \in LogRecords : log'[r] # NoLog} = {1}
    BY <1>3, <2>3, LogAssumption DEF UsedIds
  <2>5. DomainInv'
    <3>1. UsedIds = {}
      BY <2>2 DEF UsedIds
    <3>2. /\ held \in [DomainNames -> DomainIds \cup {0}]
          /\ \A m \in DomainNames \ orphaned : held[m] = 0
      BY <1>6, <3>1 DEF LogInv, DomainInv
    <3>3. QED
      BY <1>2, <2>1, <2>3, <2>4, <3>2 DEF DomainInv
  <2>6. FilesInv'
    BY <1>2, <1>3, <1>6, <2>1, <2>3, <2>4 DEF LogInv, FilesInv
  <2>7. BothOrNeither'
    BY <1>2, <2>1, <2>4 DEF BothOrNeither
  <2>8. QED
    BY <1>6, <2>1, <2>5, <2>6, <2>7, OthersKeepParts DEF LogInv
<1>7. QED
  BY <1>4, <1>5, <1>6

\* Every call of the interface keeps the invariant.
LEMMA LogInvStep == LogInv /\ [LogNext]_logvars => LogInv'
<1> SUFFICES ASSUME LogInv, [LogNext]_logvars PROVE LogInv'
  OBVIOUS
<1> DEFINE Levels == LogLevels \cup {DefaultLevel}
<1>1. ASSUME domains # << >>, NEW id \in DomainIds, NEW level \in LogLevels, SetDomainLevel(id, level)
      PROVE  LogInv'
  BY <1>1, OneLevelSet, LevelsKeepInv DEF SetDomainLevel
<1>2. ASSUME domains # << >>, NEW id \in DomainIds, NEW level \in LogLevels, NEW m \in DomainNames,
             AddDomain(id, m, level)
      PROVE  LogInv'
  BY <1>2, AddDomainKeepsInv DEF AddDomain
<1>3. ASSUME NEW id \in DomainIds, RemoveDomain(id) PROVE LogInv'
  BY <1>3, RemoveDomainKeepsInv
<1>4. ASSUME domains # << >>, NEW m \in DomainNames, NEW level \in LogLevels, InstallDomain(m, level)
      PROVE  LogInv'
  <2>1. ASSUME FindDomain(m) # 0, domain' = [domain EXCEPT ![FindDomain(m)].level = level],
               held' = [held EXCEPT ![m] = FindDomain(m)], UNCHANGED domains
        PROVE  LogInv'
    <3>1. FindDomain(m) \in UsedIds /\ domain[FindDomain(m)].name = m
      BY <2>1, FoundDomain
    <3>2. /\ domain' \in [DomainIds -> DomainRecords \cup {NoDomain}] /\ UsedIds' = UsedIds
          /\ \A i \in UsedIds : domain'[i].name = domain[i].name
      BY <2>1, <3>1, OneLevelSet
    <3>3. orphaned' = orphaned \ {m} /\ UNCHANGED <<domains, logs, log, disk, rotated, line>>
      BY <1>4, <2>1 DEF InstallDomain
    <3>4. QED
      BY <1>4, <2>1, <3>1, <3>2, <3>3, LevelsKeepInv
  <2>2. ASSUME NEW id \in DomainIds, AddDomainAs(id, m, level), held' = [held EXCEPT ![m] = id]
        PROVE  LogInv'
    BY <1>4, <2>2, AddDomainKeepsInv DEF InstallDomain
  <2>3. QED
    BY <1>4, <2>1, <2>2 DEF InstallDomain
<1>5. ASSUME domains # << >>, NEW ids, NEW level \in Levels, SetMaskLevel(ids, level) PROVE LogInv'
  BY <1>5, LevelSet, LevelsKeepInv DEF SetMaskLevel
<1>6. ASSUME domains # << >>, ConfigDomain PROVE LogInv'
  BY <1>5, <1>6 DEF ConfigDomain
<1>7. ASSUME domains # << >>, NEW r \in LogRecords, RemoveLog(r) PROVE LogInv'
  BY <1>7, RemoveLogKeepsInv
<1>8. ASSUME domains # << >>, NEW r \in LogRecords, NEW f \in LogFiles \cup {Stderr}, AddLog(r, f)
      PROVE  LogInv'
  BY <1>8, AddLogKeepsInv
<1>9. CASE Cycle
  BY <1>9, CycleKeepsInv
<1>10. CASE LogFinal
  BY <1>10, LogBeginsAndEnds
<1>11. ASSUME NEW f \in LogFiles, Rotate(f) PROVE LogInv'
  BY <1>11, RotateKeepsInv
<1>12. ASSUME NEW id, NEW level, Printf(id, level) PROVE LogInv'
  BY <1>12, PrintfKeepsInv
<1>13. CASE LogInitAgain
  BY <1>13, LogBeginsAndEnds
<1>14. CASE UNCHANGED logvars
  BY <1>14, OthersKeepParts DEF logvars, LogInv, BothOrNeither
<1>15. QED
  BY <1>1, <1>2, <1>3, <1>4, <1>6, <1>7, <1>8, <1>9, <1>10, <1>11, <1>12, <1>13, <1>14 DEF LogNext

\* For any number of domains, logs and files: the lists agree with the
\* records, the id of a module is that of a domain of its name for as long as
\* that domain is not removed, a file log writes where its name points, however
\* often files were moved before the last ogs_log_cycle, and what gets to a
\* file gets to stderr.
THEOREM LogsAreSound == LogSpec => []LogSound
<1>1. LogInv => LogSound
  BY DEF LogInv, DomainInv, FilesInv, LineAgrees, LogSound
<1>2. QED
  BY <1>1, LogBeginsAndEnds, LogInvStep, PTL DEF LogSpec

-----------------------------------------------------------------------------
(* Memory and packet buffers                                              *)

\* The owners: as EveryPkbufHasOneOwner, also after the end of the process,
\* and two reallocs under way never share a pkbuf.
OwnersApart ==
  /\ UsedPkbufs = block \cup packet \cup MovingPkbufs
  /\ moving \subseteq Pkbufs \X Pkbufs
  /\ block \cap packet = {}
  /\ MovingPkbufs \cap (block \cup packet) = {}
  /\ \A m \in moving : m[1] # m[2]
  /\ \A m, n \in moving : m # n => {m[1], m[2]} \cap {n[1], n[2]} = {}

\* Two clusters never have the same buffer.
BuffersApart ==
  \A c, d \in UsedClusters : cluster[c].buffer = cluster[d].buffer => c = d

\* Only packets share clusters.
BlocksAlone ==
  \A p \in block \cup MovingPkbufs, q \in UsedPkbufs :
    pkbuf[q].cluster = pkbuf[p].cluster => q = p

\* A block, or what will be one when its realloc ends, lies behind its header
\* and inside its buffer.
InsideBuffer(p) == /\ pkbuf[p].data = Header
                   /\ pkbuf[p].len = pkbuf[p].tail - pkbuf[p].data
                   /\ pkbuf[p].tail <= Capacity(p)

BlocksInside == \A p \in block \cup MovingPkbufs : InsideBuffer(p)

\* What an assertion of the allocator says about the pools.
AbortTellsPool == /\ abort = "cluster" => UsedClusters = Clusters
                  /\ abort = "pkbuf" => UsedPkbufs = Pkbufs

MemoryInv == /\ TypeOK /\ RefCountsSharers /\ OwnersApart /\ BuffersApart
             /\ BlocksAlone /\ BlocksInside /\ PacketInside /\ AbortTellsPool

-----------------------------------------------------------------------------
(* Sets of pkbufs, clusters and classes                                    *)

\* Sets of packet buffers are finite and at most as large as the pool, and
\* count as expected.
LEMMA PkbufSets ==
  ASSUME NEW S, S \subseteq Pkbufs
  PROVE  /\ IsFiniteSet(S)
         /\ Total \in Nat /\ Cardinality(S) \in 0 .. Total
         /\ Cardinality(S) = 0 <=> S = {}
         /\ \A x \in Pkbufs \ S : Cardinality(S \cup {x}) = Cardinality(S) + 1
         /\ \A x \in S : Cardinality(S \ {x}) = Cardinality(S) - 1
<1>1. IsFiniteSet(Pkbufs) /\ Cardinality(Pkbufs) = Total
  BY PkbufAssumption
<1>2. IsFiniteSet(S) /\ Cardinality(S) <= Cardinality(Pkbufs)
  BY <1>1, FS_Subset
<1>3. Cardinality(S) \in Nat /\ Cardinality(Pkbufs) \in Nat
  BY <1>1, <1>2, FS_CardinalityType
<1>4. \A x : /\ x \notin S => Cardinality(S \cup {x}) = Cardinality(S) + 1
             /\ x \in S => Cardinality(S \ {x}) = Cardinality(S) - 1
  BY <1>2, FS_AddElement, FS_RemoveElement
<1>5. QED
  BY <1>1, <1>2, <1>3, <1>4, FS_EmptySet

\* cluster_alloc takes a buffer that is large enough.
LEMMA ClassForFits ==
  ASSUME NEW size \in Nat, Fitting(size) # {}
  PROVE  ClassFor(size) \in Classes /\ size <= SizeOf[ClassFor(size)]
<1>1. Fitting(size) \subseteq Nat
  BY PkbufAssumption DEF Fitting
<1>2. \E k \in Fitting(size) : \A l \in Fitting(size) : k <= l
  BY <1>1, LeastNumber
<1>3. ClassFor(size) \in Fitting(size)
  BY <1>2 DEF ClassFor, Min
<1>4. QED
  BY <1>3 DEF Fitting

-----------------------------------------------------------------------------
(* The pools: what the operations of ogs-pkbuf.c do to the records         *)

PoolInv == TypeOK /\ RefCountsSharers /\ BuffersApart

\* A used packet buffer has a record that names a used cluster, whose counter
\* is the number of its sharers.
LEMMA RecordsInUse ==
  ASSUME TypeOK, RefCountsSharers
  PROVE  /\ \A p \in UsedPkbufs : pkbuf[p] \in PkbufRecords /\ pkbuf[p].cluster \in UsedClusters
         /\ \A c \in UsedClusters : /\ cluster[c] \in ClusterRecords
                                    /\ cluster[c].ref = Cardinality(Sharers(c))
                                    /\ cluster[c].ref \in Nat \ {0}
<1>1. ASSUME NEW p \in UsedPkbufs
      PROVE  pkbuf[p] \in PkbufRecords /\ pkbuf[p].cluster \in UsedClusters
  <2>1. pkbuf[p] \in PkbufRecords
    BY DEF TypeOK, UsedPkbufs
  <2>2. pkbuf[p].cluster \in Clusters /\ p \in Sharers(pkbuf[p].cluster)
    BY <2>1 DEF PkbufRecords, Sharers
  <2>3. QED
    BY <2>1, <2>2 DEF RefCountsSharers
<1>2. ASSUME NEW c \in UsedClusters
      PROVE  cluster[c] \in ClusterRecords /\ cluster[c].ref = Cardinality(Sharers(c))
  BY DEF TypeOK, RefCountsSharers, UsedClusters
<1>3. QED
  BY <1>1, <1>2 DEF ClusterRecords

\* The window of x and the class of its buffer stay what they are.
Keeps(x) == /\ pkbuf'[x] = pkbuf[x]
            /\ cluster'[pkbuf[x].cluster].class = cluster[pkbuf[x].cluster].class

\* ogs_pkbuf_alloc takes a free record, a free cluster and a free buffer.
LEMMA TakeStep ==
  ASSUME PoolInv, NEW p \in Pkbufs \ UsedPkbufs, NEW c \in Clusters \ UsedClusters,
         NEW k \in Classes, NEW b \in FreeBuffers(k),
         NEW w \in PkbufRecords, w.cluster = c, Take(p, c, b, w)
  PROVE  /\ PoolInv'
         /\ UsedPkbufs' = UsedPkbufs \cup {p}
         /\ pkbuf'[p] = w /\ cluster'[c].class = k
         /\ \A x \in UsedPkbufs : Keeps(x)
         /\ Sharers(c)' = {p}
<1> DEFINE r == [buffer |-> b, class |-> k, ref |-> 1]
<1>1. b \in Buffers(k) /\ b[1] = k /\ b \in AllBuffers
  BY DEF FreeBuffers, Buffers, AllBuffers
<1>2. r \in ClusterRecords /\ r # NULL /\ w # NULL
  BY <1>1, PkbufAssumption DEF ClusterRecords
<1>3. /\ pkbuf' \in [Pkbufs -> PkbufRecords \cup {NULL}]
      /\ pkbuf'[p] = w /\ \A x \in Pkbufs \ {p} : pkbuf'[x] = pkbuf[x]
  BY DEF Take, PoolInv, TypeOK
<1>4. /\ cluster' \in [Clusters -> ClusterRecords \cup {NULL}]
      /\ cluster'[c] = r /\ \A d \in Clusters \ {c} : cluster'[d] = cluster[d]
  BY <1>1, <1>2 DEF Take, PoolInv, TypeOK
<1> HIDE DEF r
<1>5. UsedPkbufs' = UsedPkbufs \cup {p} /\ UsedClusters' = UsedClusters \cup {c}
  BY <1>2, <1>3, <1>4 DEF UsedPkbufs, UsedClusters
<1>6. r.buffer = b /\ r.class = k /\ r.ref = 1
  BY DEF r
<1>7. Sharers(c) = {} /\ \A x \in UsedPkbufs : pkbuf[x].cluster \in Clusters \ {c}
  BY RecordsInUse DEF PoolInv, RefCountsSharers, UsedClusters
<1>8. Sharers(c)' = {p} /\ \A d \in Clusters \ {c} : Sharers(d)' = Sharers(d)
  BY <1>3, <1>5, <1>7 DEF Sharers, UsedPkbufs
<1>9. 1 <= Total /\ Cardinality({p}) = 1
  <2>1. Cardinality({p}) = 1
    BY FS_Singleton
  <2>2. Total \in Nat /\ Cardinality({p}) \in 0 .. Total
    BY PkbufSets
  <2>3. QED
    BY <2>1, <2>2
<1>10. TypeOK'
  BY <1>1, <1>3, <1>4, <1>5, <1>6, <1>9 DEF TypeOK, PoolInv, Take, UsedClusters
<1>11. RefCountsSharers'
  BY <1>4, <1>5, <1>6, <1>8, <1>9 DEF RefCountsSharers, PoolInv, UsedClusters
<1>12. BuffersApart'
  BY <1>4, <1>5, <1>6 DEF BuffersApart, PoolInv, FreeBuffers, UsedClusters
<1>13. \A x \in UsedPkbufs : Keeps(x)
  BY <1>3, <1>4, <1>7 DEF Keeps, UsedPkbufs
<1>14. QED
  BY <1>3, <1>4, <1>5, <1>6, <1>8, <1>10, <1>11, <1>12, <1>13 DEF PoolInv

\* ogs_pkbuf_free: the record goes back, and with the last pkbuf its cluster.
LEMMA FreeStep ==
  ASSUME PoolInv, NEW p \in UsedPkbufs, Free(p)
  PROVE  /\ PoolInv'
         /\ UsedPkbufs' = UsedPkbufs \ {p}
         /\ \A x \in UsedPkbufs \ {p} : Keeps(x)
<1>. PICK c \in UsedClusters : c = pkbuf[p].cluster
  BY RecordsInUse DEF PoolInv
<1>1. pkbuf[p] \in PkbufRecords /\ p \in Sharers(c)
  BY RecordsInUse DEF PoolInv, Sharers
<1>2. /\ cluster[c] \in ClusterRecords
      /\ cluster[c].ref = Cardinality(Sharers(c)) /\ cluster[c].ref \in Nat \ {0}
  BY <1>1, RecordsInUse DEF PoolInv
<1>3. /\ pkbuf' \in [Pkbufs -> PkbufRecords \cup {NULL}]
      /\ pkbuf'[p] = NULL /\ \A x \in Pkbufs \ {p} : pkbuf'[x] = pkbuf[x]
  BY DEF Free, PoolInv, TypeOK, UsedPkbufs
<1>4. UsedPkbufs' = UsedPkbufs \ {p}
  BY <1>3 DEF UsedPkbufs
<1>5. \A d \in Clusters : Sharers(d)' = Sharers(d) \ {p}
  BY <1>3, <1>4 DEF Sharers, UsedPkbufs
<1>6. Cardinality(Sharers(c)') = cluster[c].ref - 1
  <2>1. Sharers(c) \subseteq Pkbufs
    BY DEF Sharers, UsedPkbufs
  <2>2. QED
    BY <2>1, <1>1, <1>2, <1>5, PkbufSets DEF UsedClusters
<1>7. \A d \in Clusters \ {c} : Sharers(d)' = Sharers(d)
  BY <1>5 DEF Sharers
<1>8. cluster' = [cluster EXCEPT ![c] = Drop(c)] /\ UNCHANGED abort
  BY DEF Free
<1>9. \A d \in Clusters \ {c} : cluster'[d] = cluster[d]
  BY <1>8 DEF PoolInv, TypeOK
<1>10. CASE cluster[c].ref = 1
  <2>1. cluster'[c] = NULL /\ cluster' \in [Clusters -> ClusterRecords \cup {NULL}]
    BY <1>1, <1>8, <1>10 DEF Drop, PoolInv, TypeOK, UsedClusters
  <2>2. UsedClusters' = UsedClusters \ {c}
    BY <2>1, <1>9 DEF UsedClusters
  <2>3. Sharers(c)' = {}
    <3>1. Sharers(c)' \subseteq Pkbufs
      BY <1>3 DEF Sharers, UsedPkbufs
    <3>2. QED
      BY <3>1, <1>2, <1>6, <1>10, PkbufSets
  <2>4. TypeOK'
    BY <2>1, <2>2, <1>3, <1>8, <1>9 DEF TypeOK, PoolInv, UsedClusters
  <2>5. RefCountsSharers'
    BY <2>2, <2>3, <1>7, <1>9 DEF RefCountsSharers, PoolInv, UsedClusters
  <2>6. BuffersApart'
    BY <2>2, <1>9 DEF BuffersApart, PoolInv, UsedClusters
  <2>7. \A x \in UsedPkbufs \ {p} : pkbuf[x].cluster \in Clusters \ {c}
    BY <2>3, <1>5, RecordsInUse DEF PoolInv, Sharers, UsedClusters
  <2>8. QED
    BY <2>4, <2>5, <2>6, <2>7, <1>3, <1>4, <1>9 DEF Keeps, PoolInv, UsedPkbufs
<1>11. CASE cluster[c].ref # 1
  <2> DEFINE r == [cluster[c] EXCEPT !.ref = @ - 1]
  <2>1. /\ r \in ClusterRecords /\ r # NULL
        /\ r.buffer = cluster[c].buffer /\ r.class = cluster[c].class /\ r.ref = cluster[c].ref - 1
    BY <1>2, <1>11, PkbufAssumption DEF ClusterRecords
  <2>2. cluster'[c] = r /\ cluster' \in [Clusters -> ClusterRecords \cup {NULL}]
    BY <2>1, <1>1, <1>8, <1>11 DEF Drop, PoolInv, TypeOK, UsedClusters
  <2> HIDE DEF r
  <2>3. UsedClusters' = UsedClusters
    BY <2>1, <2>2, <1>1, <1>9 DEF UsedClusters
  <2>4. cluster[c].ref <= Total /\ Total \in Nat
    BY <1>1, PkbufSets DEF PoolInv, TypeOK
  <2>5. TypeOK'
    BY <2>1, <2>2, <2>3, <2>4, <1>2, <1>3, <1>8, <1>9 DEF TypeOK, PoolInv, UsedClusters
  <2>6. RefCountsSharers'
    BY <2>1, <2>2, <2>3, <1>6, <1>7, <1>9 DEF RefCountsSharers, PoolInv, UsedClusters
  <2>7. BuffersApart'
    BY <2>1, <2>2, <2>3, <1>1, <1>9 DEF BuffersApart, PoolInv, UsedClusters
  <2>8. \A d \in Clusters : cluster'[d].class = cluster[d].class
    BY <2>1, <2>2, <1>9
  <2>9. \A x \in UsedPkbufs : pkbuf[x].cluster \in Clusters
    BY RecordsInUse DEF PoolInv, UsedClusters
  <2>10. QED
    BY <2>5, <2>6, <2>7, <2>8, <2>9, <1>3, <1>4 DEF Keeps, PoolInv, UsedPkbufs
<1>12. QED
  BY <1>10, <1>11

\* ogs_pkbuf_copy: a free record shares the cluster of p.
LEMMA CopyStep ==
  ASSUME PoolInv, NEW p \in UsedPkbufs, NEW q \in Pkbufs \ UsedPkbufs,
         pkbuf' = [pkbuf EXCEPT ![q] = pkbuf[p]],
         cluster' = [cluster EXCEPT ![pkbuf[p].cluster].ref = @ + 1],
         UNCHANGED abort
  PROVE  /\ PoolInv'
         /\ UsedPkbufs' = UsedPkbufs \cup {q}
         /\ pkbuf'[q] = pkbuf[p]
         /\ \A x \in UsedPkbufs : Keeps(x)
<1>. PICK c \in UsedClusters : c = pkbuf[p].cluster
  BY RecordsInUse DEF PoolInv
<1> DEFINE r == [cluster[c] EXCEPT !.ref = @ + 1]
<1>1. pkbuf[p] \in PkbufRecords /\ p \in Sharers(c)
  BY RecordsInUse DEF PoolInv, Sharers
<1>2. /\ cluster[c] \in ClusterRecords
      /\ cluster[c].ref = Cardinality(Sharers(c)) /\ cluster[c].ref \in Nat \ {0}
  BY <1>1, RecordsInUse DEF PoolInv
<1>3. /\ r \in ClusterRecords /\ r # NULL
      /\ r.buffer = cluster[c].buffer /\ r.class = cluster[c].class /\ r.ref = cluster[c].ref + 1
  BY <1>2, PkbufAssumption DEF ClusterRecords
<1>4. /\ pkbuf' \in [Pkbufs -> PkbufRecords \cup {NULL}]
      /\ pkbuf'[q] = pkbuf[p] /\ \A x \in Pkbufs \ {q} : pkbuf'[x] = pkbuf[x]
  BY <1>1 DEF PoolInv, TypeOK
<1>5. /\ cluster' \in [Clusters -> ClusterRecords \cup {NULL}]
      /\ cluster'[c] = r /\ \A d \in Clusters \ {c} : cluster'[d] = cluster[d]
  BY <1>1, <1>3 DEF PoolInv, TypeOK, UsedClusters
<1> HIDE DEF r
<1>6. UsedPkbufs' = UsedPkbufs \cup {q}
  BY <1>1, <1>4, PkbufAssumption, SMTT(30) DEF UsedPkbufs
<1>7. UsedClusters' = UsedClusters
  BY <1>1, <1>3, <1>5 DEF UsedClusters
<1>8. Sharers(c)' = Sharers(c) \cup {q} /\ \A d \in Clusters \ {c} : Sharers(d)' = Sharers(d)
  BY <1>4, <1>6 DEF Sharers, UsedPkbufs
<1>9. Cardinality(Sharers(c)') = cluster[c].ref + 1 /\ cluster[c].ref + 1 <= Total
  <2>1. /\ Sharers(c) \subseteq Pkbufs /\ q \in Pkbufs \ Sharers(c)
        /\ Sharers(c) \cup {q} \subseteq Pkbufs
    BY DEF Sharers, UsedPkbufs
  <2>2. /\ Cardinality(Sharers(c) \cup {q}) = Cardinality(Sharers(c)) + 1
        /\ Cardinality(Sharers(c) \cup {q}) \in 0 .. Total /\ Total \in Nat
    BY <2>1, PkbufSets
  <2>3. QED
    BY <2>2, <1>2, <1>8
<1>10. TypeOK'
  BY <1>1, <1>3, <1>4, <1>5, <1>7, <1>9, ZenonT(30) DEF TypeOK, PoolInv, UsedClusters
<1>11. RefCountsSharers'
  BY <1>1, <1>3, <1>5, <1>7, <1>8, <1>9, ZenonT(30) DEF RefCountsSharers, PoolInv, UsedClusters
<1>12. BuffersApart'
  <2>1. \A d \in UsedClusters : d \in Clusters /\ cluster'[d].buffer = cluster[d].buffer
    BY <1>3, <1>5 DEF UsedClusters
  <2>2. \A d, e \in UsedClusters : cluster[d].buffer = cluster[e].buffer => d = e
    BY DEF PoolInv, BuffersApart
  <2>3. \A d, e \in UsedClusters : cluster'[d].buffer = cluster'[e].buffer => d = e
    BY <2>1, <2>2
  <2>4. QED
    BY <1>7, <2>3 DEF BuffersApart
<1>13. \A x \in UsedPkbufs : Keeps(x)
  <2>1. \A d \in Clusters : cluster'[d].class = cluster[d].class
    BY <1>3, <1>5
  <2>2. \A x \in UsedPkbufs : pkbuf[x].cluster \in Clusters
    BY RecordsInUse DEF PoolInv, UsedClusters
  <2>3. QED
    BY <2>1, <2>2, <1>4 DEF Keeps, UsedPkbufs
<1>14. QED
  BY <1>4, <1>6, <1>10, <1>11, <1>12, <1>13 DEF PoolInv

\* The operations on a window leave the pools alone.
LEMMA WindowStep ==
  ASSUME PoolInv, NEW p \in UsedPkbufs, NEW data \in Int, NEW tail \in Int, NEW len \in Int,
         Window(p, data, tail, len), abort' \in {abort, "put", "push"}
  PROVE  /\ PoolInv'
         /\ UsedPkbufs' = UsedPkbufs
         /\ pkbuf'[p].cluster = pkbuf[p].cluster /\ pkbuf'[p].end = pkbuf[p].end
         /\ pkbuf'[p].data = data /\ pkbuf'[p].tail = tail /\ pkbuf'[p].len = len
         /\ \A x \in UsedPkbufs \ {p} : Keeps(x)
         /\ UNCHANGED cluster
<1> DEFINE w == [pkbuf[p] EXCEPT !.data = data, !.tail = tail, !.len = len]
<1>1. pkbuf[p] \in PkbufRecords
  BY RecordsInUse DEF PoolInv
<1>2. /\ w \in PkbufRecords /\ w # NULL
      /\ w.cluster = pkbuf[p].cluster /\ w.end = pkbuf[p].end
      /\ w.data = data /\ w.tail = tail /\ w.len = len
  BY <1>1, PkbufAssumption DEF PkbufRecords
<1>3. /\ pkbuf' \in [Pkbufs -> PkbufRecords \cup {NULL}]
      /\ pkbuf'[p] = w /\ \A x \in Pkbufs \ {p} : pkbuf'[x] = pkbuf[x]
  <2>1. pkbuf' = [pkbuf EXCEPT ![p] = w]
    BY <1>1 DEF Window, PkbufRecords
  <2> HIDE DEF w
  <2>2. QED
    BY <2>1, <1>2 DEF PoolInv, TypeOK, UsedPkbufs
<1> HIDE DEF w
<1>4. UsedPkbufs' = UsedPkbufs /\ UNCHANGED cluster
  BY <1>2, <1>3, ZenonT(30) DEF UsedPkbufs, Window
<1>5. UsedClusters' = UsedClusters /\ \A c : Sharers(c)' = Sharers(c)
  BY <1>2, <1>3, <1>4 DEF UsedClusters, Sharers, UsedPkbufs
<1>6. PoolInv'
  BY <1>3, <1>4, <1>5 DEF PoolInv, TypeOK, RefCountsSharers, BuffersApart
<1>7. QED
  BY <1>2, <1>3, <1>4, <1>6 DEF Keeps, UsedPkbufs

-----------------------------------------------------------------------------
(* Owners and windows: what each call of the program keeps                 *)

\* A packet buffer is being moved if it is either end of a move.
LEMMA MovingIs ==
  \A x : x \in MovingPkbufs <=> \E m \in moving : x \in {m[1], m[2]}
BY DEF MovingPkbufs

\* A pkbuf whose window and class stay what they are stays inside.
LEMMA KeepsInside ==
  ASSUME NEW x, Keeps(x)
  PROVE  InsideBuffer(x)' = InsideBuffer(x) /\ WindowInsideRoom(x)' = WindowInsideRoom(x)
BY DEF Keeps, InsideBuffer, WindowInsideRoom, Capacity

\* The windows, when only p changes its own and no new pkbuf has its cluster.
LEMMA OthersKeep ==
  ASSUME MemoryInv, NEW P, \A x \in UsedPkbufs' \ P : x \in UsedPkbufs /\ Keeps(x)
  PROVE  /\ \A x \in ((block \cup MovingPkbufs) \cap UsedPkbufs') \ P : InsideBuffer(x)'
         /\ Running => \A x \in (packet \cap UsedPkbufs') \ P : WindowInsideRoom(x)'
BY KeepsInside DEF MemoryInv, BlocksInside, PacketInside

\* An assertion fails in alloc or copy: nothing else changes.
LEMMA AbortKeepsInv ==
  ASSUME MemoryInv, UNCHANGED memory,
         \/ \E size \in Nat : AllocFails(size)
         \/ Pkbufs = UsedPkbufs /\ Abort("pkbuf")
  PROVE  MemoryInv'
<1>1. /\ UNCHANGED <<pkbuf, cluster>>
      /\ abort' \in {"cluster", "size", "buffer", "pkbuf"}
      /\ abort' = "cluster" => Clusters = UsedClusters
      /\ abort' = "pkbuf" => Pkbufs = UsedPkbufs
  BY DEF AllocFails, Abort
<1>2. /\ UsedPkbufs' = UsedPkbufs /\ UsedClusters' = UsedClusters
      /\ MovingPkbufs' = MovingPkbufs /\ \A c : Sharers(c)' = Sharers(c)
  BY <1>1 DEF memory, UsedPkbufs, UsedClusters, MovingPkbufs, Sharers
<1>3. TypeOK' /\ RefCountsSharers' /\ BuffersApart'
  BY <1>1, <1>2 DEF MemoryInv, TypeOK, RefCountsSharers, BuffersApart
<1>4. OwnersApart' /\ BlocksAlone' /\ BlocksInside'
  BY <1>1, <1>2
  DEF MemoryInv, OwnersApart, BlocksAlone, BlocksInside, InsideBuffer, Capacity, memory
<1>5. PacketInside' /\ AbortTellsPool'
  BY <1>1, <1>2 DEF PacketInside, Running, AbortTellsPool
<1>6. QED
  BY <1>3, <1>4, <1>5 DEF MemoryInv

\* The window ogs_malloc gives out: the asked-for size behind the header.
LEMMA NewBlockIs ==
  ASSUME NEW c \in Clusters, NEW n \in Nat
  PROVE  /\ NewBlock(c, n) \in PkbufRecords /\ NewBlock(c, n).cluster = c
         /\ NewBlock(c, n).data = Header /\ NewBlock(c, n).tail = Header + n
         /\ NewBlock(c, n).len = n
<1>1. Header \in Int /\ n \in Int /\ Header + n \in Int /\ Header + n \in Nat
  BY MemoryAssumption
<1> DEFINE new == NewPkbuf(c, Header + n)
<1>2. new \in PkbufRecords /\ new.cluster = c
  BY <1>1 DEF NewPkbuf, PkbufRecords
<1> HIDE DEF new
<1>3. NewBlock(c, n) = [new EXCEPT !.data = Header, !.tail = Header + n, !.len = n]
  BY DEF NewBlock, new
<1>4. QED
  BY <1>1, <1>2, <1>3 DEF PkbufRecords

\* A block is taken: it is alone in its cluster and inside its buffer.
LEMMA TakeBlockStep ==
  ASSUME MemoryInv, NEW p \in Pkbufs \ UsedPkbufs, NEW n \in Requests, TakeBlock(p, n)
  PROVE  /\ PoolInv' /\ UNCHANGED abort
         /\ UsedPkbufs' = UsedPkbufs \cup {p}
         /\ \A x \in UsedPkbufs : Keeps(x) /\ pkbuf[x].cluster # pkbuf'[p].cluster
         /\ InsideBuffer(p)'
<1> DEFINE k == ClassFor(Header + n)
<1>. PICK c \in Clusters \ UsedClusters, b \in FreeBuffers(k) : Take(p, c, b, NewBlock(c, n))
  BY DEF TakeBlock
<1> DEFINE w == NewBlock(c, n)
<1>1. Header \in Nat /\ n \in Nat
  BY MemoryAssumption
<1>2. k \in Classes /\ Header + n <= SizeOf[k]
  BY <1>1, ClassForFits DEF TakeBlock
<1>3. /\ w \in PkbufRecords /\ w.cluster = c
      /\ w.data = Header /\ w.tail = Header + n /\ w.len = n
  BY <1>1, NewBlockIs
<1> HIDE DEF k, w
<1>4. Take(p, c, b, w)
  BY DEF w
<1>5. /\ PoolInv' /\ UsedPkbufs' = UsedPkbufs \cup {p}
      /\ pkbuf'[p] = w /\ cluster'[c].class = k
      /\ \A x \in UsedPkbufs : Keeps(x)
  BY <1>2, <1>3, <1>4, TakeStep DEF MemoryInv, PoolInv
<1>6. \A x \in UsedPkbufs : pkbuf[x].cluster # c
  BY RecordsInUse DEF MemoryInv
<1>7. InsideBuffer(p)'
  BY <1>1, <1>2, <1>3, <1>5 DEF InsideBuffer, Capacity
<1>8. QED
  BY <1>3, <1>4, <1>5, <1>6, <1>7 DEF Take

\* The owners, when a block is taken.
LEMMA BlockTakenKeepsInv ==
  ASSUME MemoryInv, Running, NEW p \in Pkbufs \ UsedPkbufs, NEW n \in Requests,
         TakeBlock(p, n), UNCHANGED packet,
         (block \cup MovingPkbufs)' = (block \cup MovingPkbufs) \cup {p},
         UsedPkbufs' = UsedPkbufs \cup {p} => OwnersApart'
  PROVE  MemoryInv'
<1>1. /\ PoolInv' /\ UNCHANGED abort /\ UsedPkbufs' = UsedPkbufs \cup {p}
      /\ \A x \in UsedPkbufs : Keeps(x) /\ pkbuf[x].cluster # pkbuf'[p].cluster
      /\ InsideBuffer(p)'
  BY TakeBlockStep
<1>2. block \cup MovingPkbufs \subseteq UsedPkbufs /\ packet \subseteq UsedPkbufs
  BY DEF MemoryInv, OwnersApart
<1>3. BlocksAlone'
  BY <1>1, <1>2 DEF MemoryInv, BlocksAlone, Keeps
<1>4. BlocksInside' /\ PacketInside'
  <2>1. /\ \A x \in ((block \cup MovingPkbufs) \cap UsedPkbufs') \ {p} : InsideBuffer(x)'
        /\ \A x \in (packet \cap UsedPkbufs') \ {p} : WindowInsideRoom(x)'
    BY <1>1, OthersKeep
  <2>2. QED
    BY <1>1, <1>2, <2>1 DEF BlocksInside, PacketInside
<1>5. AbortTellsPool'
  BY <1>1 DEF AbortTellsPool, Running
<1>6. QED
  BY <1>1, <1>3, <1>4, <1>5 DEF MemoryInv, PoolInv

\* The owners, when a pkbuf is released.
LEMMA ReleaseKeepsInv ==
  ASSUME MemoryInv, Running, NEW p \in UsedPkbufs, Free(p), packet' = packet \ {p},
         (block \cup MovingPkbufs)' = (block \cup MovingPkbufs) \ {p},
         UsedPkbufs' = UsedPkbufs \ {p} => OwnersApart'
  PROVE  MemoryInv'
<1>1. /\ PoolInv' /\ UsedPkbufs' = UsedPkbufs \ {p}
      /\ \A x \in UsedPkbufs \ {p} : Keeps(x)
  BY FreeStep DEF MemoryInv, PoolInv
<1>2. UNCHANGED abort
  BY DEF Free
<1>3. block \cup MovingPkbufs \subseteq UsedPkbufs /\ packet \subseteq UsedPkbufs
  BY DEF MemoryInv, OwnersApart
<1>4. BlocksAlone'
  BY <1>1, <1>3 DEF MemoryInv, BlocksAlone, Keeps
<1>5. BlocksInside' /\ PacketInside'
  <2>1. /\ \A x \in ((block \cup MovingPkbufs) \cap UsedPkbufs') \ {p} : InsideBuffer(x)'
        /\ \A x \in (packet \cap UsedPkbufs') \ {p} : WindowInsideRoom(x)'
    BY <1>1, OthersKeep
  <2>2. QED
    BY <1>1, <1>3, <2>1 DEF BlocksInside, PacketInside
<1>6. AbortTellsPool'
  BY <1>2 DEF AbortTellsPool, Running
<1>7. QED
  BY <1>1, <1>4, <1>5, <1>6 DEF MemoryInv, PoolInv

\* ogs_malloc.
LEMMA MallocKeepsInv ==
  ASSUME MemoryInv, Running, NEW n \in Requests, Malloc(n)
  PROVE  MemoryInv'
<1>1. CASE AllocFails(Header + n) /\ UNCHANGED memory
  <2>1. Header + n \in Nat
    BY MemoryAssumption
  <2>2. QED
    BY <1>1, <2>1, AbortKeepsInv
<1>2. ASSUME NEW p \in Pkbufs \ UsedPkbufs, TakeBlock(p, n),
             block' = block \cup {p}, UNCHANGED <<packet, moving>>
      PROVE  MemoryInv'
  <2>1. MovingPkbufs' = MovingPkbufs
    BY <1>2 DEF MovingPkbufs
  <2>2. UsedPkbufs' = UsedPkbufs \cup {p} => OwnersApart'
    BY <1>2, <2>1 DEF MemoryInv, OwnersApart
  <2>3. QED
    BY <1>2, <2>1, <2>2, BlockTakenKeepsInv
<1>3. QED
  BY <1>1, <1>2 DEF Malloc

\* ogs_free.
LEMMA FreeBlockKeepsInv ==
  ASSUME MemoryInv, Running, NEW p \in block, FreeBlock(p)
  PROVE  MemoryInv'
<1>1. p \in UsedPkbufs /\ p \notin packet /\ p \notin MovingPkbufs
  BY DEF MemoryInv, OwnersApart
<1>2. Free(p) /\ block' = block \ {p} /\ UNCHANGED <<packet, moving>> /\ MovingPkbufs' = MovingPkbufs
  BY DEF FreeBlock, MovingPkbufs
<1>3. UsedPkbufs' = UsedPkbufs \ {p} => OwnersApart'
  BY <1>1, <1>2 DEF MemoryInv, OwnersApart
<1>4. QED
  BY <1>1, <1>2, <1>3, ReleaseKeepsInv

\* The first section of a realloc that moves: the new pkbuf is taken, and the
\* old one is the realloc's until the second section.
LEMMA ReallocMoveKeepsInv ==
  ASSUME MemoryInv, Running, NEW p \in block, NEW n \in Requests, ReallocMove(p, n)
  PROVE  MemoryInv'
<1>1. CASE AllocFails(Header + n) /\ UNCHANGED memory
  <2>1. Header + n \in Nat
    BY MemoryAssumption
  <2>2. QED
    BY <1>1, <2>1, AbortKeepsInv
<1>2. ASSUME NEW q \in Pkbufs \ UsedPkbufs, TakeBlock(q, n), moving' = moving \cup {<<p, q>>},
             block' = block \ {p}, UNCHANGED packet
      PROVE  MemoryInv'
  <2>1. p \in UsedPkbufs /\ p \notin packet /\ p \notin MovingPkbufs /\ p # q
    BY DEF MemoryInv, OwnersApart
  <2>2. q \notin packet /\ q \notin MovingPkbufs /\ q \notin block
    BY DEF MemoryInv, OwnersApart
  <2>3. MovingPkbufs' = MovingPkbufs \cup {p, q}
    <3>1. \A x : x \in MovingPkbufs' <=> \E m \in moving' : x \in {m[1], m[2]}
      BY DEF MovingPkbufs
    <3>2. \A x : x \in {p, q} <=> x \in {<<p, q>>[1], <<p, q>>[2]}
      OBVIOUS
    <3>3. \A x : x \in MovingPkbufs' <=> x \in MovingPkbufs \/ x \in {p, q}
      BY <1>2, <3>1, <3>2, MovingIs
    <3>4. QED
      BY <3>3
  <2>4. \A m \in moving : p \notin {m[1], m[2]} /\ q \notin {m[1], m[2]}
    BY <2>1, <2>2, MovingIs
  <2>5. UsedPkbufs' = UsedPkbufs \cup {q} => OwnersApart'
    BY <1>2, <2>1, <2>2, <2>3, <2>4 DEF MemoryInv, OwnersApart, UsedPkbufs
  <2>6. QED
    BY <1>2, <2>1, <2>3, <2>5, BlockTakenKeepsInv
<1>3. QED
  BY <1>1, <1>2 DEF ReallocMove

\* The second section: the old pkbuf goes back, the new one is the block.
LEMMA ReallocReleaseKeepsInv ==
  ASSUME MemoryInv, Running, NEW m \in moving, ReallocRelease(m[1], m[2])
  PROVE  MemoryInv'
<1>. PICK p \in Pkbufs, q \in Pkbufs : m = <<p, q>>
  BY DEF MemoryInv, OwnersApart
<1>1. /\ p \in UsedPkbufs /\ p # q
      /\ p \in MovingPkbufs /\ q \in MovingPkbufs
      /\ p \notin packet /\ p \notin block /\ q \notin packet /\ q \notin block
  BY MovingIs DEF MemoryInv, OwnersApart
<1>2. Free(p) /\ moving' = moving \ {m} /\ block' = block \cup {q} /\ UNCHANGED packet
  BY DEF ReallocRelease
<1>3. \A l \in moving \ {m} : p \notin {l[1], l[2]} /\ q \notin {l[1], l[2]}
  BY DEF MemoryInv, OwnersApart
<1>4. MovingPkbufs' = MovingPkbufs \ {p, q}
  BY <1>2, <1>3 DEF MovingPkbufs
<1>5. UsedPkbufs' = UsedPkbufs \ {p} => OwnersApart'
  BY <1>1, <1>2, <1>4 DEF MemoryInv, OwnersApart
<1>6. QED
  BY <1>1, <1>2, <1>4, <1>5, ReleaseKeepsInv

\* ogs_pkbuf_alloc of a packet.
LEMMA AllocKeepsInv ==
  ASSUME MemoryInv, Running, NEW size \in Sizes, Alloc(size), NewPackets, UNCHANGED <<block, moving>>
  PROVE  MemoryInv'
<1>. size \in Nat
  BY PkbufAssumption
<1>1. CASE AllocFails(size)
  <2>1. UNCHANGED pkbuf
    BY <1>1 DEF AllocFails, Abort
  <2>2. UNCHANGED packet
    BY <2>1 DEF NewPackets, UsedPkbufs
  <2>3. QED
    BY <1>1, <2>2, AbortKeepsInv DEF memory
<1>2. ASSUME Fitting(size) # {},
             NEW p \in Pkbufs \ UsedPkbufs, NEW c \in Clusters \ UsedClusters,
             NEW b \in FreeBuffers(ClassFor(size)), Take(p, c, b, NewPkbuf(c, size))
      PROVE  MemoryInv'
  <2> DEFINE w == NewPkbuf(c, size)
             k == ClassFor(size)
  <2>1. k \in Classes /\ size <= SizeOf[k]
    BY <1>2, ClassForFits
  <2>2. /\ w \in PkbufRecords /\ w.cluster = c
        /\ w.data = 0 /\ w.tail = 0 /\ w.end = size /\ w.len = 0
    BY DEF NewPkbuf, PkbufRecords
  <2> HIDE DEF w, k
  <2>3. Take(p, c, b, w) /\ b \in FreeBuffers(k)
    BY <1>2 DEF w, k
  <2>4. /\ PoolInv' /\ UsedPkbufs' = UsedPkbufs \cup {p}
        /\ pkbuf'[p] = w /\ cluster'[c].class = k
        /\ \A x \in UsedPkbufs : Keeps(x)
    BY <2>1, <2>2, <2>3, TakeStep DEF MemoryInv, PoolInv
  <2>5. packet' = packet \cup {p} /\ UNCHANGED <<block, moving, abort>> /\ MovingPkbufs' = MovingPkbufs
    BY <2>3, <2>4 DEF NewPackets, MovingPkbufs, Take
  <2>6. block \cup MovingPkbufs \subseteq UsedPkbufs /\ packet \subseteq UsedPkbufs
    BY DEF MemoryInv, OwnersApart
  <2>7. OwnersApart'
    BY <2>4, <2>5 DEF MemoryInv, OwnersApart
  <2>8. BlocksAlone'
    <3>1. \A x \in UsedPkbufs : pkbuf[x].cluster # c
      BY RecordsInUse DEF MemoryInv
    <3>2. QED
      BY <2>2, <2>4, <2>5, <2>6, <3>1 DEF MemoryInv, BlocksAlone, Keeps
  <2>9. BlocksInside' /\ PacketInside'
    <3>1. /\ \A x \in ((block \cup MovingPkbufs) \cap UsedPkbufs') \ {p} : InsideBuffer(x)'
          /\ \A x \in (packet \cap UsedPkbufs') \ {p} : WindowInsideRoom(x)'
      BY <2>4, OthersKeep
    <3>2. WindowInsideRoom(p)'
      BY <2>1, <2>2, <2>4 DEF WindowInsideRoom
    <3>3. QED
      BY <2>4, <2>5, <2>6, <3>1, <3>2 DEF BlocksInside, PacketInside
  <2>10. AbortTellsPool'
    BY <2>5 DEF AbortTellsPool, Running
  <2>11. QED
    BY <2>4, <2>7, <2>8, <2>9, <2>10 DEF MemoryInv, PoolInv
<1>3. QED
  BY <1>1, <1>2 DEF Alloc

\* ogs_pkbuf_copy: blocks have no copies.
LEMMA CopyKeepsInv ==
  ASSUME MemoryInv, Running, NEW p \in packet, Copy(p), NewPackets, UNCHANGED <<block, moving>>
  PROVE  MemoryInv'
<1>1. CASE Pkbufs = UsedPkbufs /\ Abort("pkbuf")
  <2>1. UNCHANGED packet
    BY <1>1 DEF NewPackets, UsedPkbufs, Abort
  <2>2. QED
    BY <1>1, <2>1, AbortKeepsInv DEF memory
<1>2. ASSUME NEW q \in Pkbufs \ UsedPkbufs,
             pkbuf' = [pkbuf EXCEPT ![q] = pkbuf[p]],
             cluster' = [cluster EXCEPT ![pkbuf[p].cluster].ref = @ + 1],
             UNCHANGED abort
      PROVE  MemoryInv'
  <2>1. block \cup MovingPkbufs \subseteq UsedPkbufs /\ packet \subseteq UsedPkbufs
    BY DEF MemoryInv, OwnersApart
  <2>2. /\ PoolInv' /\ UsedPkbufs' = UsedPkbufs \cup {q}
        /\ pkbuf'[q] = pkbuf[p] /\ \A x \in UsedPkbufs : Keeps(x)
    BY <1>2, <2>1, CopyStep DEF MemoryInv, PoolInv
  <2>3. packet' = packet \cup {q} /\ UNCHANGED <<block, moving, abort>> /\ MovingPkbufs' = MovingPkbufs
    BY <1>2, <2>2 DEF NewPackets, MovingPkbufs
  <2>4. OwnersApart'
    BY <2>2, <2>3 DEF MemoryInv, OwnersApart
  <2>5. BlocksAlone'
    <3>1. p \notin block \cup MovingPkbufs
      BY DEF MemoryInv, OwnersApart
    <3>2. QED
      BY <2>1, <2>2, <2>3, <3>1 DEF MemoryInv, BlocksAlone, Keeps
  <2>6. BlocksInside' /\ PacketInside'
    <3>1. /\ \A x \in ((block \cup MovingPkbufs) \cap UsedPkbufs') \ {q} : InsideBuffer(x)'
          /\ \A x \in (packet \cap UsedPkbufs') \ {q} : WindowInsideRoom(x)'
      BY <2>2, OthersKeep
    <3>2. WindowInsideRoom(q)'
      BY <2>1, <2>2 DEF WindowInsideRoom, Keeps, MemoryInv, PacketInside
    <3>3. QED
      BY <2>1, <2>2, <2>3, <3>1, <3>2 DEF BlocksInside, PacketInside
  <2>7. AbortTellsPool'
    BY <2>3 DEF AbortTellsPool, Running
  <2>8. QED
    BY <2>2, <2>4, <2>5, <2>6, <2>7 DEF MemoryInv, PoolInv
<1>3. QED
  BY <1>1, <1>2 DEF Copy

\* ogs_pkbuf_free.
LEMMA FreePacketKeepsInv ==
  ASSUME MemoryInv, Running, NEW p \in packet, Free(p), packet' = packet \ {p},
         UNCHANGED <<block, moving>>
  PROVE  MemoryInv'
<1>1. p \in UsedPkbufs /\ p \notin block /\ p \notin MovingPkbufs
  BY DEF MemoryInv, OwnersApart
<1>2. MovingPkbufs' = MovingPkbufs
  BY DEF MovingPkbufs
<1>3. UsedPkbufs' = UsedPkbufs \ {p} => OwnersApart'
  BY <1>1, <1>2 DEF MemoryInv, OwnersApart
<1>4. QED
  BY <1>1, <1>2, <1>3, ReleaseKeepsInv

\* A window operation, on a packet or on a block.
LEMMA WindowKeepsInv ==
  ASSUME MemoryInv, Running, NEW p \in UsedPkbufs,
         NEW data \in Int, NEW tail \in Int, NEW len \in Int,
         Window(p, data, tail, len), abort' \in {abort, "put", "push"}, UNCHANGED memory,
         p \in block \cup MovingPkbufs =>
           data = Header /\ len = tail - data /\ tail <= Capacity(p),
         p \in packet /\ UNCHANGED abort =>
           0 <= data /\ data <= tail /\ tail <= pkbuf[p].end /\ len = tail - data
  PROVE  MemoryInv'
<1>1. PoolInv
  BY DEF MemoryInv, PoolInv
<1>2. MovingPkbufs' = MovingPkbufs /\ UNCHANGED <<block, packet, moving>>
  BY DEF MovingPkbufs, memory
<1>3. /\ PoolInv' /\ UsedPkbufs' = UsedPkbufs
      /\ pkbuf'[p].cluster = pkbuf[p].cluster /\ pkbuf'[p].end = pkbuf[p].end
      /\ pkbuf'[p].data = data /\ pkbuf'[p].tail = tail /\ pkbuf'[p].len = len
      /\ \A x \in UsedPkbufs \ {p} : Keeps(x)
      /\ UNCHANGED cluster
  BY <1>1, WindowStep
<1>4. block \cup MovingPkbufs \subseteq UsedPkbufs /\ packet \subseteq UsedPkbufs
  BY DEF MemoryInv, OwnersApart
<1>5. OwnersApart'
  BY <1>2, <1>3 DEF MemoryInv, OwnersApart
<1>6. BlocksAlone'
  <2>1. \A x \in UsedPkbufs : pkbuf'[x].cluster = pkbuf[x].cluster
    BY <1>3 DEF Keeps
  <2>2. QED
    BY <1>2, <1>3, <1>4, <2>1 DEF MemoryInv, BlocksAlone
<1>7. /\ \A x \in ((block \cup MovingPkbufs) \cap UsedPkbufs') \ {p} : InsideBuffer(x)'
      /\ \A x \in (packet \cap UsedPkbufs') \ {p} : WindowInsideRoom(x)'
  BY <1>3, OthersKeep
<1>8. BlocksInside'
  <2>1. p \in block \cup MovingPkbufs => InsideBuffer(p)'
    BY <1>3 DEF InsideBuffer, Capacity
  <2>2. QED
    BY <1>2, <1>3, <1>4, <1>7, <2>1 DEF BlocksInside
<1>9. PacketInside'
  <2>1. ASSUME p \in packet, Running' PROVE WindowInsideRoom(p)'
    BY <2>1, <1>3 DEF WindowInsideRoom, Running, MemoryInv, PacketInside
  <2>2. QED
    BY <1>2, <1>3, <1>4, <1>7, <2>1 DEF PacketInside
<1>10. AbortTellsPool'
  BY DEF AbortTellsPool, Running
<1>11. QED
  BY <1>3, <1>5, <1>6, <1>8, <1>9, <1>10 DEF MemoryInv, PoolInv

\* reserve, put, push, pull and trim; an assertion of put or push ends it.
LEMMA PacketWindowKeepsInv ==
  ASSUME MemoryInv, Running, NEW p \in packet, NEW n \in Lengths,
         Reserve(p, n) \/ Put(p, n) \/ Push(p, n) \/ Pull(p, n) \/ Trim(p, n),
         UNCHANGED memory
  PROVE  MemoryInv'
<1>1. p \in UsedPkbufs /\ p \notin block \cup MovingPkbufs
  BY DEF MemoryInv, OwnersApart
<1>2. WindowInsideRoom(p) /\ n \in Nat /\ p \in UsedPkbufs
  BY <1>1, PkbufAssumption DEF MemoryInv, PacketInside
<1> DEFINE from == pkbuf[p].data
           upto == pkbuf[p].tail
           size == pkbuf[p].len
           to == pkbuf[p].end
<1>3. /\ from \in Int /\ upto \in Int /\ size \in Int /\ to \in Nat /\ n \in Nat
      /\ 0 <= from /\ from <= upto /\ upto <= to /\ size = upto - from
  <2>1. from \in Int /\ upto \in Int /\ size \in Int /\ to \in Nat
    BY <1>1, RecordsInUse DEF MemoryInv, PkbufRecords
  <2>2. QED
    BY <1>2, <2>1 DEF WindowInsideRoom
<1>4. CASE Reserve(p, n)
  <2> DEFINE data == from + n
             tail == upto + n
             len == size
  <2>1. /\ Window(p, data, tail, len) /\ abort' \in {abort, "put", "push"}
        /\ tail <= to
    BY <1>4 DEF Reserve
  <2>2. /\ data \in Int /\ tail \in Int /\ len \in Int
        /\ UNCHANGED abort => 0 <= data /\ data <= tail /\ tail <= to /\ len = tail - data
    BY <1>3, <2>1
  <2> HIDE DEF data, tail, len
  <2>3. QED
    BY <1>1, <2>1, <2>2, WindowKeepsInv
<1>5. CASE Put(p, n)
  <2> DEFINE data == from
             tail == upto + n
             len == size + n
  <2>1. /\ Window(p, data, tail, len) /\ abort' \in {abort, "put", "push"}
        /\ UNCHANGED abort => tail <= to
    BY <1>3, <1>5 DEF Put, Running
  <2>2. /\ data \in Int /\ tail \in Int /\ len \in Int
        /\ UNCHANGED abort => 0 <= data /\ data <= tail /\ tail <= to /\ len = tail - data
    BY <1>3, <2>1
  <2> HIDE DEF data, tail, len
  <2>3. QED
    BY <1>1, <2>1, <2>2, WindowKeepsInv
<1>6. CASE Push(p, n)
  <2> DEFINE data == from - n
             tail == upto
             len == size + n
  <2>1. /\ Window(p, data, tail, len) /\ abort' \in {abort, "put", "push"}
        /\ UNCHANGED abort => 0 <= data
    BY <1>3, <1>6 DEF Push, Running
  <2>2. /\ data \in Int /\ tail \in Int /\ len \in Int
        /\ UNCHANGED abort => 0 <= data /\ data <= tail /\ tail <= to /\ len = tail - data
    BY <1>3, <2>1
  <2> HIDE DEF data, tail, len
  <2>3. QED
    BY <1>1, <2>1, <2>2, WindowKeepsInv
<1>7. CASE Pull(p, n)
  <2> DEFINE data == from + n
             tail == upto
             len == size - n
  <2>1. /\ Window(p, data, tail, len) /\ abort' \in {abort, "put", "push"}
        /\ n <= size
    BY <1>7 DEF Pull
  <2>2. /\ data \in Int /\ tail \in Int /\ len \in Int
        /\ UNCHANGED abort => 0 <= data /\ data <= tail /\ tail <= to /\ len = tail - data
    BY <1>3, <2>1
  <2> HIDE DEF data, tail, len
  <2>3. QED
    BY <1>1, <2>1, <2>2, WindowKeepsInv
<1>8. CASE Trim(p, n)
  <2> DEFINE data == from
             tail == from + n
             len == n
  <2>1. /\ Window(p, data, tail, len) /\ abort' \in {abort, "put", "push"}
        /\ size > n
    BY <1>8 DEF Trim
  <2>2. /\ data \in Int /\ tail \in Int /\ len \in Int
        /\ UNCHANGED abort => 0 <= data /\ data <= tail /\ tail <= to /\ len = tail - data
    BY <1>3, <2>1
  <2> HIDE DEF data, tail, len
  <2>3. QED
    BY <1>1, <2>1, <2>2, WindowKeepsInv
<1>9. QED
  BY <1>4, <1>5, <1>6, <1>7, <1>8

\* A realloc for which the buffer is large enough.
LEMMA ReallocInPlaceKeepsInv ==
  ASSUME MemoryInv, Running, NEW p \in block, NEW n \in Requests, ReallocInPlace(p, n)
  PROVE  MemoryInv'
<1>1. p \in UsedPkbufs /\ p \notin packet /\ InsideBuffer(p)
  BY DEF MemoryInv, OwnersApart, BlocksInside
<1>2. /\ n \in Int /\ Header \in Int /\ pkbuf[p].data = Header
      /\ pkbuf[p].data \in Int /\ pkbuf[p].data + n \in Int
  BY <1>1, MemoryAssumption DEF InsideBuffer
<1>3. Capacity(p) \in Int
  <2>1. cluster[pkbuf[p].cluster] \in ClusterRecords
    BY <1>1, RecordsInUse DEF MemoryInv
  <2>2. cluster[pkbuf[p].cluster].class \in Classes
    BY <2>1 DEF ClusterRecords
  <2>3. SizeOf[cluster[pkbuf[p].cluster].class] \in Nat
    BY <2>2, PkbufAssumption
  <2>4. QED
    BY <2>3 DEF Capacity
<1>4. /\ Window(p, pkbuf[p].data, pkbuf[p].data + n, n)
      /\ UNCHANGED <<abort, memory>>
      /\ n <= Capacity(p) - Header
  BY <1>2, <1>3 DEF ReallocInPlace, MustMove
<1>5. pkbuf[p].data + n <= Capacity(p) /\ n = (pkbuf[p].data + n) - pkbuf[p].data
  BY <1>2, <1>3, <1>4
<1>6. QED
  BY <1>1, <1>2, <1>4, <1>5, WindowKeepsInv

-----------------------------------------------------------------------------
(* The theorems                                                            *)

\* The pools start with everything free.
LEMMA MemoryInvInit == MemoryInit => MemoryInv
<1> SUFFICES ASSUME MemoryInit PROVE MemoryInv
  OBVIOUS
<1>1. UsedPkbufs = {} /\ UsedClusters = {} /\ MovingPkbufs = {} /\ \A c : Sharers(c) = {}
  BY DEF MemoryInit, Init, UsedPkbufs, UsedClusters, MovingPkbufs, Sharers
<1>2. TypeOK
  BY <1>1 DEF MemoryInit, Init, TypeOK
<1>3. RefCountsSharers /\ BuffersApart
  BY <1>1 DEF RefCountsSharers, BuffersApart
<1>4. OwnersApart /\ BlocksAlone /\ BlocksInside
  BY <1>1 DEF MemoryInit, OwnersApart, BlocksAlone, BlocksInside
<1>5. PacketInside /\ AbortTellsPool
  BY DEF MemoryInit, Init, PacketInside, AbortTellsPool
<1>6. QED
  BY <1>2, <1>3, <1>4, <1>5 DEF MemoryInv

\* Every call on packet buffers keeps the invariant.
LEMMA PacketNextKeepsInv == MemoryInv /\ Running /\ PacketNext => MemoryInv'
BY AllocKeepsInv, CopyKeepsInv, FreePacketKeepsInv, PacketWindowKeepsInv DEF PacketNext, memory

\* Every call of ogs-pkbuf.c and ogs-memory.c keeps the invariant.
LEMMA MemoryInvStep == MemoryInv /\ [MemoryNext]_<<vars, memory>> => MemoryInv'
<1> SUFFICES ASSUME MemoryInv, [MemoryNext]_<<vars, memory>> PROVE MemoryInv'
  OBVIOUS
<1>1. ASSUME Running, PacketNext PROVE MemoryInv'
  BY <1>1, PacketNextKeepsInv
<1>2. ASSUME Running, NEW n \in Requests, Malloc(n) PROVE MemoryInv'
  BY <1>2, MallocKeepsInv
<1>3. ASSUME Running, NEW p \in block, FreeBlock(p) PROVE MemoryInv'
  BY <1>3, FreeBlockKeepsInv
<1>4. ASSUME Running, NEW p \in block, NEW n \in Requests, ReallocInPlace(p, n) PROVE MemoryInv'
  BY <1>4, ReallocInPlaceKeepsInv
<1>5. ASSUME Running, NEW p \in block, NEW n \in Requests, ReallocMove(p, n) PROVE MemoryInv'
  BY <1>5, ReallocMoveKeepsInv
<1>6. ASSUME Running, NEW m \in moving, ReallocRelease(m[1], m[2]) PROVE MemoryInv'
  BY <1>6, ReallocReleaseKeepsInv
<1>7. CASE UNCHANGED <<vars, memory>>
  <2>1. /\ UNCHANGED <<pkbuf, cluster, abort, block, packet, moving>>
        /\ UsedPkbufs' = UsedPkbufs /\ UsedClusters' = UsedClusters
        /\ MovingPkbufs' = MovingPkbufs /\ \A c : Sharers(c)' = Sharers(c)
    BY <1>7 DEF vars, memory, UsedPkbufs, UsedClusters, MovingPkbufs, Sharers
  <2>2. TypeOK' /\ RefCountsSharers' /\ BuffersApart'
    BY <2>1 DEF MemoryInv, TypeOK, RefCountsSharers, BuffersApart
  <2>3. OwnersApart' /\ BlocksAlone' /\ BlocksInside'
    BY <2>1 DEF MemoryInv, OwnersApart, BlocksAlone, BlocksInside, InsideBuffer, Capacity
  <2>4. PacketInside' /\ AbortTellsPool'
    BY <2>1 DEF MemoryInv, PacketInside, WindowInsideRoom, Running, AbortTellsPool
  <2>5. QED
    BY <2>2, <2>3, <2>4 DEF MemoryInv
<1>8. QED
  BY <1>1, <1>2, <1>3, <1>4, <1>5, <1>6, <1>7 DEF MemoryNext

\* The invariant holds all the time.
LEMMA MemoryInvAlways == MemorySpec => []MemoryInv
BY MemoryInvInit, MemoryInvStep, PTL DEF MemorySpec

\* For any number and size of classes: every cluster knows how many packets
\* share it, and every pkbuf has one owner.
THEOREM MemoryIsSound == MemorySpec => []MemorySound
<1>1. MemoryInv => MemorySound
  BY DEF MemoryInv, MemorySound, OwnersApart, EveryPkbufHasOneOwner
<1>2. QED
  BY <1>1, MemoryInvAlways, PTL

\* Blocks and packets stay within their own buffers.
THEOREM WindowsStayInside == MemorySpec => []WindowsInside
<1>1. ASSUME MemoryInv, NEW p \in block PROVE Sharers(pkbuf[p].cluster) = {p}
  BY <1>1 DEF MemoryInv, OwnersApart, BlocksAlone, Sharers
<1>2. MemoryInv => WindowsInside
  BY <1>1 DEF MemoryInv, WindowsInside, BlockInsideBuffer, BlocksInside, InsideBuffer
<1>3. QED
  BY <1>2, MemoryInvAlways, PTL

\* When all clusters are in use, no class has a buffer left: there are as many
\* clusters as buffers.
LEMMA UsedClustersEmptyClasses ==
  ASSUME MemoryInv, UsedClusters = Clusters
  PROVE  \A k \in Classes : FreeBuffers(k) = {}
<1> DEFINE f == [c \in Clusters |-> cluster[c].buffer]
<1>1. IsFiniteSet(AllBuffers) /\ Cardinality(Clusters) = Cardinality(AllBuffers)
  <2>1. ASSUME NEW k \in Classes PROVE IsFiniteSet(Buffers(k))
    <3>1. PoolOf[k] \in Int
      BY PkbufAssumption
    <3>2. IsFiniteSet(1 .. PoolOf[k])
      BY <3>1, FS_Interval
    <3>3. IsFiniteSet({k})
      BY FS_Singleton
    <3>4. QED
      BY <3>2, <3>3, FS_Product DEF Buffers
  <2>2. IsFiniteSet(AllBuffers)
    <3> DEFINE B == {Buffers(k) : k \in Classes}
    <3>1. IsFiniteSet(B)
      <4>1. [k \in Classes |-> Buffers(k)] \in Surjection(Classes, B)
        BY DEF Surjection
      <4>2. QED
        BY <4>1, PkbufAssumption, FS_Surjection
    <3>2. QED
      BY <2>1, <3>1, FS_UNION DEF AllBuffers
  <2>3. QED
    BY <2>2, PkbufAssumption DEF Total
<1>2. f \in [Clusters -> AllBuffers] /\ \A c, d \in Clusters : f[c] = f[d] => c = d
  BY RecordsInUse DEF MemoryInv, BuffersApart, ClusterRecords
<1> HIDE DEF f
<1>3. \A b \in AllBuffers : \E c \in Clusters : f[c] = b
  BY <1>1, <1>2, InjectionIsOnto
<1>4. QED
  BY <1>3 DEF f, FreeBuffers, AllBuffers

\* When all packet buffers are in use and none shares its cluster, no cluster
\* is left.
LEMMA UsedPkbufsEmptyClusters ==
  ASSUME MemoryInv, UsedPkbufs = Pkbufs, \A c \in UsedClusters : cluster[c].ref <= 1
  PROVE  UsedClusters = Clusters
<1> DEFINE f == [p \in Pkbufs |-> pkbuf[p].cluster]
<1>1. f \in [Pkbufs -> Clusters] /\ \A p \in Pkbufs : f[p] \in UsedClusters
  BY RecordsInUse DEF MemoryInv, UsedClusters
<1>2. ASSUME NEW p \in Pkbufs, NEW q \in Pkbufs, f[p] = f[q] PROVE p = q
  <2>. PICK c \in UsedClusters : c = f[p]
    BY <1>1
  <2>1. p \in Sharers(c) /\ q \in Sharers(c) /\ Sharers(c) \subseteq Pkbufs
    BY <1>2 DEF Sharers, UsedPkbufs
  <2>2. Cardinality(Sharers(c)) <= 1
    BY RecordsInUse DEF MemoryInv
  <2>3. Cardinality(Sharers(c) \ {p}) = Cardinality(Sharers(c)) - 1
    BY <2>1, PkbufSets
  <2>4. Sharers(c) \ {p} = {}
    <3>1. Sharers(c) \ {p} \subseteq Pkbufs
      BY <2>1
    <3>2. Cardinality(Sharers(c) \ {p}) \in Nat /\ Cardinality(Sharers(c)) \in Nat
      BY <2>1, <3>1, PkbufSets
    <3>3. QED
      BY <2>2, <2>3, <3>1, <3>2, PkbufSets
  <2>5. QED
    BY <2>1, <2>4
<1>3. IsFiniteSet(Clusters) /\ Cardinality(Pkbufs) = Cardinality(Clusters)
  BY PkbufAssumption
<1> HIDE DEF f
<1>4. \A c \in Clusters : \E p \in Pkbufs : f[p] = c
  BY <1>1, <1>2, <1>3, InjectionIsOnto
<1>5. QED
  BY <1>1, <1>4 DEF UsedClusters

\* The pools of pkbufs and clusters, as large as all classes together, are
\* never the first to run out.
THEOREM PoolsLastLongest == MemorySpec => []NoEarlyExhaustion
<1>1. ASSUME MemoryInv PROVE NoEarlyExhaustion
  <2>1. ASSUME abort = "cluster" PROVE \A k \in Classes : FreeBuffers(k) = {}
    BY <1>1, <2>1, UsedClustersEmptyClasses DEF MemoryInv, AbortTellsPool
  <2>2. ASSUME abort = "pkbuf", \A c \in UsedClusters : ~(cluster[c].ref > 1)
        PROVE  UsedClusters = Clusters
    <3>1. \A c \in UsedClusters : cluster[c].ref <= 1
      BY <1>1, <2>2, RecordsInUse DEF MemoryInv
    <3>2. QED
      BY <1>1, <2>2, <3>1, UsedPkbufsEmptyClusters DEF MemoryInv, AbortTellsPool
  <2>3. QED
    BY <2>1, <2>2 DEF NoEarlyExhaustion
<1>2. QED
  BY <1>1, MemoryInvAlways, PTL
=============================================================================
