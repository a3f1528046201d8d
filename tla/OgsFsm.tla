------------------------------- MODULE OgsFsm -------------------------------
(***************************************************************************)
(* src/core/ogs-fsm.c: one state machine, driven by its owner.             *)
(*                                                                         *)
(* A state is a handler.  What the handlers of a program do is up to the   *)
(* program: on any event a handler may ask for a transition (OGS_FSM_TRAN) *)
(* to any state, or not.  Each call of a handler is a step; `at' says      *)
(* which call of ogs_fsm_init, ogs_fsm_dispatch or ogs_fsm_fini comes      *)
(* next, and `seen' what the handler finds in the event, which the         *)
(* functions overwrite (the caller's own event, when there is one).        *)
(***************************************************************************)
EXTENDS Naturals, FiniteSets

CONSTANTS FsmStates,  \* the handlers of the program's states
          Initial,    \* s->init
          Final,      \* s->fini: another handler, or NoHandler
          NoHandler   \* the null pointer

ASSUME FsmAssumption == Initial \notin FsmStates /\ Final \notin FsmStates

VARIABLES state,    \* s->state
          at,       \* where the caller of the machine is
          tmp,      \* the handler that dispatch has called
          seen,     \* the id in the caller's event, "null" without one
          active,   \* history: the states entered and not left
          misused   \* history: a handler asked for a transition on ENTRY

fsmvars == <<state, at, tmp, seen, active, misused>>

FsmInit == /\ state = NoHandler /\ at = "deleted" /\ tmp = NoHandler
           /\ seen = "null" /\ active = {} /\ misused = FALSE

\* What a call of a handler may do to s->state.
MayTran == \/ UNCHANGED state
           \/ \E target \in FsmStates : state' = target

\* The id after the function has overwritten it: an event of its own is used
\* when the caller gave none.
Overwritten(id) == IF seen = "null" THEN "null" ELSE id

-----------------------------------------------------------------------------
FsmCreate == /\ at = "deleted"
             /\ state' = Initial /\ at' = "created"
             /\ UNCHANGED <<tmp, seen, active, misused>>

FsmDelete == /\ at = "created"
             /\ state' = NoHandler /\ at' = "deleted"
             /\ UNCHANGED <<tmp, seen, active, misused>>

\* ogs_fsm_init up to the return of the initial handler.
FsmStart == /\ at = "created"
            /\ seen' \in {"null", "user"}
            /\ MayTran
            /\ at' = IF state' # Initial THEN "first entry" ELSE "ready"
            /\ UNCHANGED <<tmp, active, misused>>

\* The handler of the current state is called with ENTRY.
Enter == /\ at' = "ready"
         /\ seen' = Overwritten("entry")
         /\ active' = active \cup {state}
         /\ MayTran
         /\ misused' = (misused \/ state' # state)
         /\ UNCHANGED tmp

FirstEntry == at = "first entry" /\ Enter

-----------------------------------------------------------------------------
\* ogs_fsm_dispatch: the handler of the current state gets the event.
Dispatch == /\ at = "ready"
            /\ seen' \in {"null", "user"}
            /\ tmp' = state
            /\ MayTran
            /\ at' = IF state' # tmp' THEN "exit" ELSE "ready"
            /\ UNCHANGED <<active, misused>>

\* (seeded fault: the exit event goes to the new state)
LeaveNew == /\ at = "exit"
            /\ seen' = Overwritten("exit")
            /\ active' = active \ {state}
            /\ MayTran
            /\ at' = "entry"
            /\ UNCHANGED <<tmp, misused>>

\* The state that is left gets EXIT; it may ask for another transition.
Leave == /\ at = "exit"
         /\ seen' = Overwritten("exit")
         /\ active' = active \ {tmp}
         /\ MayTran
         /\ at' = "entry"
         /\ UNCHANGED <<tmp, misused>>

\* s->state is read after that.
EntryOfTarget == at = "entry" /\ Enter

-----------------------------------------------------------------------------
\* ogs_fsm_fini: the current state gets EXIT, unless it is the final handler;
\* then the final handler is called, and the machine is as created.
FsmFini == /\ at = "ready"
           /\ seen' \in {"null", "user"}
           /\ at' = IF state # Final THEN "last exit" ELSE "final"
           /\ UNCHANGED <<state, tmp, active, misused>>

LastExit == /\ at = "last exit"
            /\ seen' = Overwritten("exit")
            /\ active' = active \ {state}
            /\ MayTran
            /\ at' = "final"
            /\ UNCHANGED <<tmp, misused>>

Finish == /\ at = "final"
          /\ state' = Initial /\ at' = "created"
          /\ tmp' = NoHandler /\ seen' = "null"
          /\ active' = {} /\ misused' = FALSE

FsmNext == \/ FsmCreate \/ FsmDelete \/ FsmStart \/ FirstEntry
           \/ Dispatch \/ Leave \/ EntryOfTarget
           \/ FsmFini \/ LastExit \/ Finish

-----------------------------------------------------------------------------
(* Properties                                                              *)

\* Between two calls the machine is in one state, which has had its ENTRY
\* and not its EXIT, and every state it was in before has had its EXIT: also
\* when a handler asks for a transition while it is being left.  (A request
\* made on ENTRY is the exception: s->state changes and nothing more.)
OneActiveState ==
  ~misused => /\ at = "ready" => active = {state} \ {Initial}
              /\ at = "entry" => active = {}
              /\ at = "final" => active = {}
=============================================================================
