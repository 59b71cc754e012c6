---------------------------- MODULE DrainedClose ----------------------------
(***************************************************************************)
(* What a closable scope of the runtime SDK promises, with no locks, no    *)
(* notifications and no tasks: operations come and go while the scope is   *)
(* open; once close intent is visible nobody new is let in; resource       *)
(* cleanup starts only when the last admitted operation has left.  The     *)
(* promise is the doc comment of OperationGate in src/runtime/lifecycle.rs.*)
(***************************************************************************)
CONSTANT Ops  \* logical operations

VARIABLES
  phase,   \* "open", "draining", "cleaning" or "closed"
  inside   \* the operations that hold a permit

vars == <<phase, inside>>

Init ==
  /\ phase = "open"
  /\ inside = {}

Admit(o) ==
  /\ phase = "open"
  /\ inside' = inside \cup {o}
  /\ UNCHANGED phase

Leave(o) ==
  /\ o \in inside
  /\ inside' = inside \ {o}
  /\ UNCHANGED phase

Intend ==
  /\ phase = "open"
  /\ phase' = "draining"
  /\ UNCHANGED inside

Clean ==
  /\ phase = "draining"
  /\ inside = {}
  /\ phase' = "cleaning"
  /\ UNCHANGED inside

Finish ==
  /\ phase = "cleaning"
  /\ phase' = "closed"
  /\ UNCHANGED inside

Next ==
  \/ \E o \in Ops : Admit(o) \/ Leave(o)
  \/ Intend
  \/ Clean
  \/ Finish

(* Operations end, and a close that was intended reaches its cleanup. *)
Fairness ==
  /\ \A o \in Ops : WF_vars(Leave(o))
  /\ WF_vars(Clean)

Spec == Init /\ [][Next]_vars /\ Fairness
=============================================================================
