---------------------------- MODULE OperationGate ----------------------------
(***************************************************************************)
(* OperationGate and CloseCoordinator of src/runtime/lifecycle.rs: one     *)
(* closable scope (a runtime, a session or a page) with the operations     *)
(* that ask for permits and the callers that close it concurrently.        *)
(*                                                                         *)
(* The interleaving is that of the code: every parking_lot critical        *)
(* section is one step, and what happens between two of them (an unlock    *)
(* and a notify_one, a check and the registration of a waiter, the fast    *)
(* path of CloseCoordinator::run and its get_or_init) is not atomic.       *)
(***************************************************************************)
EXTENDS FiniteSets, Naturals

CONSTANTS
  Ops,       \* logical operations, each asks for one permit
  Callers,   \* callers of close()
  NoCaller   \* the OnceLock of the coordinator holds nothing

VARIABLES
  handle,    \* OperationGateState.handle
  active,    \* OperationGateState.active
  stored,    \* the permit a tokio Notify keeps when nobody waits
  op,        \* where each operation is
  cell,      \* CloseCoordinator.report: the caller whose task was spawned
  task,      \* where the close task spawned by each caller is
  outcome,   \* the report the task ends with
  caller,    \* where each caller of close() is
  returned   \* the report the caller got

gateVars == <<handle, active, stored>>
closeVars == <<cell, task, outcome, caller, returned>>
vars == <<handle, active, stored, op, cell, task, outcome, caller, returned>>

Handles == {"Open", "Closing", "Closed"}
Reports == {"complete", "partial", "panic"}
OpStates == {"idle", "inside", "notify", "done", "rejected"}
TaskStates ==
  {"absent", "start", "check", "park", "parked", "cleanup", "closed", "panicked"}
CallerStates == {"idle", "init", "await", "returned", "dropped"}

Inside == {o \in Ops : op[o] = "inside"}

Init ==
  /\ handle = "Open"
  /\ active = 0
  /\ stored = FALSE
  /\ op = [o \in Ops |-> "idle"]
  /\ cell = NoCaller
  /\ task = [c \in Callers |-> "absent"]
  /\ outcome = [c \in Callers |-> "none"]
  /\ caller = [c \in Callers |-> "idle"]
  /\ returned = [c \in Callers |-> "none"]

-----------------------------------------------------------------------------
(* Operations: enter() and the Drop of the permit. *)

Admit(o) ==
  /\ op[o] = "idle"
  /\ handle = "Open"
  /\ active' = active + 1
  /\ op' = [op EXCEPT ![o] = "inside"]
  /\ UNCHANGED <<handle, stored, closeVars>>

Reject(o) ==
  /\ op[o] = "idle"
  /\ handle # "Open"
  /\ op' = [op EXCEPT ![o] = "rejected"]
  /\ UNCHANGED <<gateVars, closeVars>>

(* usize::saturating_sub(1) *)
SaturatingDecrement(n) == IF n > 0 THEN n - 1 ELSE 0

(* The last permit unlocks before it notifies. *)
Release(o) ==
  /\ op[o] = "inside"
  /\ active' = SaturatingDecrement(active)
  /\ op' = [op EXCEPT ![o] = IF active' = 0 THEN "notify" ELSE "done"]
  /\ UNCHANGED <<handle, stored, closeVars>>

NotifyRegisteredOnly ==   \* mutant: notify_waiters in the place of notify_one
  /\ task' = [c \in Callers |-> IF task[c] = "parked" THEN "check" ELSE task[c]]
  /\ UNCHANGED stored

(* Notify::notify_one: wake one registered waiter, else keep the permit. *)
NotifyOne ==
  \/ /\ \A c \in Callers : task[c] # "parked"
     /\ stored' = TRUE
     /\ UNCHANGED task
  \/ \E c \in Callers :
       /\ task[c] = "parked"
       /\ task' = [task EXCEPT ![c] = "check"]
       /\ UNCHANGED stored

NotifyDrained(o) ==
  /\ op[o] = "notify"
  /\ NotifyOne
  /\ op' = [op EXCEPT ![o] = "done"]
  /\ UNCHANGED <<handle, active, cell, outcome, caller, returned>>

-----------------------------------------------------------------------------
(* Callers: CloseCoordinator::run. *)

(* The fast path finds a started close, or the caller goes on to get_or_init. *)
Call(c) ==
  /\ caller[c] = "idle"
  /\ caller' = [caller EXCEPT ![c] = IF cell # NoCaller THEN "await" ELSE "init"]
  /\ UNCHANGED <<gateVars, op, cell, task, outcome, returned>>

(* Outside a Tokio runtime nothing can be spawned: a local failure report. *)
CallWithoutRuntime(c) ==
  /\ caller[c] = "idle"
  /\ cell = NoCaller
  /\ caller' = [caller EXCEPT ![c] = "returned"]
  /\ returned' = [returned EXCEPT ![c] = "noRuntime"]
  /\ UNCHANGED <<gateVars, op, cell, task, outcome>>

SpawnAlways(c) ==   \* mutant: the fast path is the only check
  /\ caller[c] = "init"
  /\ cell' = c
  /\ task' = [task EXCEPT ![c] = "start"]
  /\ caller' = [caller EXCEPT ![c] = "await"]
  /\ UNCHANGED <<gateVars, op, outcome, returned>>

(* OnceLock::get_or_init: the first caller spawns the task, the others share it. *)
GetOrInit(c) ==
  /\ caller[c] = "init"
  /\ \/ /\ cell = NoCaller
        /\ cell' = c
        /\ task' = [task EXCEPT ![c] = "start"]
     \/ /\ cell # NoCaller
        /\ UNCHANGED <<cell, task>>
  /\ caller' = [caller EXCEPT ![c] = "await"]
  /\ UNCHANGED <<gateVars, op, outcome, returned>>

(* The caller's future is dropped while it awaits the report. *)
DropCaller(c) ==
  /\ caller[c] = "await"
  /\ caller' = [caller EXCEPT ![c] = "dropped"]
  /\ UNCHANGED <<gateVars, op, cell, task, outcome, returned>>

Return(c) ==
  /\ caller[c] = "await"
  /\ outcome[cell] # "none"
  /\ caller' = [caller EXCEPT ![c] = "returned"]
  /\ returned' = [returned EXCEPT ![c] = outcome[cell]]
  /\ UNCHANGED <<gateVars, op, cell, task, outcome>>

-----------------------------------------------------------------------------
(* The close task: start_close, wait_for_drain, cleanup, finish_close. *)

StartClosed(c) ==   \* mutant: close intent is published as Closed
  /\ task[c] = "start"
  /\ handle' = "Closed"
  /\ task' = [task EXCEPT ![c] = "check"]
  /\ UNCHANGED <<active, stored, op, cell, outcome, caller, returned>>

StartClose(c) ==
  /\ task[c] = "start"
  /\ handle' = IF handle = "Open" THEN "Closing" ELSE handle
  /\ task' = [task EXCEPT ![c] = "check"]
  /\ UNCHANGED <<active, stored, op, cell, outcome, caller, returned>>

CheckDrained(c) ==
  /\ task[c] = "check"
  /\ task' = [task EXCEPT ![c] = IF active = 0 THEN "cleanup" ELSE "park"]
  /\ UNCHANGED <<gateVars, op, cell, outcome, caller, returned>>

(* Notified::poll: consume the stored permit or register as a waiter. *)
Park(c) ==
  /\ task[c] = "park"
  /\ task' = [task EXCEPT ![c] = IF stored THEN "check" ELSE "parked"]
  /\ stored' = FALSE
  /\ UNCHANGED <<handle, active, op, cell, outcome, caller, returned>>

(* The owner's cleanup is over; finish_close wakes every waiter. *)
FinishClose(c) ==
  /\ task[c] = "cleanup"
  /\ handle' = "Closed"
  /\ task' = [d \in Callers |->
                IF d = c THEN "closed"
                ELSE IF task[d] = "parked" THEN "check" ELSE task[d]]
  /\ \E r \in {"complete", "partial"} : outcome' = [outcome EXCEPT ![c] = r]
  /\ UNCHANGED <<active, stored, op, cell, caller, returned>>

(* A panic in the cleanup ends the task: the JoinError becomes the report. *)
PanicInCleanup(c) ==
  /\ task[c] = "cleanup"
  /\ task' = [task EXCEPT ![c] = "panicked"]
  /\ outcome' = [outcome EXCEPT ![c] = "panic"]
  /\ UNCHANGED <<gateVars, op, cell, caller, returned>>

-----------------------------------------------------------------------------
TaskStep(c) ==
  StartClose(c) \/ CheckDrained(c) \/ Park(c) \/ FinishClose(c) \/ PanicInCleanup(c)

OpEnds(o) == Release(o) \/ NotifyDrained(o)

Next ==
  \/ \E o \in Ops : Admit(o) \/ Reject(o) \/ OpEnds(o)
  \/ \E c \in Callers :
       Call(c) \/ CallWithoutRuntime(c) \/ GetOrInit(c) \/ DropCaller(c) \/ Return(c)
  \/ \E c \in Callers : TaskStep(c)

Spec == Init /\ [][Next]_vars

(* The executor polls every ready task, and an admitted operation ends:    *)
(* each holds its permit for one bounded logical operation.  Nothing       *)
(* forces an operation to start or a caller to close.                      *)
Fairness ==
  /\ \A o \in Ops : WF_vars(OpEnds(o))
  /\ \A c \in Callers : WF_vars(TaskStep(c)) /\ WF_vars(GetOrInit(c) \/ Return(c))

FairSpec == Spec /\ Fairness

-----------------------------------------------------------------------------
(* Every variable ranges over the states its Rust type can take. *)
TypeOK ==
  /\ handle \in Handles
  /\ active \in 0 .. Cardinality(Ops)
  /\ stored \in BOOLEAN
  /\ op \in [Ops -> OpStates]
  /\ cell \in Callers \cup {NoCaller}
  /\ task \in [Callers -> TaskStates]
  /\ outcome \in [Callers -> Reports \cup {"none"}]
  /\ caller \in [Callers -> CallerStates]
  /\ returned \in [Callers -> Reports \cup {"none", "noRuntime"}]

(* "Closing ... waits for every earlier permit to be released before       *)
(* resource cleanup takes a snapshot" (doc comment of OperationGate): while *)
(* a close task cleans up, and ever after, no operation holds a permit.    *)
CleanupExcludesOperations ==
  (\E c \in Callers : task[c] \in {"cleanup", "closed", "panicked"}) => Inside = {}

(* However many callers race through CloseCoordinator::run, and whoever is *)
(* dropped, one close task exists and every caller that awaits gets its    *)
(* report; the exception is a caller outside any Tokio runtime.            *)
OneCloseOneReport ==
  /\ \A c, d \in Callers : task[c] # "absent" /\ task[d] # "absent" => c = d
  /\ \A c, d \in Callers :
       returned[c] \in Reports /\ returned[d] \in Reports => returned[c] = returned[d]

(* Close intent is final: after start_close no step admits an operation    *)
(* and no step reopens the scope, a panicking cleanup included.            *)
IntentIsFinal ==
  [][handle # "Open" =>
       /\ handle' # "Open"
       /\ {o \in Ops : op'[o] = "inside"} \subseteq Inside]_vars

(* No wakeup is lost between the check of active and the registration of   *)
(* the waiter: every caller that awaits a close gets its report.           *)
CloseReturns ==
  \A c \in Callers : caller[c] \in {"init", "await"} ~> caller[c] \in {"returned", "dropped"}

(* The strengthening the proofs induct on: the counter is the number of    *)
(* permit holders, the only task is the one in the cell, where it is tells *)
(* the handle state, and every report a caller got is that task's.         *)
GateInvariant ==
  /\ TypeOK
  /\ active = Cardinality(Inside)
  /\ handle # "Open" => cell # NoCaller
  /\ \A c \in Callers :
       /\ task[c] # "absent" => cell = c
       /\ task[c] = "start" => handle = "Open"
       /\ task[c] \in {"check", "park", "parked", "cleanup", "panicked"} => handle = "Closing"
       /\ task[c] = "closed" => handle = "Closed"
       /\ task[c] \in {"cleanup", "closed", "panicked"} => active = 0
       /\ outcome[c] # "none" => task[c] \in {"closed", "panicked"}
       /\ caller[c] = "await" => cell \in Callers
       /\ returned[c] \in Reports => cell \in Callers /\ returned[c] = outcome[cell]

(* The gate implements the promise of DrainedClose. *)
Promise == INSTANCE DrainedClose WITH
  inside <- Inside,
  phase <-
    IF handle = "Closed" THEN "closed"
    ELSE IF \E c \in Callers : task[c] \in {"cleanup", "panicked"} THEN "cleaning"
    ELSE IF handle = "Closing" THEN "draining"
    ELSE "open"

ImplementsDrainedClose == Promise!Spec
=============================================================================
