------------------------------ MODULE MCServices ------------------------------
(***************************************************************************)
(* Six components side by side, each with its fairness, for one run of     *)
(* TLC: the default session, the operation gate, the confirmed close of a  *)
(* target, downloads, the binding of sessions to browsers and the dialogs  *)
(* of a tab.  They share nothing, so a behaviour moves one of them, chosen *)
(* in its initial state, and leaves the others where they start.           *)
(***************************************************************************)
EXTENDS DefaultSession, FiniteSets, Naturals, Sequences

CONSTANTS
  Ops, Callers, NoCaller,                                        \* OperationGate
  Closers, Unrelated,                                            \* TargetClose
  Kinds, Savers, Guids, None,                                    \* Downloads
  Default, Named, Hosts, Requests, Conns,
  MaxSessions, MaxContexts, MaxRestarts, Nobody,                 \* SessionBinding
  Answerers, Policies, MaxDialogs, MaxPolicies                   \* DaemonDialogs

ASSUME GateAssumption ==
  /\ IsFiniteSet(Ops)
  /\ NoCaller \notin Callers

ASSUME TargetCloseAssumption == Unrelated \in Nat

VARIABLES
  moving,                                                        \* the component
  handle, active, stored, op, cell, task, outcome, caller, returned,
  target, step, clock, stream, reply, inventory, result, noise,
  kind, managerSlot, canceled, directory, reducer, announced, status, senders,
  updates, saver, saved, ending, closer, begins, ends, source,
  browsers, watchers, sessions, bindLock, dialLock, job, signal, writer, file,
  stale, made, closed, contexts, ctxCount, run,
  open, shown, opened, closings, policy, changes, pending, answering, holding,
  token, answerer

Gate == INSTANCE OperationGate
Target == INSTANCE TargetClose WITH pc <- step
Download == INSTANCE Downloads WITH
  Callers <- Savers, slot <- managerSlot, caller <- saver, got <- saved, outcome <- ending
Binding == INSTANCE SessionBinding
Dialog == INSTANCE DaemonDialogs WITH
  Callers <- Answerers, closed <- closings, task <- answering, caller <- answerer

Components == {"default", "gate", "target", "download", "binding", "dialog"}

theGate == <<handle, active, stored, op, cell, task, outcome, caller, returned>>
theTarget == <<target, step, clock, stream, reply, inventory, result, noise>>
theDownloads == <<kind, managerSlot, canceled, directory, reducer, announced, status,
                  senders, updates, saver, saved, ending, closer, begins, ends, source>>
theBinding == <<browsers, watchers, sessions, bindLock, dialLock, job, signal, writer,
                file, stale, made, closed, contexts, ctxCount, run>>
theDialogs == <<open, shown, opened, closings, policy, changes, pending, answering,
                holding, token, answerer>>
everything == <<moving, vars, theGate, theTarget, theDownloads, theBinding, theDialogs>>

-----------------------------------------------------------------------------
\* What a component chooses at the start is chosen when it moves.
First(S) == CHOOSE x \in S : TRUE

ServicesInit ==
  /\ moving \in Components
  /\ Init /\ (moving # "default" => want = [c \in Calls |-> First(Options)])
  /\ Gate!Init /\ Target!Init
  /\ Download!Init /\ (moving # "download" => kind = First(Kinds))
  /\ Binding!Init
  /\ Dialog!Init /\ (moving # "dialog" => policy = First(Policies))

ServicesNext ==
  \/ /\ moving = "default" /\ Next
     /\ UNCHANGED <<moving, theGate, theTarget, theDownloads, theBinding, theDialogs>>
  \/ /\ moving = "gate" /\ Gate!Next
     /\ UNCHANGED <<moving, vars, theTarget, theDownloads, theBinding, theDialogs>>
  \/ /\ moving = "target" /\ Target!Next
     /\ UNCHANGED <<moving, vars, theGate, theDownloads, theBinding, theDialogs>>
  \/ /\ moving = "download" /\ Download!Next
     /\ UNCHANGED <<moving, vars, theGate, theTarget, theBinding, theDialogs>>
  \/ /\ moving = "binding" /\ Binding!Next
     /\ UNCHANGED <<moving, vars, theGate, theTarget, theDownloads, theDialogs>>
  \/ /\ moving = "dialog" /\ Dialog!Next
     /\ UNCHANGED <<moving, vars, theGate, theTarget, theDownloads, theBinding>>

\* The fairness of each component, while it moves.
ServicesFairness ==
  /\ \A c \in Calls :
       /\ WF_vars(moving = "default" /\ CallRuns(c))
       /\ SF_vars(moving = "default" /\ Acquire(c))
       /\ WF_vars(moving = "default" /\ BackgroundReset(c))
       /\ WF_vars(moving = "default" /\ SessionRuns(c))
  /\ WF_vars(moving = "default" /\ RuntimeRuns)
  /\ \A o \in Ops : WF_theGate(moving = "gate" /\ Gate!OpEnds(o))
  /\ \A c \in Callers :
       /\ WF_theGate(moving = "gate" /\ Gate!TaskStep(c))
       /\ WF_theGate(moving = "gate" /\ (Gate!GetOrInit(c) \/ Gate!Return(c)))
  /\ \A c \in Closers :
       /\ WF_theTarget(moving = "target" /\ Target!Tick(c))
       /\ WF_theTarget(moving = "target" /\ Target!CallRuns(c))
  /\ WF_theDownloads(moving = "download" /\ Download!Progress)
  /\ WF_theBinding(moving = "binding" /\ Binding!Progress)
  /\ WF_theDialogs(moving = "dialog" /\ Dialog!Progress)

ServicesSpec == ServicesInit /\ [][ServicesNext]_everything /\ ServicesFairness
-----------------------------------------------------------------------------
(* Properties, of the component that moves *)

(* One close body runs and whoever returns has its report (CloseCoordinator). *)
OneCloseOneReport == Gate!OneCloseOneReport

(* No wakeup is lost: every caller that awaits a close gets its report.     *)
CloseReturns == Gate!CloseReturns

(* The gate with its coordinator implements the promise of DrainedClose.    *)
ImplementsDrainedClose == Gate!ImplementsDrainedClose

(* A confirmed close reports success only of a target that is gone.         *)
SuccessMeansGone == Target!SuccessMeansGone

(* A confirmed close ends by its deadline, even if Chrome stays silent, and *)
(* the close of a page returns whatever its downloads do.                   *)
CallsEnd ==
  /\ moving = "target" => Target!EveryCallEnds
  /\ Download!PageCloseReturns

(* A lost connection is noticed, so that its host can be bound again.       *)
LossIsNoticed == Binding!LossIsNoticed

(* Under an automatic policy no dialog stalls its page for good.            *)
PolicyUnstallsThePage == Dialog!PolicyUnstallsThePage
=============================================================================
