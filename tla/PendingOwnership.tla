--------------------------- MODULE PendingOwnership ---------------------------
(***************************************************************************)
(* PendingOwnershipRegistry of src/runtime/lifecycle.rs: remote resources  *)
(* (targets, contexts, attachments, routes) whose cleanup must run once,   *)
(* whoever ends up running it: the guard that registered it, a background  *)
(* task, or the cleanup_all of a close.                                    *)
(*                                                                         *)
(* A token is one registration; its owner is the task that holds the       *)
(* PendingOwnershipGuard or the RetainedOwnership.  Each critical section  *)
(* of `data` is one step; the notify_one after it is another.              *)
(***************************************************************************)
EXTENDS Naturals, Sequences, FiniteSets

CONSTANTS
  Tokens,      \* registrations
  Resources,   \* the keys of PendingOwnershipData.entries
  ResourceOf,  \* the resource a token is registered for
  Explicit,    \* tokens whose owner may call cleanup() and wait for it
  Unfenced,    \* tokens whose registration no operation permit keeps before a close
  Closers,     \* callers of cleanup_all or abandon_all
  NoToken

ASSUME RegistryAssumption ==
  /\ ResourceOf \in [Tokens -> Resources]
  /\ Explicit \cup Unfenced \subseteq Tokens
  /\ Tokens \cap Closers = {}
  /\ NoToken \notin Tokens

VARIABLES
  entry,      \* entries: the token registered for a resource, or NoToken
  cleaning,   \* tokens whose entry was claimed (PendingOwnershipState::Cleaning)
  completed,  \* tokens in PendingOwnershipData.completed
  task,       \* the background task of a token: none, run, or notify
  result,     \* what the cleanup future of a token ended with
  told,       \* what cleanup() returned to the owner of a token
  pc,         \* where each owner and each closer is
  drives,     \* the token whose cleanup a closer runs
  report,     \* the completions a closer returned
  begun,      \* history: what was registered when a closer started
  waived,     \* history: tokens disarmed, abandoned or overwritten
  stored,     \* the permit `changed` keeps when nobody waits
  queue       \* the waiters of `changed`, first come first served

dataVars == <<entry, cleaning, completed, waived>>
notifyVars == <<stored, queue>>
closerVars == <<drives, report, begun>>
vars == <<dataVars, task, result, told, pc, closerVars, notifyVars>>

Procs == Tokens \cup Closers
OwnerStates ==
  {"unregistered", "armed", "retained", "drive", "notify", "look", "park", "parked",
   "woken", "forget", "returned", "notifyGone", "gone"}
CloserStates ==
  {"idle", "claim", "drive", "notify", "count", "take", "park", "parked", "woken",
   "notifyAll", "returned"}
Outcomes == {"ok", "failed"}

Registered(t) == entry[ResourceOf[t]] = t
Live == {t \in Tokens : Registered(t)}

ClaimAgain(t) == Registered(t) \* mutant: the state of the entry is not tested

(* claim(): the entry is still this token's and nobody runs its cleanup. *)
Claimable(t) == Registered(t) /\ t \notin cleaning

Init ==
  /\ entry = [r \in Resources |-> NoToken]
  /\ cleaning = {}
  /\ completed = {}
  /\ task = [t \in Tokens |-> "none"]
  /\ result = [t \in Tokens |-> "none"]
  /\ told = [t \in Tokens |-> "none"]
  /\ pc = [p \in Procs |-> IF p \in Tokens THEN "unregistered" ELSE "idle"]
  /\ drives = [c \in Closers |-> NoToken]
  /\ report = [c \in Closers |-> {}]
  /\ begun = [c \in Closers |-> {}]
  /\ waived = {}
  /\ stored = FALSE
  /\ queue = <<>>

-----------------------------------------------------------------------------
(* tokio::sync::Notify.  The argument is pc after the caller's own move. *)

NotifyOne(moved) ==
  \/ /\ queue = <<>>
     /\ stored' = TRUE
     /\ pc' = moved
     /\ UNCHANGED queue
  \/ /\ queue # <<>>
     /\ pc' = [moved EXCEPT ![Head(queue)] = "woken"]
     /\ queue' = Tail(queue)
     /\ UNCHANGED stored

(* The queue after its i-th waiter was dropped. *)
Without(i) == [j \in 1..(Len(queue) - 1) |-> IF j < i THEN queue[j] ELSE queue[j + 1]]

NotifyWaiters(moved) ==
  /\ pc' = [p \in Procs |-> IF moved[p] = "parked" THEN "woken" ELSE moved[p]]
  /\ queue' = <<>>
  /\ UNCHANGED stored

(* Polling a fresh Notified consumes the stored permit or joins the queue. *)
Park(p) ==
  /\ pc[p] = "park"
  /\ \/ /\ stored
        /\ stored' = FALSE
        /\ pc' = [pc EXCEPT ![p] = "woken"]
        /\ UNCHANGED queue
     \/ /\ ~stored
        /\ queue' = Append(queue, p)
        /\ pc' = [pc EXCEPT ![p] = "parked"]
        /\ UNCHANGED stored
  /\ UNCHANGED <<dataVars, task, result, told, closerVars>>

(* A woken waiter goes back to the top of its loop. *)
Resume(p) ==
  /\ pc[p] = "woken"
  /\ pc' = [pc EXCEPT ![p] = IF p \in Tokens THEN "look" ELSE "claim"]
  /\ UNCHANGED <<dataVars, task, result, told, closerVars, notifyVars>>

(* finish() and disarm() notify after they unlock; so does restore_claim(). *)
AfterNotify(p) ==
  CASE pc[p] = "notifyGone" -> "gone"
    [] pc[p] = "notify" /\ p \in Tokens -> "forget"
    [] OTHER -> "claim"

Notify(p) ==
  /\ pc[p] \in {"notify", "notifyGone"}
  /\ NotifyOne([pc EXCEPT ![p] = AfterNotify(p)])
  /\ UNCHANGED <<dataVars, task, result, told, closerVars>>

-----------------------------------------------------------------------------
(* Owners: register, retain, disarm, schedule, cleanup. *)

(* HashMap::insert: an entry of an earlier registration is overwritten.    *)
(* The callers register under an operation permit, and a close drains the  *)
(* permits before cleanup_all; Unfenced tokens come at any time.           *)
Register(t) ==
  /\ pc[t] = "unregistered"
  /\ t \in Unfenced \/ \A c \in Closers : pc[c] = "idle"
  /\ entry' = [entry EXCEPT ![ResourceOf[t]] = t]
  /\ waived' = waived \cup ({entry[ResourceOf[t]]} \ {NoToken})
  /\ pc' = [pc EXCEPT ![t] = "armed"]
  /\ UNCHANGED <<cleaning, completed, task, result, told, closerVars, notifyVars>>

Retain(t) ==
  /\ pc[t] = "armed"
  /\ pc' = [pc EXCEPT ![t] = "retained"]
  /\ UNCHANGED <<dataVars, task, result, told, closerVars, notifyVars>>

Disarm(t) ==
  /\ pc[t] \in {"armed", "retained"}
  /\ entry' = [entry EXCEPT ![ResourceOf[t]] = IF @ = t THEN NoToken ELSE @]
  /\ waived' = waived \cup {t}
  /\ pc' = [pc EXCEPT ![t] = "notifyGone"]
  /\ UNCHANGED <<cleaning, completed, task, result, told, closerVars, notifyVars>>

(* Dropping an armed guard, or RetainedOwnership::schedule. *)
Schedule(t) ==
  /\ pc[t] \in {"armed", "retained"}
  /\ \/ /\ Claimable(t)
        /\ cleaning' = cleaning \cup {t}
        /\ task' = [task EXCEPT ![t] = "run"]
     \/ /\ ~Claimable(t)
        /\ UNCHANGED <<cleaning, task>>
  /\ pc' = [pc EXCEPT ![t] = "gone"]
  /\ UNCHANGED <<entry, completed, waived, result, told, closerVars, notifyVars>>

(* Outside a Tokio runtime schedule() gives up; a RetainedOwnership has no *)
(* Drop: either way the entry stays pending for a later cleanup_all.       *)
LeavePending(t) ==
  /\ pc[t] \in {"armed", "retained"}
  /\ pc' = [pc EXCEPT ![t] = "gone"]
  /\ UNCHANGED <<dataVars, task, result, told, closerVars, notifyVars>>

(* cleanup() takes the resource out of the guard, then cleanup_one claims. *)
Cleanup(t) ==
  /\ t \in Explicit
  /\ pc[t] \in {"armed", "retained"}
  /\ \/ /\ Claimable(t)
        /\ cleaning' = cleaning \cup {t}
        /\ pc' = [pc EXCEPT ![t] = "drive"]
     \/ /\ ~Claimable(t)
        /\ pc' = [pc EXCEPT ![t] = "look"]
        /\ UNCHANGED cleaning
  /\ UNCHANGED <<entry, completed, waived, task, result, told, closerVars, notifyVars>>

(* mutant: the completion is dropped *)
CompleteSilently(t, r) ==
  /\ result' = [result EXCEPT ![t] = r]
  /\ cleaning' = cleaning \ {t}
  /\ entry' = [entry EXCEPT ![ResourceOf[t]] = IF @ = t THEN NoToken ELSE @]
  /\ UNCHANGED <<completed, waived>>

(* The body of finish() under the lock, for a cleanup that ended with r. *)
Complete(t, r) ==
  /\ result' = [result EXCEPT ![t] = r]
  /\ cleaning' = cleaning \ {t}
  /\ \/ /\ Registered(t)
        /\ entry' = [entry EXCEPT ![ResourceOf[t]] = NoToken]
        /\ completed' = completed \cup {t}
     \/ /\ ~Registered(t)
        /\ UNCHANGED <<entry, completed>>
  /\ UNCHANGED waived

FinishOwner(t) ==
  /\ pc[t] = "drive"
  /\ \E r \in Outcomes : Complete(t, r) /\ told' = [told EXCEPT ![t] = r]
  /\ pc' = [pc EXCEPT ![t] = "notify"]
  /\ UNCHANGED <<task, closerVars, notifyVars>>

(* The loop of cleanup_one: an entry that is gone has a completion, or Ok. *)
Look(t) ==
  /\ pc[t] = "look"
  /\ \/ /\ Registered(t)
        /\ pc' = [pc EXCEPT ![t] = "park"]
        /\ UNCHANGED told
     \/ /\ ~Registered(t)
        /\ told' = [told EXCEPT ![t] = IF t \in completed THEN result[t] ELSE "ok"]
        /\ pc' = [pc EXCEPT ![t] = "forget"]
  /\ UNCHANGED <<dataVars, task, result, closerVars, notifyVars>>

(* forget_completion(), then cleanup() returns. *)
Forget(t) ==
  /\ pc[t] = "forget"
  /\ completed' = completed \ {t}
  /\ pc' = [pc EXCEPT ![t] = "returned"]
  /\ UNCHANGED <<entry, cleaning, waived, task, result, told, closerVars, notifyVars>>

(* The caller of cleanup() is aborted at an await.  A future in flight is  *)
(* handed to a spawned task, or back to the registry outside a runtime; a  *)
(* waiter leaves the queue and forwards a notification it got.             *)
CancelDriving(t) ==
  /\ pc[t] = "drive"
  /\ \/ /\ task' = [task EXCEPT ![t] = "run"]
        /\ pc' = [pc EXCEPT ![t] = "gone"]
        /\ UNCHANGED cleaning
     \/ /\ cleaning' = cleaning \ {t}
        /\ pc' = [pc EXCEPT ![t] = "notifyGone"]
        /\ UNCHANGED task
  /\ UNCHANGED <<entry, completed, waived, result, told, closerVars, notifyVars>>

CancelWaiting(t) ==
  /\ \/ /\ pc[t] = "parked"
        /\ \E i \in DOMAIN queue : queue[i] = t /\ queue' = Without(i)
        /\ pc' = [pc EXCEPT ![t] = "gone"]
        /\ UNCHANGED stored
     \/ /\ pc[t] = "woken"
        /\ NotifyOne([pc EXCEPT ![t] = "gone"])
  /\ UNCHANGED <<dataVars, task, result, told, closerVars>>

-----------------------------------------------------------------------------
(* Background tasks: a scheduled cleanup, or one whose owner was aborted. *)

FinishTask(t) ==
  /\ task[t] = "run"
  /\ task' = [task EXCEPT ![t] = "notify"]
  /\ \E r \in Outcomes : Complete(t, r)
  /\ UNCHANGED <<told, pc, closerVars, notifyVars>>

(* mutant: a background cleanup tells nobody *)
EndTask(t) ==
  /\ task[t] = "notify"
  /\ task' = [task EXCEPT ![t] = "none"]
  /\ UNCHANGED <<dataVars, result, told, pc, closerVars, notifyVars>>

NotifyTask(t) ==
  /\ task[t] = "notify"
  /\ task' = [task EXCEPT ![t] = "none"]
  /\ NotifyOne(pc)
  /\ UNCHANGED <<dataVars, result, told, closerVars>>

-----------------------------------------------------------------------------
(* Closers: cleanup_all and abandon_all. *)

CleanupAll(c) ==
  /\ pc[c] = "idle"
  /\ begun' = [begun EXCEPT ![c] = Live]
  /\ pc' = [pc EXCEPT ![c] = "claim"]
  /\ UNCHANGED <<dataVars, task, result, told, drives, report, notifyVars>>

ClaimNext(c) ==
  /\ pc[c] = "claim"
  /\ \/ \E t \in Tokens :
          /\ Claimable(t)
          /\ cleaning' = cleaning \cup {t}
          /\ drives' = [drives EXCEPT ![c] = t]
          /\ pc' = [pc EXCEPT ![c] = "drive"]
     \/ /\ \A t \in Tokens : ~Claimable(t)
        /\ pc' = [pc EXCEPT ![c] = "count"]
        /\ UNCHANGED <<cleaning, drives>>
  /\ UNCHANGED <<entry, completed, waived, task, result, told, report, begun, notifyVars>>

FinishCloser(c) ==
  /\ pc[c] = "drive"
  /\ \E r \in Outcomes : Complete(drives[c], r)
  /\ drives' = [drives EXCEPT ![c] = NoToken]
  /\ pc' = [pc EXCEPT ![c] = "notify"]
  /\ UNCHANGED <<task, told, report, begun, notifyVars>>

(* mutant: cleanups that run already are not waited for *)
CountClaimable(c) ==
  /\ pc[c] = "count"
  /\ pc' = [pc EXCEPT ![c] = IF Live \subseteq cleaning THEN "take" ELSE "park"]
  /\ UNCHANGED <<dataVars, task, result, told, closerVars, notifyVars>>

(* pending_count() == 0 is one critical section, mem::take another. *)
Count(c) ==
  /\ pc[c] = "count"
  /\ pc' = [pc EXCEPT ![c] = IF Live = {} THEN "take" ELSE "park"]
  /\ UNCHANGED <<dataVars, task, result, told, closerVars, notifyVars>>

Take(c) ==
  /\ pc[c] = "take"
  /\ report' = [report EXCEPT ![c] = completed]
  /\ completed' = {}
  /\ pc' = [pc EXCEPT ![c] = "returned"]
  /\ UNCHANGED <<entry, cleaning, waived, task, result, told, drives, begun, notifyVars>>

(* abandon_all: forget every entry, return what completed, wake everyone. *)
AbandonAll(c) ==
  /\ pc[c] = "idle"
  /\ begun' = [begun EXCEPT ![c] = Live]
  /\ entry' = [r \in Resources |-> NoToken]
  /\ waived' = waived \cup Live
  /\ report' = [report EXCEPT ![c] = completed]
  /\ completed' = {}
  /\ pc' = [pc EXCEPT ![c] = "notifyAll"]
  /\ UNCHANGED <<cleaning, task, result, told, drives, notifyVars>>

NotifyAll(c) ==
  /\ pc[c] = "notifyAll"
  /\ NotifyWaiters([pc EXCEPT ![c] = "returned"])
  /\ UNCHANGED <<dataVars, task, result, told, closerVars>>

-----------------------------------------------------------------------------
(* What the executor does on its own once a call was made. *)
OwnerRuns(t) == FinishOwner(t) \/ Look(t) \/ Forget(t)
TaskRuns(t) == FinishTask(t) \/ NotifyTask(t)
CloserRuns(c) == ClaimNext(c) \/ FinishCloser(c) \/ Count(c) \/ Take(c) \/ NotifyAll(c)
WaiterRuns(p) == Park(p) \/ Resume(p) \/ Notify(p)

(* What the owner of a guard decides to do with it. *)
OwnerCalls(t) ==
  \/ Register(t) \/ Retain(t) \/ Disarm(t) \/ Schedule(t) \/ LeavePending(t)
  \/ Cleanup(t) \/ CancelDriving(t) \/ CancelWaiting(t)

Next ==
  \/ \E t \in Tokens : OwnerCalls(t) \/ OwnerRuns(t) \/ TaskRuns(t)
  \/ \E c \in Closers : CleanupAll(c) \/ AbandonAll(c) \/ CloserRuns(c)
  \/ \E p \in Procs : WaiterRuns(p)

Spec == Init /\ [][Next]_vars

(* Ready futures are polled and every cleanup command is answered or times *)
(* out.  Nobody has to register, cancel or close anything.                 *)
Fairness ==
  /\ \A t \in Tokens : WF_vars(OwnerRuns(t)) /\ WF_vars(TaskRuns(t))
  /\ \A c \in Closers : WF_vars(CloserRuns(c))
  /\ \A p \in Procs : WF_vars(WaiterRuns(p))

FairSpec == Spec /\ Fairness

-----------------------------------------------------------------------------
(* The registry's data and its waiters range over their Rust types, and    *)
(* every task is in a state of its own call: cleanup() or cleanup_all().   *)
TypeOK ==
  /\ entry \in [Resources -> Tokens \cup {NoToken}]
  /\ cleaning \subseteq Tokens
  /\ completed \subseteq Tokens
  /\ task \in [Tokens -> {"none", "run", "notify"}]
  /\ result \in [Tokens -> Outcomes \cup {"none"}]
  /\ told \in [Tokens -> Outcomes \cup {"none"}]
  /\ pc \in [Procs -> OwnerStates \cup CloserStates]
  /\ \A t \in Tokens : pc[t] \in OwnerStates
  /\ \A c \in Closers : pc[c] \in CloserStates
  /\ drives \in [Closers -> Tokens \cup {NoToken}]
  /\ report \in [Closers -> SUBSET Tokens]
  /\ begun \in [Closers -> SUBSET Tokens]
  /\ waived \subseteq Tokens
  /\ stored \in BOOLEAN
  /\ queue \in Seq(Procs)

(* explicit_close_claims_armed_pending_owner_exactly_once and              *)
(* aborted_owner_hands_pending_cleanup_to_the_registry (the tests): at any *)
(* time one actor at most polls the cleanup of a token, none once it has   *)
(* a result, and a claimed entry never stays without one.                  *)
OneDriver ==
  /\ \A t \in Tokens :
       /\ pc[t] = "drive" => task[t] # "run" /\ \A c \in Closers : drives[c] # t
       /\ task[t] = "run" => \A c \in Closers : drives[c] # t
       /\ \A c, d \in Closers : drives[c] = t /\ drives[d] = t => c = d
       /\ t \in cleaning <=>
            pc[t] = "drive" \/ task[t] = "run" \/ \E c \in Closers : drives[c] = t
  /\ \A t \in cleaning : result[t] = "none"

(* cleanup_all returns when nothing is pending: whatever was registered    *)
(* when it started has ended its cleanup, unless it was given up by a      *)
(* disarm, an abandon_all or an overwriting registration.                  *)
ClosedMeansCleaned ==
  \A c \in Closers : pc[c] = "returned" =>
    \A t \in begun[c] : result[t] # "none" \/ t \in waived

(* "The completion remains available to cleanup_all, so a later root close *)
(* observes the same result instead of losing detach-time failures" (doc   *)
(* comment of RetainedOwnership::schedule): a failed cleanup is in         *)
(* completed, in the report of a closer, or was returned to its owner.     *)
NoFailureLost ==
  \A t \in Tokens :
    result[t] = "failed" /\ t \notin waived =>
      \/ t \in completed
      \/ told[t] = "failed"
      \/ \E c \in Closers : t \in report[c]

(* A cleanup that ended is never run again and keeps its result. *)
ResultIsFinal ==
  [][\A t \in Tokens : result[t] # "none" => result'[t] = result[t] /\ ~(t \in cleaning')]_vars

(* A cleanup_all that was called returns: no wakeup it needs is lost,      *)
(* unless an owner waits in cleanup() beside it, or somebody registered    *)
(* late, without a permit that keeps a registration before the close.      *)
OwnerWaits == \E t \in Explicit : pc[t] \in {"look", "park", "parked", "woken"}
LateOwner == \E t \in Unfenced : Registered(t)

CleanupAllReturns ==
  \A c \in Closers : pc[c] = "claim" ~> (pc[c] = "returned" \/ OwnerWaits \/ LateOwner)

(* "Every explicit `close()` returns a `CloseReport`" (README.md of the    *)
(* crate): every cleanup_all and every cleanup() that was called returns.  *)
EveryCallReturns ==
  /\ \A c \in Closers : pc[c] = "claim" ~> pc[c] = "returned"
  /\ \A t \in Tokens : pc[t] = "look" ~> pc[t] \in {"returned", "gone"}

-----------------------------------------------------------------------------
(* The parts of the inductive invariant behind the theorems.               *)

(* Who waits in the queue is parked, and waits there once. *)
QueueHoldsParked ==
  /\ \A i \in 1..Len(queue) : pc[queue[i]] = "parked"
  /\ \A i, j \in 1..Len(queue) : queue[i] = queue[j] => i = j

(* Nothing happened yet to a token that is not registered. *)
UnregisteredIsFresh ==
  \A t \in Tokens : pc[t] = "unregistered" =>
    ~Registered(t) /\ t \notin cleaning /\ result[t] = "none"

(* A registered token has its entry, has its result, or was given up. *)
SettledOrRegistered ==
  \A t \in Tokens :
    /\ result[t] # "none" => ~Registered(t)
    /\ pc[t] # "unregistered" => Registered(t) \/ result[t] # "none" \/ t \in waived

(* A closer has collected nothing before it returns, and takes what is     *)
(* completed only once what it found has ended.                            *)
CloserConsistent(c) ==
  /\ drives[c] # NoToken <=> pc[c] = "drive"
  /\ \A t \in begun[c] : pc[t] # "unregistered"
  /\ pc[c] \in {"take", "notifyAll", "returned"} =>
       \A t \in begun[c] : result[t] # "none" \/ t \in waived
  /\ pc[c] \notin {"notifyAll", "returned"} => report[c] = {}

(* An owner whose wait is over has a result or gave the token up; when it  *)
(* is about to forget a failure it was told, or a closer has it.           *)
OwnerConsistent(t) ==
  /\ pc[t] \in {"notify", "forget"} => result[t] # "none" \/ t \in waived
  /\ told[t] # "none" => pc[t] \in {"notify", "forget", "returned"}
  /\ pc[t] \in {"notify", "forget"} /\ result[t] = "failed" /\ t \notin waived =>
       told[t] = "failed" \/ \E c \in Closers : t \in report[c]

CloserProgress == \A c \in Closers : CloserConsistent(c)
OwnerProgress == \A t \in Tokens : OwnerConsistent(t)

RegistryInvariant ==
  /\ TypeOK
  /\ QueueHoldsParked
  /\ OneDriver
  /\ UnregisteredIsFresh
  /\ SettledOrRegistered
  /\ CloserProgress
  /\ OwnerProgress
  /\ NoFailureLost
=============================================================================
