---------------------------- MODULE DefaultSession ----------------------------
(***************************************************************************)
(* The default session of a BrowserRuntime: concurrent calls of            *)
(* default_session_with share one creation lock and one DefaultSessionSlot *)
(* (src/runtime/browser.rs), a creation grants the permissions of its      *)
(* options and registers their reset (src/runtime/session.rs), callers are *)
(* aborted, handles dropped, and session and runtime closed meanwhile.     *)
(*                                                                         *)
(* A session has the name of the call that creates it.  The registry entry *)
(* "permissions:default-context" follows src/runtime/lifecycle.rs as a     *)
(* release build runs it: a second registration replaces the first.        *)
(***************************************************************************)
EXTENDS FiniteSets

CONSTANTS
  Calls,           \* calls of default_session_with
  Options,         \* DefaultSessionOptions
  Granting,        \* those whose context overrides permissions
  NoCall

ASSUME DefaultAssumption ==
  /\ IsFiniteSet(Calls)
  /\ Granting \subseteq Options
  /\ NoCall \notin Calls

VARIABLES
  runtime,   \* how far BrowserRuntime::close is
  slot,      \* DefaultSessionSlotData
  lock,      \* default_session_creation: the call that holds it
  pc,        \* where a call is
  want,      \* the options it was called with
  got,       \* the session it returned
  held,      \* the calls whose session handle the user still has
  session,   \* how far BrowserSession::close of a session is
  entry,     \* the registered reset: the call that owns it, and its state
  resets,    \* calls whose reset runs in the background
  granted,   \* whose permissions are in force in the default context
  told       \* history: a failed reset was or will be reported

calls == <<lock, pc, want, got, held>>
vars == <<runtime, slot, calls, session, entry, resets, granted, told>>

NoEntry == [owner |-> NoCall, state |-> "none"]
Running == {"lock", "contexts", "grant", "observe", "rollback"}
Owns(c) == pc[c] \in {"grant", "observe", "rollback"} /\ want[c] \in Granting

(* Weak::upgrade succeeds: a handle is held, or a close runs. *)
Alive(s) == session[s] # "none" /\ (session[s] \in {"intent", "drain"} \/ \E c \in held : got[c] = s)

Init ==
  /\ runtime = "open" /\ slot = [state |-> "NeverCreated", current |-> NoCall]
  /\ lock = NoCall
  /\ pc = [c \in Calls |-> "idle"] /\ want \in [Calls -> Options]
  /\ got = [c \in Calls |-> NoCall] /\ held = {}
  /\ session = [c \in Calls |-> "none"]
  /\ entry = NoEntry /\ resets = {} /\ granted = NoCall
  /\ told = FALSE

-----------------------------------------------------------------------------
(* default_session_with. *)

Begin(c) ==
  /\ pc[c] = "idle" /\ runtime = "open"
  /\ pc' = [pc EXCEPT ![c] = "lock"]
  /\ UNCHANGED <<runtime, slot, lock, want, got, held, session, entry, resets, granted, told>>

Leave(c, where) ==
  /\ pc' = [pc EXCEPT ![c] = where]
  /\ lock' = IF lock = c THEN NoCall ELSE lock

Return(c, s) ==
  /\ Leave(c, "returned")
  /\ got' = [got EXCEPT ![c] = s]
  /\ held' = held \cup {c}

(* DefaultSessionSlot::resolve and matches_default_options. *)
Resolve(c) ==
  LET s == slot.current
      found == slot.state = "Open" /\ Alive(s)
  IN \/ /\ slot.state = "Closed" \/ (found /\ (session[s] # "open" \/ want[s] # want[c]))
        /\ Leave(c, "ended") /\ UNCHANGED <<got, held>>
     \/ /\ found /\ session[s] = "open" /\ want[s] = want[c]
        /\ Return(c, s)
     \/ /\ slot.state # "Closed" /\ ~found
        /\ lock' = c
        /\ pc' = [pc EXCEPT ![c] = "contexts"]
        /\ UNCHANGED <<got, held>>

(* mutant: the slot is resolved without the creation lock *)
AcquireFreely(c) ==
  /\ pc[c] = "lock"
  /\ Resolve(c)
  /\ UNCHANGED <<runtime, slot, want, session, entry, resets, granted, told>>

Acquire(c) ==
  /\ pc[c] = "lock" /\ lock = NoCall
  /\ Resolve(c)
  /\ UNCHANGED <<runtime, slot, want, session, entry, resets, granted, told>>

(* GetBrowserContexts, then the reset of the permissions is registered. *)
Contexts(c) ==
  /\ pc[c] = "contexts"
  /\ \/ Leave(c, "ended") /\ UNCHANGED entry
     \/ /\ pc' = [pc EXCEPT ![c] = IF want[c] \in Granting THEN "grant" ELSE "observe"]
        /\ IF want[c] \in Granting
           THEN entry' = [owner |-> c, state |-> "pending"]
           ELSE UNCHANGED entry
        /\ UNCHANGED lock
  /\ UNCHANGED <<runtime, slot, want, got, held, session, resets, granted, told>>

(* One SetPermission per override; a failure may come after some are set. *)
Grant(c) ==
  /\ pc[c] = "grant"
  /\ \/ pc' = [pc EXCEPT ![c] = "observe"] /\ granted' = c
     \/ pc' = [pc EXCEPT ![c] = "rollback"] /\ granted' \in {granted, c}
  /\ UNCHANGED <<runtime, slot, lock, want, got, held, session, entry, resets, told>>

(* BrowserSession::new, register_session and retain_permission_cleanup. *)
Create(c) ==
  /\ pc[c] = "observe"
  /\ \/ /\ session' = [session EXCEPT ![c] = "open"]
        /\ slot' = IF slot.state = "Closed" THEN slot ELSE [state |-> "Open", current |-> c]
        /\ Return(c, c)
     \/ /\ IF Owns(c)
           THEN pc' = [pc EXCEPT ![c] = "rollback"] /\ UNCHANGED lock
           ELSE Leave(c, "ended")
        /\ UNCHANGED <<slot, got, held, session>>
  /\ UNCHANGED <<runtime, want, entry, resets, granted, told>>

(* ResetPermissions: the overrides of every owner are gone, or none. *)
Reset ==
  \/ granted' = NoCall /\ UNCHANGED told
  \/ told' = TRUE /\ UNCHANGED granted

(* cleanup_creation_failure *)
Rollback(c) ==
  /\ pc[c] = "rollback"
  /\ Reset
  /\ entry' = NoEntry
  /\ Leave(c, "ended")
  /\ UNCHANGED <<runtime, slot, want, got, held, session, resets>>

(* mutant: the lock of an aborted creation stays taken *)
CancelLocked(c) ==
  /\ pc[c] \in Running
  /\ pc' = [pc EXCEPT ![c] = "ended"]
  /\ entry' = IF Owns(c) THEN [owner |-> c, state |-> "cleaning"] ELSE entry
  /\ resets' = IF Owns(c) THEN resets \cup {c} ELSE resets
  /\ granted' \in IF pc[c] = "grant" THEN {granted, c} ELSE {granted}
  /\ UNCHANGED <<runtime, slot, lock, want, got, held, session, told>>

(* mutant: an aborted creation forgets its reset *)
CancelForgetful(c) ==
  /\ pc[c] \in Running
  /\ Leave(c, "ended")
  /\ entry' = IF Owns(c) THEN NoEntry ELSE entry
  /\ granted' \in IF pc[c] = "grant" THEN {granted, c} ELSE {granted}
  /\ UNCHANGED <<runtime, slot, want, got, held, session, resets, told>>

(* The caller is aborted: its guard schedules the reset; a SetPermission   *)
(* on its way may still take effect.                                       *)
Cancel(c) ==
  /\ pc[c] \in Running
  /\ Leave(c, "ended")
  /\ entry' = IF Owns(c) THEN [owner |-> c, state |-> "cleaning"] ELSE entry
  /\ resets' = IF Owns(c) THEN resets \cup {c} ELSE resets
  /\ granted' \in IF pc[c] = "grant" THEN {granted, c} ELSE {granted}
  /\ UNCHANGED <<runtime, slot, want, got, held, session, told>>

(* A scheduled reset ends; its outcome counts if the entry still is its own. *)
BackgroundReset(c) ==
  /\ c \in resets
  /\ resets' = resets \ {c}
  /\ entry' = IF entry.owner = c THEN NoEntry ELSE entry
  /\ \/ granted' = NoCall /\ UNCHANGED told
     \/ told' = (told \/ entry.owner = c) /\ UNCHANGED granted
  /\ UNCHANGED <<runtime, slot, calls, session>>

-----------------------------------------------------------------------------
(* Handles and BrowserSession::close. *)

Drop(c) ==
  /\ c \in held
  /\ held' = held \ {c}
  /\ UNCHANGED <<runtime, slot, lock, pc, want, got, session, entry, resets, granted, told>>

Intent(s) ==
  /\ session[s] = "open" /\ Alive(s)
  /\ session' = [session EXCEPT ![s] = "intent"]
  /\ UNCHANGED <<runtime, slot, calls, entry, resets, granted, told>>

MarkClosed(s) ==
  /\ session[s] = "intent"
  /\ session' = [session EXCEPT ![s] = "drain"]
  /\ slot' = [state |-> "Closed", current |-> NoCall]
  /\ UNCHANGED <<runtime, calls, entry, resets, granted, told>>

(* permission_cleanup.cleanup(), if the entry still is the session's. *)
FinishSession(s) ==
  /\ session[s] = "drain"
  /\ session' = [session EXCEPT ![s] = "closed"]
  /\ IF entry.owner = s
     THEN Reset /\ entry' = NoEntry
     ELSE UNCHANGED <<granted, told, entry>>
  /\ UNCHANGED <<runtime, slot, calls, resets>>

-----------------------------------------------------------------------------
(* BrowserRuntime::close. *)

CloseRuntime ==
  /\ runtime = "open"
  /\ runtime' = "drain"
  /\ UNCHANGED <<slot, calls, session, entry, resets, granted, told>>

DrainRuntime ==
  /\ runtime = "drain" /\ \A c \in Calls : pc[c] \notin Running
  /\ runtime' = "sessions"
  /\ UNCHANGED <<slot, calls, session, entry, resets, granted, told>>

CloseSessions ==
  /\ runtime = "sessions"
  /\ \/ \E s \in Calls : Intent(s)
     \/ /\ \A s \in Calls : Alive(s) => session[s] = "closed"
        /\ runtime' = "configuration"
        /\ UNCHANGED <<slot, calls, session, entry, resets, granted, told>>

(* pending_context_configuration.cleanup_all *)
CleanConfiguration ==
  /\ runtime = "configuration"
  /\ \/ /\ entry.state = "pending" /\ Reset
        /\ entry' = NoEntry /\ UNCHANGED runtime
     \/ /\ entry = NoEntry
        /\ runtime' = "closed" /\ UNCHANGED <<entry, granted, told>>
  /\ UNCHANGED <<slot, calls, session, resets>>

-----------------------------------------------------------------------------
CallRuns(c) == Acquire(c) \/ Contexts(c) \/ Grant(c) \/ Create(c) \/ Rollback(c)
SessionRuns(s) == MarkClosed(s) \/ FinishSession(s)
RuntimeRuns == DrainRuntime \/ CloseSessions \/ CleanConfiguration

Next ==
  \/ \E c \in Calls : Begin(c) \/ Cancel(c) \/ Drop(c) \/ Intent(c)
  \/ \E c \in Calls : CallRuns(c) \/ BackgroundReset(c) \/ SessionRuns(c)
  \/ CloseRuntime \/ RuntimeRuns

Spec == Init /\ [][Next]_vars

(* Tokio polls what is ready and Chrome answers; the creation lock is a    *)
(* tokio Mutex, which serves its waiters in turn.                          *)
Fairness ==
  /\ \A c \in Calls :
       /\ WF_vars(CallRuns(c)) /\ SF_vars(Acquire(c))
       /\ WF_vars(BackgroundReset(c)) /\ WF_vars(SessionRuns(c))
  /\ WF_vars(RuntimeRuns)

FairSpec == Spec /\ Fairness

-----------------------------------------------------------------------------
(* The slot, the lock and the entry name calls in a state that fits. *)
TypeOK ==
  /\ runtime \in {"open", "drain", "sessions", "configuration", "closed"}
  /\ slot \in [state : {"NeverCreated", "Open", "Closed"}, current : Calls \cup {NoCall}]
  /\ slot.state = "Open" <=> slot.current # NoCall
  /\ lock \in Calls \cup {NoCall}
  /\ lock # NoCall => pc[lock] \in Running \ {"lock"}
  /\ pc \in [Calls -> Running \cup {"idle", "returned", "ended"}]
  /\ want \in [Calls -> Options]
  /\ got \in [Calls -> Calls \cup {NoCall}]
  /\ held \subseteq {c \in Calls : pc[c] = "returned"}
  /\ session \in [Calls -> {"none", "open", "intent", "drain", "closed"}]
  /\ entry \in [owner : Calls \cup {NoCall}, state : {"none", "pending", "cleaning"}]
  /\ resets \subseteq Calls
  /\ granted \in Calls \cup {NoCall}
  /\ told \in BOOLEAN

(* "Returns the single default-BrowserContext session for this runtime."   *)
(* (BrowserRuntime::default_session): never two at once.                   *)
OneDefaultSession == \A s, t \in Calls : Alive(s) /\ Alive(t) => s = t

(* "Explicitly closing the default session is terminal for its runtime"    *)
(* (BrowserSession): from the close intent on no call returns a session,   *)
(* neither the closed one nor a new one.                                   *)
CloseIsTerminal ==
  [][(\E s \in Calls : session[s] \in {"intent", "drain", "closed"}) => got' = got]_vars

(* Permission overrides that a session or an attempt to create one left in *)
(* the user's own context are reset by the time the runtime is closed, or  *)
(* somebody is told that they were not.                                    *)
PermissionsAreReset == runtime = "closed" => granted = NoCall \/ told

(* BrowserRuntime::close returns while calls come, fail and are aborted. *)
RuntimeCloseReturns == runtime = "drain" ~> runtime = "closed"

=============================================================================
