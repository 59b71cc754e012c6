--------------------------- MODULE ContextCreation ---------------------------
(***************************************************************************)
(* Isolated sessions (isolated_session in runtime/session.rs): a task of    *)
(* its own creates the BrowserContext and hands it over with the guard that *)
(* disposes of it; the caller grants permissions and makes the session,     *)
(* rolls back when a step fails, or is dropped at any await, while sessions *)
(* are closed or dropped and the runtime closes.                            *)
(*                                                                         *)
(* Each call has a context of its own.  What a session owns beside it is in *)
(* ResourceTree, the registry in PendingOwnership.                          *)
(***************************************************************************)
EXTENDS Naturals

CONSTANTS
  Calls,           \* calls of isolated_session
  MaxPermissions   \* bound: permissions asked for

VARIABLES
  want,      \* of each call: its permissions, and whether the browser supports its options
  runtime,   \* open, draining, sessions, contexts or closed
  call,      \* new, asked, creating, granting, starting, undoing; ok, error, aborted
  task,      \* the creation task: none, creating, sent or over
  context,   \* in Chrome: none, open or gone
  entry,     \* in pending_contexts: none, held, retained, cleaning or failed
  cleaner,   \* who cleans the entry: nobody, call, background, session or runtime
  granted,   \* permissions set in the context
  session,   \* none, open, dropped, closing or closed
  told       \* contexts named in an error or a report as left open

contextVars == <<want, runtime, call, task, context, entry, cleaner, granted, session, told>>

Busy == {"asked", "creating", "granting", "starting", "undoing"}

\* The channel's content is dropped: PendingOwnershipGuard::drop.
Schedule(c) ==
  /\ entry' = [entry EXCEPT ![c] = "cleaning"] /\ cleaner' = [cleaner EXCEPT ![c] = "background"]

-----------------------------------------------------------------------------
(* The creation task *)

\* create_isolated_context_owned: the task has an admission of its own.
StartTask(c) ==
  /\ call[c] = "asked"
  /\ IF runtime = "open"
     THEN call' = [call EXCEPT ![c] = "creating"] /\ task' = [task EXCEPT ![c] = "creating"]
     ELSE call' = [call EXCEPT ![c] = "error"] /\ UNCHANGED task
  /\ UNCHANGED <<want, runtime, context, entry, cleaner, granted, session, told>>

\* Chrome creates the context.
Create(c) ==
  /\ task[c] = "creating" /\ context[c] = "none"
  /\ context' = [context EXCEPT ![c] = "open"]
  /\ UNCHANGED <<want, runtime, call, task, entry, cleaner, granted, session, told>>

\* The task cannot create it, and tells whoever still waits.
CreateFails(c) ==
  /\ task[c] = "creating" /\ context[c] = "none"
  /\ task' = [task EXCEPT ![c] = "over"]
  /\ call' = [call EXCEPT ![c] = IF @ = "creating" THEN "error" ELSE @]
  /\ UNCHANGED <<want, runtime, context, entry, cleaner, granted, session, told>>

\* track_pending_context and deliver_owned_creation: the guard is registered
\* first; nobody may be there to receive it.
Deliver(c) ==
  /\ task[c] = "creating" /\ context[c] = "open"
  /\ IF call[c] = "creating"
     THEN /\ task' = [task EXCEPT ![c] = "sent"]
          /\ entry' = [entry EXCEPT ![c] = "held"] /\ UNCHANGED cleaner
     ELSE task' = [task EXCEPT ![c] = "over"] /\ Schedule(c)
  /\ UNCHANGED <<want, runtime, call, context, granted, session, told>>

-----------------------------------------------------------------------------
(* The call *)

\* Mutant: options are not compared with the capabilities.
AdmitAny(c) ==
  /\ call[c] = "new"
  /\ call' = [call EXCEPT ![c] = IF runtime = "open" THEN "asked" ELSE "error"]
  /\ UNCHANGED <<want, runtime, task, context, entry, cleaner, granted, session, told>>

\* admit_operation, then preflight_context.
Admit(c) ==
  /\ call[c] = "new"
  /\ call' = [call EXCEPT ![c] = IF runtime = "open" /\ want[c].supported THEN "asked" ELSE "error"]
  /\ UNCHANGED <<want, runtime, task, context, entry, cleaner, granted, session, told>>

Receive(c) ==
  /\ call[c] = "creating" /\ task[c] = "sent"
  /\ task' = [task EXCEPT ![c] = "over"] /\ call' = [call EXCEPT ![c] = "granting"]
  /\ UNCHANGED <<want, runtime, context, entry, cleaner, granted, session, told>>

StartUndo(c) ==
  /\ call' = [call EXCEPT ![c] = "undoing"]
  /\ entry' = [entry EXCEPT ![c] = "cleaning"] /\ cleaner' = [cleaner EXCEPT ![c] = "call"]

\* apply_permissions, one at a time.
Grant(c) ==
  /\ call[c] = "granting"
  /\ \/ /\ granted[c] < want[c].permissions
        /\ \/ granted' = [granted EXCEPT ![c] = @ + 1] /\ UNCHANGED <<call, entry, cleaner>>
           \/ StartUndo(c) /\ UNCHANGED granted
     \/ /\ granted[c] = want[c].permissions
        /\ call' = [call EXCEPT ![c] = "starting"] /\ UNCHANGED <<granted, entry, cleaner>>
  /\ UNCHANGED <<want, runtime, task, context, session, told>>

\* BrowserSession::new subscribes and asks for targets; then register_session
\* and retain_context, without an await.
NewSession(c) ==
  /\ call[c] = "starting"
  /\ \/ /\ call' = [call EXCEPT ![c] = "ok"]
        /\ session' = [session EXCEPT ![c] = "open"]
        /\ entry' = [entry EXCEPT ![c] = "retained"] /\ UNCHANGED cleaner
     \/ StartUndo(c) /\ UNCHANGED session
  /\ UNCHANGED <<want, runtime, task, context, granted, told>>

\* The caller drops the call at an await: its receiver, its guard or its cleanup,
\* which goes on in the background.
Abort(c) ==
  /\ call[c] \in Busy \ {"asked"}
  /\ call' = [call EXCEPT ![c] = "aborted"]
  /\ IF entry[c] \in {"held", "cleaning"} THEN Schedule(c) ELSE UNCHANGED <<entry, cleaner>>
  /\ task' = [task EXCEPT ![c] = IF @ = "sent" THEN "over" ELSE @]
  /\ UNCHANGED <<want, runtime, context, granted, session, told>>

-----------------------------------------------------------------------------
(* Cleanup: DisposeBrowserContext *)

\* Mutant: cleanup_creation_failure reports the error alone.
DisposeFailsUntold(c) ==
  /\ entry[c] = "cleaning"
  /\ entry' = [entry EXCEPT ![c] = IF cleaner[c] \in {"call", "session"} THEN "none" ELSE "failed"]
  /\ told' = IF cleaner[c] = "session" THEN told \cup {c} ELSE told
  /\ call' = [call EXCEPT ![c] = IF cleaner[c] = "call" THEN "error" ELSE @]
  /\ session' = [session EXCEPT ![c] = IF cleaner[c] = "session" THEN "closed" ELSE @]
  /\ cleaner' = [cleaner EXCEPT ![c] = "nobody"]
  /\ UNCHANGED <<want, runtime, task, context, granted>>

\* Whoever awaits the cleanup is told and takes its completion away; what
\* nobody awaits is left for cleanup_all.
DisposeFails(c) ==
  /\ entry[c] = "cleaning"
  /\ entry' = [entry EXCEPT ![c] = IF cleaner[c] \in {"call", "session"} THEN "none" ELSE "failed"]
  /\ told' = IF cleaner[c] \in {"call", "session"} THEN told \cup {c} ELSE told
  /\ call' = [call EXCEPT ![c] = IF cleaner[c] = "call" THEN "error" ELSE @]
  /\ session' = [session EXCEPT ![c] = IF cleaner[c] = "session" THEN "closed" ELSE @]
  /\ cleaner' = [cleaner EXCEPT ![c] = "nobody"]
  /\ UNCHANGED <<want, runtime, task, context, granted>>

Dispose(c) ==
  /\ entry[c] = "cleaning" /\ runtime # "closed"
  /\ context' = [context EXCEPT ![c] = "gone"] /\ entry' = [entry EXCEPT ![c] = "none"]
  /\ call' = [call EXCEPT ![c] = IF cleaner[c] = "call" THEN "error" ELSE @]
  /\ session' = [session EXCEPT ![c] = IF cleaner[c] = "session" THEN "closed" ELSE @]
  /\ cleaner' = [cleaner EXCEPT ![c] = "nobody"]
  /\ UNCHANGED <<want, runtime, task, granted, told>>

-----------------------------------------------------------------------------
(* Sessions and the runtime *)

\* BrowserSession::close, by its owner or by the runtime.
CloseSession(c) ==
  /\ session[c] = "open" /\ session' = [session EXCEPT ![c] = "closing"]
  /\ entry' = [entry EXCEPT ![c] = "cleaning"] /\ cleaner' = [cleaner EXCEPT ![c] = "session"]
  /\ UNCHANGED <<want, runtime, call, task, context, granted, told>>

\* RetainedOwnership has no drop: the context waits for the runtime's close.
DropSession(c) ==
  /\ session[c] = "open" /\ session' = [session EXCEPT ![c] = "dropped"]
  /\ UNCHANGED <<want, runtime, call, task, context, entry, cleaner, granted, told>>

\* BrowserRuntime::close: start_close; wait_for_drain; the live sessions.
StartClose ==
  /\ runtime = "open" /\ runtime' = "draining"
  /\ UNCHANGED <<want, call, task, context, entry, cleaner, granted, session, told>>

\* Mutant: the creation task is not an operation of the runtime.
DrainedOfCalls == \A c \in Calls : call[c] \notin Busy

Drained == \A c \in Calls : call[c] \notin Busy /\ task[c] # "creating"

Drain ==
  /\ runtime = "draining" /\ Drained /\ runtime' = "sessions"
  /\ UNCHANGED <<want, call, task, context, entry, cleaner, granted, session, told>>

EndSessions ==
  /\ runtime = "sessions" /\ \A c \in Calls : session[c] \notin {"open", "closing"}
  /\ runtime' = "contexts"
  /\ UNCHANGED <<want, call, task, context, entry, cleaner, granted, session, told>>

\* pending_contexts.cleanup_all: what is pending is claimed, what others clean
\* is awaited, the completions are the report's.
Claim(c) ==
  /\ runtime = "contexts" /\ entry[c] = "retained"
  /\ entry' = [entry EXCEPT ![c] = "cleaning"] /\ cleaner' = [cleaner EXCEPT ![c] = "runtime"]
  /\ UNCHANGED <<want, runtime, call, task, context, granted, session, told>>

FinishClose ==
  /\ runtime = "contexts" /\ \A c \in Calls : entry[c] \in {"none", "failed"}
  /\ told' = told \cup {c \in Calls : entry[c] = "failed"}
  /\ entry' = [c \in Calls |-> "none"]
  /\ runtime' = "closed"
  /\ UNCHANGED <<want, call, task, context, cleaner, granted, session>>

-----------------------------------------------------------------------------
(* Specification *)

Init ==
  /\ want \in [Calls -> [permissions : 0 .. MaxPermissions, supported : BOOLEAN]]
  /\ runtime = "open"
  /\ call = [c \in Calls |-> "new"] /\ task = [c \in Calls |-> "none"]
  /\ context = [c \in Calls |-> "none"] /\ entry = [c \in Calls |-> "none"]
  /\ cleaner = [c \in Calls |-> "nobody"] /\ granted = [c \in Calls |-> 0]
  /\ session = [c \in Calls |-> "none"] /\ told = {}

Next ==
  \/ \E c \in Calls :
       \/ Admit(c) \/ StartTask(c) \/ Create(c) \/ CreateFails(c) \/ Deliver(c) \/ Receive(c)
       \/ Grant(c) \/ NewSession(c) \/ Abort(c) \/ Dispose(c) \/ DisposeFails(c)
       \/ CloseSession(c) \/ DropSession(c) \/ Claim(c)
  \/ StartClose \/ Drain \/ EndSessions \/ FinishClose

Spec == Init /\ [][Next]_contextVars

-----------------------------------------------------------------------------
(* Properties *)

\* Whatever was given up and when, a context that a closed runtime leaves open
\* was named to someone.
LeftOpenIsTold ==
  /\ runtime = "closed" => \A c \in Calls : context[c] = "open" => c \in told
  /\ \A c \in Calls : call[c] = "error" /\ context[c] = "open" => c \in told

\* An open context always has an owner that will dispose of it; one that is given
\* up does not wait for the close of the runtime.
OpenIsOwned ==
  \A c \in Calls :
    context[c] = "open" =>
      /\ entry[c] # "none" \/ task[c] = "creating" \/ c \in told
      /\ call[c] = "aborted" /\ task[c] = "over" => entry[c] \in {"cleaning", "failed", "none"}

\* A session in use has its context, with every permission asked for, and the
\* browser supports what was asked.
SessionIsWhole ==
  \A c \in Calls :
    session[c] = "open" =>
      /\ context[c] = "open" /\ entry[c] = "retained" /\ granted[c] = want[c].permissions
      /\ want[c].supported

ContextsAreOwned == LeftOpenIsTold /\ OpenIsOwned /\ SessionIsWhole
=============================================================================
