----------------------------- MODULE ResourceTree -----------------------------
(***************************************************************************)
(* The ownership tree of src/runtime: a BrowserRuntime, one BrowserSession *)
(* of either kind and the pages it creates.  new_page calls, their aborted *)
(* callers, page operations, Chrome's own closing of targets, the target   *)
(* lifecycle task and the three levels of close() interleave.              *)
(*                                                                         *)
(* Gates and the ownership registry appear as OperationGate and            *)
(* PendingOwnership promise them: close intent, a drain, one cleanup per   *)
(* target.  A CDP command and the handling of its answer are one step      *)
(* unless something can come between them.                                 *)
(***************************************************************************)
EXTENDS Naturals, Sequences, FiniteSets

CONSTANTS
  Pages,           \* pages, each the target of one new_page call
  Sessions,        \* the sessions considered, see SessionOptions
  NoPage

(* SessionKind, close_pages_before_context of an isolated session, and     *)
(* whether the user may drop the handle of the session.                    *)
SessionOptions == [kind : {"Default", "Isolated"}, pagesFirst : BOOLEAN, drops : BOOLEAN]

\* The sessions of the runs: a default session with its handle kept, an isolated
\* one that closes its pages first, a default session whose handle may be dropped.
DefaultSession == [kind |-> "Default", pagesFirst |-> FALSE, drops |-> FALSE]
PagesFirstSession == [kind |-> "Isolated", pagesFirst |-> TRUE, drops |-> TRUE]
Polled == {DefaultSession, PagesFirstSession}
Dropped == {[DefaultSession EXCEPT !.drops = TRUE]}

ASSUME TreeAssumption ==
  /\ IsFiniteSet(Pages)
  /\ Sessions \subseteq SessionOptions
  /\ NoPage \notin Pages /\ "next" \notin Pages

VARIABLES
  runtime,    \* how far BrowserRuntime::close is
  session,    \* how far BrowserSession::close is
  options,    \* what session this is
  handle,     \* whether the user holds a session handle
  context,    \* the BrowserContext of the session: alive, gone, or failed to go
  op,         \* new_page: where its caller and its cleanup owner are
  waiting,    \* the new_page calls whose caller waits for the result
  creator,    \* the task create_target_owned spawns
  lock,       \* page_attach_lock: the new_page that holds it
  target,     \* Chrome's target of the page
  registry,   \* the PendingOwnershipRegistry entry of the target
  page,       \* how far the page is: none, open, drain, act, closed, failed
  body,       \* the close body that won the page's CloseCoordinator
  pages,      \* BrowserSessionInner.pages
  busy,       \* pages with an admitted operation
  fenced,     \* those whose operation holds a session permit too
  events,     \* Target events the lifecycle task has not read
  known,      \* known_targets
  watcher,    \* the lifecycle task: next, or the page it looks up or closes
  ledger,     \* PageCreationCleanupLedger
  sweep,      \* the pages a session close still has to visit
  visit,      \* the page it waits for
  failed,     \* the failures in the report of the session close
  surfaced    \* history: what some caller was told could not be cleaned

closers == <<runtime, session, options, handle, context, sweep, visit, failed>>
creation == <<op, waiting, creator, lock>>
paged == <<page, body, pages, busy, fenced>>
watched == <<events, known, watcher>>
vars == <<closers, creation, target, registry, paged, watched, ledger, surfaced>>

OpStates == {"idle", "lock", "create", "init", "configure", "cleanup", "ended"}
Context == "context"            \* the BrowserContext as an item of surfaced

Isolated == options.kind = "Isolated"

(* new_page holds its permits from admission until its cleanup owner ends, *)
(* and the creating task holds its own.                                    *)
Creating(p) == op[p] \in OpStates \ {"idle", "ended"} \/ creator[p] \in {"sent", "answered"}
Open == runtime = "open" /\ session = "open"

(* Weak::upgrade of the session succeeds: somebody holds a strong one. *)
Upgradable ==
  \/ handle = "held"
  \/ session \notin {"open", "closed"}
  \/ watcher # "next"
  \/ \E p \in Pages : creator[p] \in {"sent", "answered"}

Init ==
  /\ runtime = "open" /\ session = "open" /\ handle = "held"
  /\ options \in Sessions
  /\ context = IF Isolated THEN "alive" ELSE "none"
  /\ op = [p \in Pages |-> "idle"]
  /\ waiting = {}
  /\ creator = [p \in Pages |-> "none"]
  /\ lock = NoPage
  /\ target = [p \in Pages |-> "absent"]
  /\ registry = [p \in Pages |-> "none"]
  /\ page = [p \in Pages |-> "none"]
  /\ body = [p \in Pages |-> "none"]
  /\ pages = {} /\ busy = {} /\ fenced = {}
  /\ events = <<>> /\ known = {} /\ watcher = "next"
  /\ ledger = {} /\ sweep = {} /\ visit = NoPage /\ failed = {} /\ surfaced = {}

-----------------------------------------------------------------------------
(* Chrome. *)

(* CloseTarget for p while the connection is up: the target is gone and    *)
(* announced, or it was gone already.                                      *)
TargetCloses(p) ==
  \/ /\ target[p] = "alive" /\ runtime # "closed"
     /\ target' = [target EXCEPT ![p] = "gone"]
     /\ events' = Append(events, [kind |-> "destroyed", page |-> p])
  \/ target[p] = "gone" /\ runtime # "closed" /\ UNCHANGED <<target, events>>

(* A tab is closed or crashes on its own. *)
DestroyTarget(p) ==
  /\ target[p] = "alive"
  /\ target' = [target EXCEPT ![p] = "gone"]
  /\ events' = Append(events, [kind |-> "destroyed", page |-> p])
  /\ UNCHANGED <<closers, creation, registry, paged, known, watcher, ledger, surfaced>>

-----------------------------------------------------------------------------
(* BrowserSession::new_page and PageCreationTransaction. *)

NewPage(p) ==
  /\ op[p] = "idle" /\ Open /\ handle = "held"
  /\ op' = [op EXCEPT ![p] = "lock"]
  /\ waiting' = waiting \cup {p}
  /\ UNCHANGED <<closers, creator, lock, target, registry, paged, watched, ledger, surfaced>>

(* page_attach_lock, then create_target_owned admits and spawns its task. *)
TakeLock(p) ==
  /\ op[p] = "lock" /\ lock = NoPage
  /\ \/ /\ Open
        /\ lock' = p
        /\ op' = [op EXCEPT ![p] = "create"]
        /\ creator' = [creator EXCEPT ![p] = "sent"]
        /\ UNCHANGED waiting
     \/ /\ ~Open
        /\ op' = [op EXCEPT ![p] = "ended"]
        /\ waiting' = waiting \ {p}
        /\ UNCHANGED <<lock, creator>>
  /\ UNCHANGED <<closers, target, registry, paged, watched, ledger, surfaced>>

ChromeCreates(p) ==
  /\ creator[p] = "sent"
  /\ target' = [target EXCEPT ![p] = "alive"]
  /\ events' = Append(events, [kind |-> "created", page |-> p])
  /\ creator' = [creator EXCEPT ![p] = "answered"]
  /\ UNCHANGED <<closers, op, waiting, lock, registry, paged, known, watcher, ledger, surfaced>>

(* mutant: a guard nobody receives is forgotten *)
DeliverOrForget(p) ==
  /\ creator[p] = "answered"
  /\ creator' = [creator EXCEPT ![p] = "delivered"]
  /\ registry' = [registry EXCEPT ![p] = IF op[p] = "create" THEN "armed" ELSE "none"]
  /\ UNCHANGED <<closers, op, waiting, lock, target, paged, watched, ledger, surfaced>>

(* The task registers ownership and delivers it; a guard nobody receives   *)
(* is dropped, which schedules its cleanup.                                *)
Deliver(p) ==
  /\ creator[p] = "answered"
  /\ creator' = [creator EXCEPT ![p] = "delivered"]
  /\ registry' = [registry EXCEPT ![p] = IF op[p] = "create" THEN "armed" ELSE "scheduled"]
  /\ UNCHANGED <<closers, op, waiting, lock, target, paged, watched, ledger, surfaced>>

CreateFails(p) ==
  /\ creator[p] = "sent"
  /\ creator' = [creator EXCEPT ![p] = "failed"]
  /\ UNCHANGED <<closers, op, waiting, lock, target, registry, paged, watched, ledger, surfaced>>

Unlocked(p) == IF lock = p THEN NoPage ELSE lock

Receive(p) ==
  /\ op[p] = "create"
  /\ \/ /\ creator[p] = "delivered"
        /\ op' = [op EXCEPT ![p] = "init"]
        /\ UNCHANGED <<waiting, lock>>
     \/ /\ creator[p] = "failed"
        /\ op' = [op EXCEPT ![p] = "ended"]
        /\ waiting' = waiting \ {p}
        /\ lock' = Unlocked(p)
  /\ UNCHANGED <<closers, creator, target, registry, paged, watched, ledger, surfaced>>

(* AttachToTarget, then the page admits its own initialisation: both may fail. *)
Initialize(p) ==
  /\ op[p] = "init"
  /\ op' = [op EXCEPT ![p] = IF Open THEN "configure" ELSE "cleanup"]
  /\ UNCHANGED <<closers, waiting, creator, lock, target, registry, paged, watched, ledger, surfaced>>

Fail(p) ==
  /\ op[p] \in {"init", "configure"}
  /\ op' = [op EXCEPT ![p] = "cleanup"]
  /\ UNCHANGED <<closers, waiting, creator, lock, target, registry, paged, watched, ledger, surfaced>>

(* finish_success: no await between handing ownership over, publishing     *)
(* the page and dropping the permits.                                      *)
Publish(p) ==
  /\ op[p] = "configure"
  /\ op' = [op EXCEPT ![p] = "ended"]
  /\ waiting' = waiting \ {p}
  /\ lock' = Unlocked(p)
  /\ registry' = [registry EXCEPT ![p] = IF Isolated THEN "none" ELSE "retained"]
  /\ page' = [page EXCEPT ![p] = "open"]
  /\ pages' = pages \cup {p}
  /\ UNCHANGED <<closers, creator, target, body, busy, fenced, watched, ledger, surfaced>>

(* mutant: an aborted caller leaves the attach lock taken *)
CancelLocked(p) ==
  /\ p \in waiting
  /\ waiting' = waiting \ {p}
  /\ op' = [op EXCEPT ![p] = IF @ \in {"init", "configure", "cleanup"} THEN "cleanup" ELSE "ended"]
  /\ registry' = [registry EXCEPT ![p] =
                    IF op[p] = "create" /\ creator[p] = "delivered" THEN "scheduled" ELSE @]
  /\ UNCHANGED <<closers, creator, lock, target, paged, watched, ledger, surfaced>>

(* The caller of new_page is aborted at an await. *)
Cancel(p) ==
  /\ p \in waiting
  /\ waiting' = waiting \ {p}
  /\ lock' = Unlocked(p)
  /\ op' = [op EXCEPT ![p] = IF @ \in {"init", "configure", "cleanup"} THEN "cleanup" ELSE "ended"]
  /\ registry' = [registry EXCEPT ![p] =
                    IF op[p] = "create" /\ creator[p] = "delivered" THEN "scheduled" ELSE @]
  /\ UNCHANGED <<closers, creator, target, paged, watched, ledger, surfaced>>

(* PageCreationCleanupOwner::run, under the permits of the transaction. *)
CleanupCreation(p) ==
  /\ op[p] = "cleanup"
  /\ op' = [op EXCEPT ![p] = "ended"]
  /\ waiting' = waiting \ {p}
  /\ lock' = Unlocked(p)
  /\ registry' = [registry EXCEPT ![p] = "none"]
  /\ \/ TargetCloses(p) /\ UNCHANGED <<ledger, surfaced>>
     \/ /\ ledger' = ledger \cup {p}
        /\ surfaced' = IF p \in waiting THEN surfaced \cup {p} ELSE surfaced
        /\ UNCHANGED <<target, events>>
  /\ UNCHANGED <<closers, creator, paged, known, watcher>>

(* A cleanup the registry scheduled; it keeps a failure for cleanup_all. *)
RunScheduled(p) ==
  /\ registry[p] = "scheduled"
  /\ \/ TargetCloses(p) /\ registry' = [registry EXCEPT ![p] = "none"]
     \/ /\ registry' = [registry EXCEPT ![p] = "failed"]
        /\ UNCHANGED <<target, events>>
  /\ UNCHANGED <<closers, creation, paged, known, watcher, ledger, surfaced>>

-----------------------------------------------------------------------------
(* Page operations and Page::close, mark_closed_by_session and             *)
(* close_after_target_destroyed, which share one CloseCoordinator.         *)

Finished(p) == page[p] \in {"closed", "failed"}

(* Permits of the runtime, of the session if it still is there, of the page. *)
BeginOperation(p) ==
  /\ page[p] = "open" /\ p \notin busy
  /\ runtime = "open" /\ (Upgradable => session = "open")
  /\ busy' = busy \cup {p}
  /\ fenced' = IF Upgradable THEN fenced \cup {p} ELSE fenced
  /\ UNCHANGED <<closers, creation, target, registry, page, body, pages, watched, ledger, surfaced>>

EndOperation(p) ==
  /\ p \in busy
  /\ busy' = busy \ {p} /\ fenced' = fenced \ {p}
  /\ UNCHANGED <<closers, creation, target, registry, page, body, pages, watched, ledger, surfaced>>

StartClose(p, b) ==
  /\ page[p] = "open"
  /\ page' = [page EXCEPT ![p] = "drain"]
  /\ body' = [body EXCEPT ![p] = b]

ClosePage(p) ==
  /\ StartClose(p, "close")
  /\ UNCHANGED <<closers, creation, target, registry, pages, busy, fenced, watched, ledger, surfaced>>

DrainPage(p) ==
  /\ page[p] = "drain" /\ p \notin busy
  /\ page' = [page EXCEPT ![p] = "act"]
  /\ UNCHANGED <<closers, creation, target, registry, body, pages, busy, fenced, watched, ledger, surfaced>>

Forget(p) == IF Upgradable THEN pages \ {p} ELSE pages   \* remove_page_and_publish_closed

(* Page::close of a created page: the retained cleanup, or CloseTarget     *)
(* itself; an entry cleanup_all took first counts as closed.  Only a       *)
(* complete report removes the page.                                       *)
FinishClose(p) ==
  /\ page[p] = "act" /\ body[p] = "close"
  /\ registry' = [registry EXCEPT ![p] = "none"]
  /\ LET mine == registry[p] = "retained" \/ Isolated
     IN \/ /\ IF mine THEN TargetCloses(p) ELSE UNCHANGED <<target, events>>
           /\ page' = [page EXCEPT ![p] = "closed"]
           /\ pages' = Forget(p)
           /\ UNCHANGED surfaced
        \/ /\ mine
           /\ page' = [page EXCEPT ![p] = "failed"]
           /\ surfaced' = surfaced \cup {p}
           /\ UNCHANGED <<pages, target, events>>
  /\ UNCHANGED <<closers, creation, body, busy, fenced, known, watcher, ledger>>

(* The target is gone with its context, or was destroyed: disarm. *)
FinishGone(p) ==
  /\ page[p] = "act" /\ body[p] \in {"session", "destroyed"}
  /\ registry' = [registry EXCEPT ![p] = "none"]
  /\ page' = [page EXCEPT ![p] = "closed"]
  /\ pages' = Forget(p)
  /\ UNCHANGED <<closers, creation, target, body, busy, fenced, watched, ledger, surfaced>>

-----------------------------------------------------------------------------
(* spawn_target_lifecycle: one event at a time, until the session closed.  *)

ReadEvent ==
  /\ watcher = "next" /\ events # <<>> /\ Upgradable /\ session # "closed"
  /\ events' = Tail(events)
  /\ LET p == Head(events).page
     IN IF Head(events).kind = "created"
        THEN known' = known \cup {p} /\ UNCHANGED watcher
        ELSE /\ known' = known \ {p}
             /\ watcher' = IF p \in known \cup pages THEN p ELSE watcher
  /\ UNCHANGED <<closers, creation, target, registry, paged, ledger, surfaced>>

(* mutant: the page is looked up without page_attach_lock *)
LookUpUnlocked(p) ==
  /\ watcher = p
  /\ \/ p \notin pages /\ watcher' = "next" /\ UNCHANGED <<page, body>>
     \/ p \in pages /\ StartClose(p, "destroyed") /\ UNCHANGED watcher
  /\ UNCHANGED <<closers, creation, target, registry, pages, busy, fenced, events, known, ledger, surfaced>>

(* Under page_attach_lock, so that a page being created is seen once it is *)
(* published.                                                              *)
LookUp(p) ==
  /\ watcher = p /\ lock = NoPage
  /\ \/ /\ p \notin pages
        /\ watcher' = "next"
        /\ UNCHANGED <<page, body>>
     \/ /\ p \in pages
        /\ StartClose(p, "destroyed")
        /\ UNCHANGED watcher
  /\ UNCHANGED <<closers, creation, target, registry, pages, busy, fenced, events, known, ledger, surfaced>>

(* The lifecycle task awaits the report of the page's close. *)
Watched(p) ==
  /\ watcher = p /\ Finished(p)
  /\ watcher' = "next"
  /\ UNCHANGED <<closers, creation, target, registry, paged, events, known, ledger, surfaced>>

-----------------------------------------------------------------------------
(* BrowserSession::close. *)

DropHandle ==
  /\ options.drops /\ handle = "held" /\ waiting = {}
  /\ handle' = "dropped"
  /\ UNCHANGED <<runtime, session, options, context, sweep, visit, failed, creation, target, registry, paged, watched, ledger, surfaced>>

CloseSession ==
  /\ session = "open" /\ handle = "held"
  /\ session' = "drain"
  /\ UNCHANGED <<runtime, options, handle, context, sweep, visit, failed, creation, target, registry, paged, watched, ledger, surfaced>>

(* mutant: the failures of page creation stay in the ledger *)
DrainQuietly ==
  /\ session = "drain" /\ fenced = {} /\ \A p \in Pages : ~Creating(p)
  /\ session' = "sweep"
  /\ sweep' = pages
  /\ UNCHANGED <<runtime, options, handle, context, visit, failed, creation, target, registry, paged, watched, ledger, surfaced>>

(* mutant: the creating tasks and the rollbacks hold no permit *)
DrainCallersOnly ==
  /\ session = "drain" /\ fenced = {} /\ \A p \in Pages : p \notin waiting
  /\ session' = "sweep"
  /\ sweep' = pages
  /\ ledger' = {}
  /\ failed' = ledger
  /\ surfaced' = surfaced \cup ledger
  /\ UNCHANGED <<runtime, options, handle, context, visit, creation, target, registry, paged, watched>>

(* wait_for_drain, the snapshot of the pages, the ledger's failures. *)
DrainSession ==
  /\ session = "drain" /\ fenced = {} /\ \A p \in Pages : ~Creating(p)
  /\ session' = "sweep"
  /\ sweep' = pages
  /\ ledger' = {}
  /\ failed' = ledger
  /\ surfaced' = surfaced \cup ledger
  /\ UNCHANGED <<runtime, options, handle, context, visit, creation, target, registry, paged, watched>>

(* pending_targets.cleanup_all: it holds the targets of isolated sessions. *)
SweepPending ==
  LET left == {p \in Pages : registry[p] = "failed"}
  IN /\ session = "sweep"
     /\ \/ /\ ~Isolated
           /\ UNCHANGED <<registry, failed, surfaced>>
        \/ /\ Isolated /\ \A p \in Pages : registry[p] # "scheduled"
           /\ registry' = [p \in Pages |-> IF p \in left THEN "none" ELSE registry[p]]
           /\ failed' = failed \cup left
           /\ surfaced' = surfaced \cup left
     /\ session' = IF ~Isolated \/ options.pagesFirst THEN "pages" ELSE "context"
     /\ UNCHANGED <<runtime, options, handle, context, sweep, visit, creation, target, paged, watched, ledger>>

(* The pages one after the other: close() them, or mark them closed. *)
VisitPage(p) ==
  /\ session \in {"pages", "mark"} /\ visit = NoPage /\ p \in sweep
  /\ visit' = p
  /\ sweep' = sweep \ {p}
  /\ \/ StartClose(p, IF session = "pages" THEN "close" ELSE "session")
     \/ page[p] # "open" /\ UNCHANGED <<page, body>>
  /\ UNCHANGED <<runtime, session, options, handle, context, failed, creation, target, registry, pages, busy, fenced, watched, ledger, surfaced>>

LeaveUnmerged(p) == \* mutant: the page's report is not merged
  /\ visit = p /\ Finished(p)
  /\ visit' = NoPage
  /\ UNCHANGED <<runtime, session, options, handle, context, sweep, failed, creation, target, registry, paged, watched, ledger, surfaced>>

LeavePage(p) ==
  /\ visit = p /\ Finished(p)
  /\ visit' = NoPage
  /\ failed' = IF page[p] = "failed" THEN failed \cup {p} ELSE failed
  /\ UNCHANGED <<runtime, session, options, handle, context, sweep, creation, target, registry, paged, watched, ledger, surfaced>>

EndVisits ==
  /\ session \in {"pages", "mark"} /\ visit = NoPage /\ sweep = {}
  /\ session' = IF session = "pages" /\ Isolated THEN "context" ELSE "end"
  /\ UNCHANGED <<runtime, options, handle, context, sweep, visit, failed, creation, target, registry, paged, watched, ledger, surfaced>>

(* DisposeBrowserContext closes every target of the context, announced in  *)
(* any order, or fails.                                                    *)
Disposed ==
  LET dying == {p \in Pages : target[p] = "alive"}
  IN /\ context' = "gone"
     /\ target' = [p \in Pages |-> IF p \in dying THEN "gone" ELSE target[p]]
     /\ \E order \in [1..Cardinality(dying) -> dying] :
          /\ \A i, j \in DOMAIN order : order[i] = order[j] => i = j
          /\ events' = events \o [i \in DOMAIN order |-> [kind |-> "destroyed", page |-> order[i]]]
     /\ UNCHANGED surfaced

NotDisposed ==
  /\ context' = "failed"
  /\ surfaced' = surfaced \cup {Context}
  /\ UNCHANGED <<target, events>>

DisposeContext ==
  /\ session = "context"
  /\ \/ Disposed /\ session' = (IF options.pagesFirst THEN "end" ELSE "mark") /\ UNCHANGED failed
     \/ NotDisposed /\ session' = "end" /\ failed' = failed \cup {Context}
  /\ UNCHANGED <<runtime, options, handle, sweep, visit, creation, registry, paged, known, watcher, ledger>>

EndSession ==
  /\ session = "end"
  /\ session' = "closed"
  /\ pages' = IF failed = {} THEN {} ELSE pages
  /\ UNCHANGED <<runtime, options, handle, context, sweep, visit, failed, creation, target, registry, page, body, busy, fenced, watched, ledger, surfaced>>

-----------------------------------------------------------------------------
(* BrowserRuntime::close. *)

CloseRuntime ==
  /\ runtime = "open"
  /\ runtime' = "drain"
  /\ UNCHANGED <<session, options, handle, context, sweep, visit, failed, creation, target, registry, paged, watched, ledger, surfaced>>

DrainRuntime ==
  /\ runtime = "drain" /\ busy = {} /\ \A p \in Pages : ~Creating(p)
  /\ runtime' = "sessions"
  /\ UNCHANGED <<session, options, handle, context, sweep, visit, failed, creation, target, registry, paged, watched, ledger, surfaced>>

(* A session that is still there is closed; its report is shared. *)
CloseLiveSession ==
  /\ runtime = "sessions"
  /\ \/ /\ Upgradable /\ session = "open"
        /\ session' = "drain" /\ UNCHANGED runtime
     \/ /\ ~Upgradable \/ session = "closed"
        /\ runtime' = "targets" /\ UNCHANGED session
  /\ UNCHANGED <<options, handle, context, sweep, visit, failed, creation, target, registry, paged, watched, ledger, surfaced>>

(* owned_targets.cleanup_all: it holds the targets of the default session. *)
CleanTarget(p) ==
  /\ runtime = "targets" /\ ~Isolated /\ registry[p] \in {"retained", "failed"}
  /\ registry' = [registry EXCEPT ![p] = "none"]
  /\ \/ /\ registry[p] = "retained" /\ TargetCloses(p) /\ UNCHANGED surfaced
     \/ /\ surfaced' = surfaced \cup {p}
        /\ UNCHANGED <<target, events>>
  /\ UNCHANGED <<closers, creation, paged, known, watcher, ledger>>

EndTargets ==
  /\ runtime = "targets"
  /\ ~Isolated => \A p \in Pages : registry[p] = "none"
  /\ runtime' = "contexts"
  /\ UNCHANGED <<session, options, handle, context, sweep, visit, failed, creation, target, registry, paged, watched, ledger, surfaced>>

(* pending_contexts.cleanup_all: the context of a session nobody closed;   *)
(* then the CDP connection is closed.                                      *)
CleanContext ==
  /\ runtime = "contexts"
  /\ \/ context = "alive" /\ (Disposed \/ NotDisposed)
     \/ context # "alive" /\ UNCHANGED <<context, target, events, surfaced>>
  /\ runtime' = "closed"
  /\ UNCHANGED <<session, options, handle, sweep, visit, failed, creation, registry, paged, known, watcher, ledger>>

-----------------------------------------------------------------------------
CreationRuns(p) ==
  \/ TakeLock(p) \/ ChromeCreates(p) \/ CreateFails(p) \/ Deliver(p) \/ Receive(p)
  \/ Initialize(p) \/ Fail(p) \/ Publish(p) \/ CleanupCreation(p) \/ RunScheduled(p)
PageRuns(p) == EndOperation(p) \/ DrainPage(p) \/ FinishClose(p) \/ FinishGone(p)
WatcherRuns == ReadEvent \/ \E p \in Pages : LookUp(p) \/ Watched(p)
SessionRuns ==
  \/ DrainSession \/ SweepPending \/ EndVisits \/ DisposeContext \/ EndSession
  \/ \E p \in Pages : VisitPage(p) \/ LeavePage(p)
RuntimeRuns ==
  \/ DrainRuntime \/ CloseLiveSession \/ EndTargets \/ CleanContext
  \/ \E p \in Pages : CleanTarget(p)
Calls ==
  \/ DropHandle \/ CloseSession \/ CloseRuntime
  \/ \E p \in Pages : NewPage(p) \/ Cancel(p) \/ BeginOperation(p) \/ ClosePage(p) \/ DestroyTarget(p)

Next ==
  \/ Calls \/ WatcherRuns \/ SessionRuns \/ RuntimeRuns
  \/ \E p \in Pages : CreationRuns(p) \/ PageRuns(p)

Spec == Init /\ [][Next]_vars

(* Tokio polls what is ready, Chrome answers or the command's deadline     *)
(* passes, and a page operation has a timeout.  Nobody has to call, abort  *)
(* or destroy anything.  A waiter of page_attach_lock is served in turn.   *)
Fairness ==
  /\ \A p \in Pages : WF_vars(CreationRuns(p)) /\ SF_vars(TakeLock(p)) /\ WF_vars(PageRuns(p))
  /\ SF_vars(WatcherRuns)
  /\ WF_vars(SessionRuns)
  /\ WF_vars(RuntimeRuns)

FairSpec == Spec /\ Fairness

-----------------------------------------------------------------------------
(* Every level of the tree is in one of its states. *)
TypeOK ==
  /\ runtime \in {"open", "drain", "sessions", "targets", "contexts", "closed"}
  /\ session \in {"open", "drain", "sweep", "pages", "context", "mark", "end", "closed"}
  /\ options \in Sessions
  /\ handle \in {"held", "dropped"}
  /\ context \in {"none", "alive", "gone", "failed"}
  /\ op \in [Pages -> OpStates]
  /\ creator \in [Pages -> {"none", "sent", "answered", "delivered", "failed"}]
  /\ target \in [Pages -> {"absent", "alive", "gone"}]
  /\ registry \in [Pages -> {"none", "armed", "retained", "scheduled", "failed"}]
  /\ page \in [Pages -> {"none", "open", "drain", "act", "closed", "failed"}]
  /\ body \in [Pages -> {"none", "close", "session", "destroyed"}]
  /\ lock \in Pages \cup {NoPage} /\ visit \in Pages \cup {NoPage}
  /\ watcher \in Pages \cup {"next"}
  /\ waiting \subseteq Pages /\ pages \subseteq Pages /\ sweep \subseteq Pages
  /\ fenced \subseteq busy /\ busy \subseteq Pages
  /\ known \subseteq Pages /\ ledger \subseteq Pages
  /\ failed \subseteq Pages \cup {Context} /\ surfaced \subseteq Pages \cup {Context}
  /\ events \in Seq([kind : {"created", "destroyed"}, page : Pages])

(* Cleanup of a level starts after the operations that hold its permits,   *)
(* the rollback of failed or aborted page creations included.              *)
CleanupFollowsOperations ==
  /\ runtime \notin {"open", "drain"} => busy = {} /\ \A p \in Pages : ~Creating(p)
  /\ session \notin {"open", "drain"} => fenced = {} /\ \A p \in Pages : ~Creating(p)
  /\ \A p \in busy : page[p] \in {"open", "drain"}

(* "the root runtime retains remote ownership" (README.md): a live target  *)
(* this code created is in a registry, in the runtime's care through its   *)
(* context, or known to somebody as a failure.                             *)
OwnershipRetained ==
  \A p \in Pages :
    target[p] = "alive" /\ creator[p] = "delivered" =>
      \/ registry[p] # "none"
      \/ context = "alive"
      \/ p \in ledger
      \/ p \in surfaced \/ Context \in surfaced

(* BrowserSession::close: "Closes resources owned by this session and      *)
(* returns all cleanup outcomes": without a failure in its report every    *)
(* page it published has lost its target.                                  *)
CompleteCloseIsHonest ==
  session = "closed" /\ failed = {} =>
    \A p \in Pages : page[p] # "none" => target[p] = "gone"

(* "Dropping a child handle performs no protocol I/O, but the root runtime *)
(* retains remote ownership and cleans created targets" (README.md): when  *)
(* the runtime is closed, a target that survived was reported to somebody. *)
NoSilentOrphan ==
  runtime = "closed" =>
    \A p \in Pages : target[p] = "alive" => p \in surfaced \/ Context \in surfaced

(* BrowserRuntime::close returns, whatever else goes on. *)
RuntimeCloseReturns == runtime = "drain" ~> runtime = "closed"

(* A page whose target is destroyed is closed by the lifecycle task, even  *)
(* when that happens while new_page is still initialising it.              *)
DestroyedPageCloses ==
  \A p \in Pages :
    (p \in pages /\ target[p] = "gone") ~> (page[p] # "open" \/ session # "open" \/ handle = "dropped")
=============================================================================
