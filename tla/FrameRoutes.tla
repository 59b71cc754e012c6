----------------------------- MODULE FrameRoutes -----------------------------
(***************************************************************************)
(* The frame store of a page (runtime/frame.rs): which CDP session carries *)
(* the commands of each frame while out-of-process iframes (OOPIFs) attach *)
(* and detach, and the services a new route must receive before it is      *)
(* published: runtime events, file chooser interception, network routes.   *)
(*                                                                         *)
(* Chrome attaches a child session to a frame that moves to another        *)
(* process.  initialize_oopif claims the session, prepares it in several   *)
(* awaited steps and commits the route under the store's lock; meanwhile   *)
(* the detach reducer, the frame reducers and callers that request a       *)
(* service run as tasks of their own.  A parent session's attach reducer   *)
(* handles one attach at a time, so there is one process per session.      *)
(*                                                                         *)
(* Abstracted: loaders and document epochs, execution contexts, route      *)
(* configuration, the page events that are published, and duplicates of an *)
(* attach event, which change nothing.                                     *)
(***************************************************************************)
EXTENDS FiniteSets, Naturals

CONSTANTS
  Frames, Main,          \* the frames of the page and its main frame
  ParentOf,              \* the parent of every other frame
  Dynamic,               \* the frames that may come and go
  Sessions, MainSession, \* child sessions and the session of the page
  MaxFaults,             \* commands that Chrome refuses to a live session
  MaxChoosers,           \* file chooser expectations, one after the other
  DebugAssertions,       \* are debug_assert! arguments evaluated?
  Free                   \* nobody holds the lock

Routes == Sessions \cup {MainSession}

VARIABLES
  \* Chrome
  exists, born,    \* the frames there are, and there ever were
  host,            \* the session of the process a frame is rendered in
  attached,        \* "no", "paused", "yes" or "gone", for a child session
  root,            \* the frame a child session was attached to
  via,             \* the session Target.attachedToTarget arrived on
  detachments,     \* Target.detachedFromTarget events under way
  frameEvents,     \* frameAttached and frameDetached events under way
  faults,          \* commands refused so far
  \* FrameGraph and FrameState
  present, route, active,
  known,           \* FrameState::sessions
  phase, cancelled,\* FrameState::child_sessions
  \* initialize_oopif, per session
  pc, tree, initial,
  \* the page and the services
  terminal,        \* has record_terminal_route_failure been called?
  closing,         \* has FrameStore::cancel been called?
  runtime, network, chooser

chromeVars == <<exists, born, host, attached, root, via, detachments, frameEvents, faults>>
graphVars == <<present, route, active>>
ownerVars == <<known, phase, cancelled>>
taskVars == <<pc, tree, initial>>
pageVars == <<terminal, closing>>
serviceVars == <<runtime, network, chooser>>
vars == <<chromeVars, graphVars, ownerVars, taskVars, pageVars, serviceVars>>

Working == {"prepare", "lock", "runtime", "chooser", "track", "network", "resume",
            "fence", "check", "commit", "nested", "failing", "cleanup", "ack"}
Steps == Working \cup {"unsent", "queued", "done", "foreign", "salvaged", "failed", "panicked"}

TypeOK ==
  /\ exists \subseteq born /\ born \subseteq Frames /\ present \subseteq Frames
  /\ host \in [Frames -> Routes] /\ route \in [Frames -> Routes]
  /\ active \in [Frames -> BOOLEAN]
  /\ attached \in [Sessions -> {"no", "paused", "yes", "gone"}]
  /\ via \in [Sessions -> Routes] /\ root \in [Sessions -> Frames]
  /\ detachments \subseteq Sessions
  /\ frameEvents \subseteq [kind : {"attached", "removed"}, frame : Frames, on : Routes]
  /\ faults \in 0..MaxFaults
  /\ known \subseteq Routes /\ MainSession \in known
  /\ phase \in [Sessions -> {"None", "Initializing", "Active", "Detached"}]
  /\ cancelled \subseteq Sessions
  /\ pc \in [Sessions -> Steps]
  /\ tree \in [Sessions -> SUBSET Frames] /\ initial \in [Sessions -> SUBSET Sessions]
  /\ terminal \in BOOLEAN /\ closing \in BOOLEAN
  /\ runtime \in [lock : Routes \cup {Free}, requested : BOOLEAN, enabled : BOOLEAN,
                   on : SUBSET Routes, todo : SUBSET Routes]
  /\ network \in [lock : Routes \cup {Free}, manager : BOOLEAN,
                   on : SUBSET Routes, todo : SUBSET Routes]
  /\ chooser \in [active : BOOLEAN, generation : 0..MaxChoosers,
                  tracked : SUBSET Routes, on : SUBSET Routes]
  /\ chooser.tracked # {} => chooser.active

-----------------------------------------------------------------------------
(* Frames and sessions, as trees. *)

\* A frame and the frames it is nested in.
Lineage[f \in Frames] == IF f = Main THEN {f} ELSE {f} \cup Lineage[ParentOf[f]]

Under(f) == {g \in Frames : f \in Lineage[g]}

\* Sessions whose ownership has not been given up.
Owned == {s \in Sessions : phase[s] \in {"Initializing", "Active"}}

\* The owned sessions a session was attached through.
Ancestors[s \in Sessions] ==
  IF via[s] \in Owned THEN {via[s]} \cup Ancestors[via[s]] ELSE {}

\* A session and what was attached through it.
Subtree(s) == {t \in Owned : t = s \/ s \in Ancestors[t]}

\* The nearest live session above a session.
LiveParent[s \in Sessions] ==
  IF via[s] \in known THEN via[s]
  ELSE IF via[s] \in Owned THEN LiveParent[via[s]] ELSE MainSession

\* May a frame be routed to a child of the session that carries its parent?
CanRoute(s) ==
  LET f == root[s] p == ParentOf[root[s]]
  IN  /\ p \in present
      /\ route[p] = via[s]
      /\ f \in present => route[f] = via[s]

-----------------------------------------------------------------------------
(* FrameGraph and FrameState: what runs under the store's write lock. *)

\* FrameGraph::attach of a frame the graph does not have: it starts out on the
\* session of the page, whichever session reported it.
GraphAttach(f) ==
  /\ present' = present \cup {f}
  /\ route' = IF f \in present THEN route ELSE [route EXCEPT ![f] = MainSession]
  /\ active' = IF f \in present THEN active ELSE [active EXCEPT ![f] = TRUE]

\* FrameGraph::detach: the frame and everything below it.
GraphDetach(f) ==
  /\ present' = IF f \in present THEN present \ Under(f) ELSE present
  /\ UNCHANGED <<route, active>>

\* route_oopif and merge_tree: every frame of the tree moves to the session,
\* those under a nested OOPIF that has not committed yet stay inactive.
MergeTree(s) ==
  LET provisional == UNION {Under(root[t]) : t \in initial[s]}
  IN  /\ present' = present \cup tree[s] \cup {root[s]}
      /\ route' = [f \in Frames |-> IF f \in tree[s] \cup {root[s]} THEN s ELSE route[f]]
      /\ active' = [f \in Frames |-> IF f \in tree[s] THEN f \notin provisional ELSE active[f]]

\* Mutant: the frames of the sessions below it keep their routes.
RerouteOne(s) ==
  LET gone == Subtree(s)
      freed == {t \in gone : phase[t] = "Active"}
  IN  IF s \notin Owned THEN UNCHANGED <<graphVars, ownerVars>>
      ELSE /\ route' = [f \in Frames |-> IF f \in present /\ route[f] = s
                                         THEN LiveParent[s] ELSE route[f]]
           /\ known' = known \ gone
           /\ cancelled' = cancelled \cup gone
           /\ phase' = [t \in Sessions |-> IF t \in freed THEN "None"
                                           ELSE IF t \in gone THEN "Detached" ELSE phase[t]]
           /\ UNCHANGED <<present, active>>

\* FrameState::detach_child_session.  An initialization under way keeps its
\* entry, as Detached, until it acknowledges.
DetachChildSession(s) ==
  LET gone == Subtree(s)
      freed == {t \in gone : phase[t] = "Active"}
  IN  IF s \notin Owned THEN UNCHANGED <<graphVars, ownerVars>>
      ELSE /\ route' = [f \in Frames |-> IF f \in present /\ route[f] \in gone
                                         THEN LiveParent[s] ELSE route[f]]
           /\ known' = known \ gone
           /\ cancelled' = cancelled \cup gone
           /\ phase' = [t \in Sessions |-> IF t \in freed THEN "None"
                                           ELSE IF t \in gone THEN "Detached" ELSE phase[t]]
           /\ UNCHANGED <<present, active>>

-----------------------------------------------------------------------------
(* The reducers of a session and the task that initializes its route. *)

Goto(s, step) == pc' = [pc EXCEPT ![s] = step]

\* The frame and attach reducers of a session run once its route is published.
Reduces(p) == ~closing /\ IF p = MainSession THEN TRUE ELSE pc[p] = "done" /\ p \notin cancelled

\* The children that were attached before the fence are handled by the task
\* of their parent, the later ones by its reducer; one at a time.
Nested(s) == via[s] \in Sessions /\ pc[via[s]] = "nested" /\ s \in initial[via[s]]
MayBegin(s) ==
  /\ pc[s] = "queued"
  /\ \/ Nested(s) /\ \A t \in initial[via[s]] : pc[t] # "failed"
     \/ Reduces(via[s])
  /\ \A t \in Sessions : t # s /\ via[t] = via[s] => pc[t] \notin Working \cup {"panicked"}

Gone(S) == [s \in Sessions |-> IF s \in S THEN "gone" ELSE attached[s]]

\* Chrome ends a session on request.
Detach(s) ==
  IF attached[s] \in {"paused", "yes"}
  THEN attached' = Gone({s}) /\ detachments' = detachments \cup {s}
  ELSE UNCHANGED <<attached, detachments>>

\* salvage_unadmitted_attached_target, once the page has failed.
Salvage(s) ==
  /\ MayBegin(s) /\ ~Nested(s) /\ terminal
  /\ Detach(s)
  /\ Goto(s, "salvaged")
  /\ UNCHANGED <<exists, born, host, root, via, frameEvents, faults, graphVars, ownerVars,
                 tree, initial, pageVars, serviceVars>>

\* begin_oopif_attach: a child of a frame that this page routes elsewhere is
\* resumed and left alone.
Foreign(s) == ~(ParentOf[root[s]] \in present /\ route[ParentOf[root[s]]] = via[s])
LeaveForeign(s) ==
  /\ MayBegin(s) /\ (Nested(s) \/ ~terminal)
  /\ Foreign(s)
  /\ attached' = [attached EXCEPT ![s] = IF @ = "paused" THEN "yes" ELSE @]
  /\ host' = IF attached[s] = "paused" THEN [host EXCEPT ![root[s]] = s] ELSE host
  /\ Goto(s, "foreign")
  /\ UNCHANGED <<exists, born, root, via, detachments, frameEvents, faults, graphVars, ownerVars,
                 tree, initial, pageVars, serviceVars>>

\* The frame still has a route of its own: the session is detached and the
\* attach fails.
Unavailable(s) ==
  /\ MayBegin(s) /\ (Nested(s) \/ ~terminal)
  /\ ~Foreign(s) /\ ~CanRoute(s)
  /\ Detach(s)
  /\ Goto(s, "failed")
  /\ terminal' = (terminal \/ ~Nested(s))
  /\ UNCHANGED <<exists, born, host, root, via, frameEvents, faults, graphVars, ownerVars,
                 tree, initial, closing, serviceVars>>

Begin(s) ==
  /\ MayBegin(s) /\ (Nested(s) \/ ~terminal)
  /\ CanRoute(s)
  /\ phase' = [phase EXCEPT ![s] = "Initializing"]
  /\ Goto(s, "prepare")
  /\ UNCHANGED <<chromeVars, graphVars, known, cancelled, tree, initial, pageVars, serviceVars>>

Cancelled(s) == closing \/ s \in cancelled
Answered(s) == attached[s] # "gone"

\* Does the step send a command to the session?
Sends(s) ==
  \/ pc[s] \in {"prepare", "resume", "fence"}
  \/ pc[s] = "runtime" /\ runtime.requested
  \/ pc[s] = "chooser" /\ chooser.active
  \/ pc[s] = "track" /\ ~chooser.active
  \/ pc[s] = "network" /\ network.lock = Free /\ network.manager

Prepare(s) ==
  /\ pc[s] = "prepare" /\ ~Cancelled(s) /\ Answered(s)
  /\ Goto(s, "lock")
  /\ UNCHANGED <<chromeVars, graphVars, ownerVars, tree, initial, pageVars, serviceVars>>

\* Mutant: the lock covers its own step only.
LockBriefly(s) ==
  /\ pc[s] = "lock" /\ ~Cancelled(s) /\ runtime.lock = Free
  /\ Goto(s, "runtime")
  /\ UNCHANGED <<chromeVars, graphVars, ownerVars, tree, initial, pageVars, serviceVars>>

\* The lock is held until the route is committed or has failed.
LockRuntime(s) ==
  /\ pc[s] = "lock" /\ ~Cancelled(s) /\ runtime.lock = Free
  /\ runtime' = [runtime EXCEPT !.lock = s]
  /\ Goto(s, "runtime")
  /\ UNCHANGED <<chromeVars, graphVars, ownerVars, tree, initial, pageVars, network, chooser>>

ReplayRuntime(s) ==
  /\ pc[s] = "runtime" /\ (Sends(s) => Answered(s))
  /\ runtime' = IF runtime.requested THEN [runtime EXCEPT !.on = @ \cup {s}] ELSE runtime
  /\ Goto(s, "chooser")
  /\ UNCHANGED <<chromeVars, graphVars, ownerVars, tree, initial, pageVars, network, chooser>>

\* enable_file_chooser_for_new_route, up to the answer to its command.
ReplayChooser(s) ==
  /\ pc[s] = "chooser" /\ (Sends(s) => Answered(s))
  /\ chooser' = IF chooser.active THEN [chooser EXCEPT !.on = @ \cup {s}] ELSE chooser
  /\ Goto(s, IF chooser.active THEN "track" ELSE "network")
  /\ UNCHANGED <<chromeVars, graphVars, ownerVars, tree, initial, pageVars, runtime, network>>

\* Mutant: it does not ask again.
TrackAlways(s) ==
  /\ pc[s] = "track"
  /\ chooser' = [chooser EXCEPT !.tracked = @ \cup {s}]
  /\ Goto(s, "network")
  /\ UNCHANGED <<chromeVars, graphVars, ownerVars, tree, initial, pageVars, runtime, network>>

\* It asks again whether somebody still expects a chooser.
TrackChooser(s) ==
  /\ pc[s] = "track" /\ (Sends(s) => Answered(s))
  /\ chooser' = IF chooser.active THEN [chooser EXCEPT !.tracked = @ \cup {s}]
                ELSE [chooser EXCEPT !.on = @ \ {s}]
  /\ Goto(s, "network")
  /\ UNCHANGED <<chromeVars, graphVars, ownerVars, tree, initial, pageVars, runtime, network>>

AddRoute(s) ==
  /\ pc[s] = "network" /\ network.lock = Free /\ (Sends(s) => Answered(s))
  /\ network' = IF network.manager THEN [network EXCEPT !.on = @ \cup {s}] ELSE network
  /\ Goto(s, "resume")
  /\ UNCHANGED <<chromeVars, graphVars, ownerVars, tree, initial, pageVars, runtime, chooser>>

\* SetAutoAttach and runIfWaitingForDebugger: the document of the frame loads.
Resume(s) ==
  /\ pc[s] = "resume" /\ Answered(s)
  /\ attached' = [attached EXCEPT ![s] = "yes"]
  /\ host' = [host EXCEPT ![root[s]] = s]
  /\ Goto(s, "fence")
  /\ UNCHANGED <<exists, born, root, via, detachments, frameEvents, faults, graphVars, ownerVars,
                 tree, initial, pageVars, serviceVars>>

\* The answer to getFrameTree orders the nested attach events before it.
Fence(s) ==
  /\ pc[s] = "fence" /\ Answered(s)
  /\ tree' = [tree EXCEPT ![s] = {f \in exists : host[f] = s}]
  /\ initial' = [initial EXCEPT ![s] = {t \in Sessions : pc[t] = "queued" /\ via[t] = s}]
  /\ Goto(s, "check")
  /\ UNCHANGED <<chromeVars, graphVars, ownerVars, pageVars, serviceVars>>

\* Read under the read lock; the commit takes the write lock afterwards.
Check(s) ==
  /\ pc[s] = "check" /\ ~Cancelled(s) /\ phase[s] = "Initializing"
  /\ Goto(s, "commit")
  /\ UNCHANGED <<chromeVars, graphVars, ownerVars, tree, initial, pageVars, serviceVars>>

\* debug_assert!(activate_oopif_attach(..)) is not evaluated in a release build.
Activate(s) ==
  IF DebugAssertions /\ phase[s] = "Initializing" THEN [phase EXCEPT ![s] = "Active"] ELSE phase

Commit(s) ==
  /\ pc[s] = "commit" /\ CanRoute(s)
  /\ MergeTree(s)
  /\ known' = known \cup {s}
  /\ phase' = Activate(s)
  /\ Goto(s, IF DebugAssertions /\ phase[s] # "Initializing" THEN "panicked" ELSE "nested")
  /\ runtime' = [runtime EXCEPT !.lock = Free]
  /\ UNCHANGED <<chromeVars, cancelled, tree, initial, pageVars, network, chooser>>

\* Every child attached before the fence is initialized or left: publish.
Publish(s) ==
  /\ pc[s] = "nested" /\ \A t \in initial[s] : pc[t] \in {"done", "foreign"}
  /\ Goto(s, "done")
  /\ UNCHANGED <<chromeVars, graphVars, ownerVars, tree, initial, pageVars, serviceVars>>

-----------------------------------------------------------------------------
(* fail_oopif_initialization. *)

\* A command on a session that is gone, or that Chrome refuses.
CommandFails(s) ==
  /\ Sends(s)
  /\ \/ ~Answered(s) /\ UNCHANGED faults
     \/ Answered(s) /\ faults < MaxFaults /\ faults' = faults + 1
  /\ Goto(s, "failing")
  /\ UNCHANGED <<exists, born, host, attached, root, via, detachments, frameEvents, graphVars, ownerVars,
                 tree, initial, pageVars, serviceVars>>

\* The claim was cancelled, detached, or its parent is routed elsewhere.
GiveUp(s) ==
  /\ \/ pc[s] \in {"prepare", "lock"} /\ Cancelled(s)
     \/ pc[s] = "check" /\ (Cancelled(s) \/ phase[s] # "Initializing")
     \/ pc[s] = "commit" /\ ~CanRoute(s)
  /\ Goto(s, "failing")
  /\ UNCHANGED <<chromeVars, graphVars, ownerVars, tree, initial, pageVars, serviceVars>>

\* A child that was attached before the fence failed: the parent does, too.
NestedFails(s) ==
  /\ pc[s] = "nested"
  /\ \E t \in initial[s] : pc[t] = "failed"
  /\ \A t \in initial[s] : pc[t] \notin Working
  /\ DetachChildSession(s)
  /\ Goto(s, "failing")
  /\ UNCHANGED <<chromeVars, tree, initial, pageVars, serviceVars>>

\* abandon_oopif_attach
Abandon(s) ==
  IF phase[s] = "Initializing"
  THEN phase' = [phase EXCEPT ![s] = "Detached"] /\ cancelled' = cancelled \cup {s}
  ELSE UNCHANGED <<phase, cancelled>>

\* The first half of fail_oopif_initialization; the rest waits for Chrome.
Rollback(s) ==
  /\ pc[s] = "failing"
  /\ network' = [network EXCEPT !.on = @ \ {s}]
  /\ Abandon(s)
  /\ Goto(s, "cleanup")
  /\ UNCHANGED <<chromeVars, graphVars, known, tree, initial, pageVars, runtime, chooser>>

Cleanup(s) ==
  /\ pc[s] = "cleanup"
  /\ Detach(s)
  /\ Goto(s, "ack")
  /\ UNCHANGED <<exists, born, host, root, via, frameEvents, faults, graphVars, ownerVars,
                 tree, initial, pageVars, serviceVars>>

Acknowledge(s) ==
  /\ pc[s] = "ack"
  /\ phase' = [phase EXCEPT ![s] = IF @ \in {"Initializing", "Detached"} THEN "None" ELSE @]
  /\ cancelled' = IF phase[s] = "Initializing" THEN cancelled \cup {s} ELSE cancelled
  /\ runtime' = IF runtime.lock = s THEN [runtime EXCEPT !.lock = Free] ELSE runtime
  /\ terminal' = (terminal \/ ~Nested(s))
  /\ Goto(s, "failed")
  /\ UNCHANGED <<chromeVars, graphVars, known, tree, initial, closing, network, chooser>>

-----------------------------------------------------------------------------
(* The other tasks of the store. *)

\* Mutant: the network manager keeps the route.
DetachedQuietly(s) ==
  /\ s \in detachments /\ ~closing
  /\ detachments' = detachments \ {s}
  /\ DetachChildSession(s)
  /\ UNCHANGED <<exists, born, host, attached, root, via, frameEvents, faults, taskVars,
                 pageVars, serviceVars>>

\* The target_detached task: one event, its whole handler.
DetachedFromTarget(s) ==
  /\ s \in detachments /\ ~closing
  /\ detachments' = detachments \ {s}
  /\ DetachChildSession(s)
  /\ network' = [network EXCEPT !.on = @ \ {s}]
  /\ UNCHANGED <<exists, born, host, attached, root, via, frameEvents, faults, taskVars, pageVars,
                 runtime, chooser>>

\* The frame reducer of a session, frameAttached and frameDetached.
ReduceFrame(e) ==
  /\ e \in frameEvents /\ Reduces(e.on)
  /\ e.kind = "removed" => [e EXCEPT !.kind = "attached"] \notin frameEvents
  /\ frameEvents' = frameEvents \ {e}
  /\ IF e.kind = "attached" THEN GraphAttach(e.frame) ELSE GraphDetach(e.frame)
  /\ UNCHANGED <<exists, born, host, attached, root, via, detachments, faults, ownerVars, taskVars,
                 pageVars, serviceVars>>

\* enable_runtime_events: the lock covers the sessions read and the commands.
EnableRuntime ==
  /\ runtime.lock = Free /\ ~runtime.enabled /\ ~runtime.requested
  /\ runtime' = [runtime EXCEPT !.lock = MainSession, !.requested = TRUE, !.todo = known]
  /\ UNCHANGED <<chromeVars, graphVars, ownerVars, taskVars, pageVars, network, chooser>>

RuntimeEnabled ==
  /\ runtime.lock = MainSession
  /\ LET alive == {s \in runtime.todo : s = MainSession \/ Answered(s)}
     IN  runtime' = [runtime EXCEPT !.lock = Free, !.todo = {}, !.on = @ \cup alive,
                                    !.enabled = (alive = runtime.todo)]
  /\ UNCHANGED <<chromeVars, graphVars, ownerVars, taskVars, pageVars, network, chooser>>

\* enable_network: under the network lock alone.
EnableNetwork ==
  /\ network.lock = Free /\ ~network.manager
  /\ network' = [network EXCEPT !.lock = MainSession, !.todo = known]
  /\ UNCHANGED <<chromeVars, graphVars, ownerVars, taskVars, pageVars, runtime, chooser>>

NetworkEnabled ==
  /\ network.lock = MainSession
  /\ LET alive == \A s \in network.todo : s = MainSession \/ Answered(s)
     IN  network' = [network EXCEPT !.lock = Free, !.todo = {}, !.manager = alive,
                                    !.on = IF alive THEN network.todo ELSE @]
  /\ UNCHANGED <<chromeVars, graphVars, ownerVars, taskVars, pageVars, runtime, chooser>>

\* begin_file_chooser_interception: every session, or rolled back.
BeginChooser ==
  /\ ~chooser.active /\ chooser.generation < MaxChoosers
  /\ LET alive == {s \in known : s = MainSession \/ Answered(s)}
     IN  chooser' = IF alive = known
                    THEN [active |-> TRUE, generation |-> chooser.generation + 1,
                          tracked |-> known, on |-> chooser.on \cup known]
                    ELSE [chooser EXCEPT !.generation = @ + 1]
  /\ UNCHANGED <<chromeVars, graphVars, ownerVars, taskVars, pageVars, runtime, network>>

\* end_file_chooser_interception: a session that does not answer stays tracked,
\* and the expectation active.
EndChooser ==
  /\ chooser.active
  /\ LET silent == {s \in chooser.tracked : s # MainSession /\ ~Answered(s)}
     IN  chooser' = [chooser EXCEPT !.active = (silent # {}), !.tracked = silent,
                                    !.on = @ \ (chooser.tracked \ silent)]
  /\ UNCHANGED <<chromeVars, graphVars, ownerVars, taskVars, pageVars, runtime, network>>

\* FrameStore::cancel
Cancel ==
  /\ ~closing
  /\ closing' = TRUE
  /\ UNCHANGED <<chromeVars, graphVars, ownerVars, taskVars, terminal, serviceVars>>

-----------------------------------------------------------------------------
(* Chrome: the page's frames and what it attaches for them. *)

\* Events of a session count from the time the store subscribes to them.
Observed(p) == p = MainSession \/ pc[p] \notin {"unsent", "queued", "prepare"}
Say(kind, f) ==
  LET on == host[ParentOf[f]]
  IN  frameEvents' = IF Observed(on) THEN frameEvents \cup {[kind |-> kind, frame |-> f, on |-> on]}
                     ELSE frameEvents

FrameAppears(f) ==
  /\ f \in Dynamic \ born /\ ParentOf[f] \in exists
  /\ born' = born \cup {f} /\ exists' = exists \cup {f}
  /\ host' = [host EXCEPT ![f] = host[ParentOf[f]]]
  /\ Say("attached", f)
  /\ UNCHANGED <<attached, root, via, detachments, faults, graphVars, ownerVars, taskVars, pageVars,
                 serviceVars>>

\* The sessions that end with a set of frames.
SessionsOf(F) == {s \in Sessions : root[s] \in F /\ attached[s] \in {"paused", "yes"}}

FrameRemoved(f) ==
  /\ f \in Dynamic \cap exists
  /\ exists' = exists \ Under(f)
  /\ attached' = Gone(SessionsOf(Under(f)))
  /\ detachments' = detachments \cup SessionsOf(Under(f))
  /\ Say("removed", f)
  /\ UNCHANGED <<born, host, root, via, faults, graphVars, ownerVars, taskVars, pageVars, serviceVars>>

\* A frame without children starts to load a document of another process.
TargetAttached(s, f) ==
  LET p == host[ParentOf[f]]
  IN  /\ attached[s] = "no" /\ f \in exists /\ host[f] = p
      /\ Under(f) \cap exists = {f} /\ SessionsOf({f}) = {}
      /\ p # MainSession => pc[p] \in {"fence", "check", "commit", "nested", "done"}
      /\ attached' = [attached EXCEPT ![s] = "paused"]
      /\ via' = [via EXCEPT ![s] = p] /\ root' = [root EXCEPT ![s] = f]
      /\ Goto(s, "queued")
      /\ UNCHANGED <<exists, born, host, detachments, frameEvents, faults, graphVars,
                     ownerVars, tree, initial, pageVars, serviceVars>>

\* The frame returns to the process of its parent.
TargetReturns(s) ==
  LET f == root[s] below == Under(root[s]) \ {root[s]}
  IN  /\ attached[s] \in {"paused", "yes"}
      /\ exists' = exists \ below
      /\ attached' = Gone({s} \cup SessionsOf(below))
      /\ detachments' = detachments \cup {s} \cup SessionsOf(below)
      /\ host' = [host EXCEPT ![f] = host[ParentOf[f]]]
      /\ frameEvents' = IF Observed(host[f]) /\ host[f] = s
                        THEN frameEvents \cup [kind : {"removed"}, frame : below \cap exists, on : {s}]
                        ELSE frameEvents
      /\ UNCHANGED <<born, root, via, faults, graphVars, ownerVars, taskVars, pageVars, serviceVars>>

Init ==
  /\ exists = Frames \ UNION {Under(f) : f \in Dynamic}
  /\ born = exists /\ present = exists
  /\ host = [f \in Frames |-> MainSession] /\ route = host
  /\ active = [f \in Frames |-> TRUE]
  /\ attached = [s \in Sessions |-> "no"] 
  /\ via = [s \in Sessions |-> MainSession] /\ root = [s \in Sessions |-> Main]
  /\ detachments = {} /\ frameEvents = {} /\ faults = 0
  /\ known = {MainSession} /\ phase = [s \in Sessions |-> "None"] /\ cancelled = {}
  /\ pc = [s \in Sessions |-> "unsent"]
  /\ tree = [s \in Sessions |-> {}] /\ initial = [s \in Sessions |-> {}]
  /\ terminal = FALSE /\ closing = FALSE
  /\ runtime = [lock |-> Free, requested |-> FALSE, enabled |-> FALSE, on |-> {}, todo |-> {}]
  /\ network = [lock |-> Free, manager |-> FALSE, on |-> {}, todo |-> {}]
  /\ chooser = [active |-> FALSE, generation |-> 0, tracked |-> {}, on |-> {}]

Chrome == \/ \E f \in Frames \ {Main} :
                FrameAppears(f) \/ FrameRemoved(f) \/ \E s \in Sessions : TargetAttached(s, f)
          \/ \E s \in Sessions : TargetReturns(s)

\* What the task that handles the attach of a session does.
Task(s) ==
  \/ Salvage(s) \/ LeaveForeign(s) \/ Unavailable(s) \/ Begin(s)
  \/ Prepare(s) \/ LockRuntime(s) \/ ReplayRuntime(s) \/ ReplayChooser(s) \/ TrackChooser(s)
  \/ AddRoute(s) \/ Resume(s) \/ Fence(s) \/ Check(s) \/ Commit(s) \/ Publish(s)
  \/ (~Answered(s) /\ CommandFails(s)) \/ GiveUp(s) \/ NestedFails(s)
  \/ Rollback(s) \/ Cleanup(s) \/ Acknowledge(s)

Refused(s) == Answered(s) /\ CommandFails(s)

Reducers == (\E s \in Sessions : DetachedFromTarget(s)) \/ (\E e \in frameEvents : ReduceFrame(e))

Callers == EnableRuntime \/ EnableNetwork \/ BeginChooser \/ EndChooser \/ Cancel

Next == \/ Chrome \/ Reducers \/ Callers \/ RuntimeEnabled \/ NetworkEnabled
        \/ \E s \in Sessions : Task(s) \/ Refused(s)

Spec == Init /\ [][Next]_vars

-----------------------------------------------------------------------------
(* Properties. *)

\* A command for a frame finds a session, and only frames below the frame of a
\* child session are sent there: detach_child_session moves the routes of a
\* whole session subtree to a live ancestor, whatever is being attached.
RoutesResolve ==
  \A f \in present : /\ route[f] \in known
                     /\ route[f] \in Sessions => root[route[f]] \in Lineage[f]

\* Once enable_runtime_events has succeeded, every published session reports its
\* execution contexts, those that were being initialized meanwhile included.
RuntimeEverywhere == runtime.enabled => known \subseteq runtime.on

\* An interception that is on in Chrome is one the page will turn off: it is
\* tracked by the active expectation, or its session is about to be detached.
InterceptionTracked ==
  \A s \in chooser.on : (s = MainSession \/ Answered(s)) =>
     \/ chooser.active /\ s \in chooser.tracked
     \/ s \in Sessions /\ pc[s] \in {"track", "failing", "cleanup"}

\* The network manager keeps no route of a session that failed or was detached:
\* such a route would never report idle again.
NetworkRoutesLive ==
  \A s \in network.on \ {MainSession} :
     s \in known \/ pc[s] \in Working \/ s \in detachments \/ closing

\* Every route that commands or network events are sent by is live, however
\* attaches, detaches and failures of nested sessions interleave.
RoutesAreLive == RoutesResolve /\ NetworkRoutesLive

\* What a caller switched on reaches the sessions that come later, and what it
\* switched off stays on in none of them.
ServicesReachRoutes == RuntimeEverywhere /\ InterceptionTracked

\* Nothing is initialized, under way or left.
Quiet ==
  /\ frameEvents = {} /\ detachments = {}
  /\ \A s \in Sessions : pc[s] \in {"unsent", "done"}

\* Frame::cdp_session: the page session for in-process frames and the attached
\* child session for out-of-process frames.  A frame that shares the process of
\* its parent is reached through the session that reaches the parent.
ChildSharesRoute ==
  Quiet => \A f \in (exists \cap present) \ {Main} :
     /\ ParentOf[f] \in present /\ host[f] = host[ParentOf[f]]
     /\ route[ParentOf[f]] = host[f]
     => route[f] = host[f]

\* Commands and events of a frame go by a live session that has the services
\* that were asked for, whatever attaches, detaches or fails meanwhile.
RoutesServeTheirFrames == RoutesAreLive /\ ServicesReachRoutes
=============================================================================
