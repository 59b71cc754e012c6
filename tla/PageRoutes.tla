------------------------------ MODULE PageRoutes ------------------------------
(***************************************************************************)
(* The overrides of a context (viewport, locale, headers, ...) installed on *)
(* a page's main session and on the sessions of its out-of-process iframes, *)
(* and undone when the installation fails, its caller gives up, the iframe  *)
(* detaches or the page closes (runtime/route.rs).                          *)
(*                                                                          *)
(* Abstracted: the value of an override; that an undo is run once, by       *)
(* whoever wants it, is PendingOwnership's.                                 *)
(***************************************************************************)
EXTENDS Naturals, Sequences, SequencesExt, FiniteSets

CONSTANTS
  Main, Frames,   \* the page's session, and its iframes' sessions
  OptionSets,     \* sets of options a context may have
  None

VARIABLES
  options,     \* options of the context
  route,       \* per session: none, applying, guarded, retained, cleaning, closed, failed, absent
  applied,     \* per session: AppliedRouteConfiguration
  todo,        \* per session: steps yet to apply or to undo
  override,    \* per session: steps in force in Chrome
  undone,      \* per session: steps whose undo failed
  live,        \* sessions Chrome still has
  closing      \* the page's close: open, closing, destroyed or closed

routeVars == <<options, route, applied, todo, override, undone, live, closing>>

Sessions == {Main} \cup Frames
\* What an option asks for; the viewport is the main session's alone.
Wanted(step, s) ==
  CASE step = "DeviceMetrics" -> "DeviceMetrics" \in options /\ s = Main
    [] step \in {"Network", "ExtraHttpHeaders"} -> "ExtraHttpHeaders" \in options
    [] step \in {"Security", "IgnoreCertificateErrors"} -> "IgnoreCertificateErrors" \in options
    [] OTHER -> step \in options
\* apply_route: the steps that are wanted, one after the other.
StepsOf(s) ==
  LET Perhaps(step) == IF Wanted(step, s) THEN <<step>> ELSE <<>>
  IN Perhaps("DeviceMetrics") \o Perhaps("Locale") \o Perhaps("Timezone")
       \o Perhaps("UserAgent") \o Perhaps("Geolocation") \o Perhaps("Network")
       \o Perhaps("ExtraHttpHeaders") \o Perhaps("Security")
       \o Perhaps("IgnoreCertificateErrors")

\* has_main_route_configuration and has_every_route_configuration.
Needed(s) == IF s = Main THEN options # {} ELSE options \ {"DeviceMetrics"} # {}

\* What is in force once Chrome has done a step; disabling a domain ends what
\* was set through it.
Undoes(step) ==
  CASE step = "Network" -> {"Network", "ExtraHttpHeaders"}
    [] step = "Security" -> {"Security", "IgnoreCertificateErrors"}
    [] OTHER -> {step}

-----------------------------------------------------------------------------
(* Installation *)

\* prepare_main_route and configure_oopif_route: the guard is registered before
\* the first command.
Register(s) ==
  /\ closing = "open" /\ route[s] = "none" /\ s \in live
  /\ route' = [route EXCEPT ![s] = IF Needed(s) THEN "applying" ELSE "absent"]
  /\ todo' = [todo EXCEPT ![s] = StepsOf(s)]
  /\ UNCHANGED <<options, applied, override, undone, live, closing>>

\* apply_route, one step: mark, then the command.
Apply(s) ==
  /\ route[s] = "applying" /\ todo[s] # <<>> /\ applied[s] \o todo[s] = StepsOf(s)
  /\ applied' = [applied EXCEPT ![s] = Append(@, Head(todo[s]))]
  /\ UNCHANGED <<options, route, todo, override, undone, live, closing>>

\* Mutant: the step is marked once its command is answered.
AnsweredMarkedLate(s) ==
  /\ route[s] = "applying" /\ applied[s] \o todo[s] # StepsOf(s) /\ s \in live
  /\ override' = [override EXCEPT ![s] = @ \cup {Head(todo[s])}]
  /\ \/ todo' = [todo EXCEPT ![s] = Tail(@)] /\ UNCHANGED <<applied, route>>
     \/ /\ applied' = [applied EXCEPT ![s] = Front(@)]
        /\ route' = [route EXCEPT ![s] = "cleaning"]
        /\ todo' = [todo EXCEPT ![s] = Reverse(Front(applied[s]))]
  /\ UNCHANGED <<options, undone, live, closing>>

StartsUndo(s) ==
  /\ route' = [route EXCEPT ![s] = "cleaning"]
  /\ todo' = [todo EXCEPT ![s] = Reverse(applied[s])]

\* Chrome does the command, and is heard or not (an error, a lost answer, a
\* caller that gives up: rollback_failure or the drop of the guard).
Answered(s) ==
  /\ route[s] = "applying" /\ applied[s] \o todo[s] # StepsOf(s)
  /\ \/ /\ s \in live
        /\ override' = [override EXCEPT ![s] = @ \cup {Head(todo[s])}]
        /\ \/ todo' = [todo EXCEPT ![s] = Tail(@)] /\ UNCHANGED route
           \/ StartsUndo(s)
     \/ StartsUndo(s) /\ UNCHANGED override
  /\ UNCHANGED <<options, applied, undone, live, closing>>

Applied(s) ==
  /\ route[s] = "applying" /\ todo[s] = <<>>
  /\ route' = [route EXCEPT ![s] = "guarded"]
  /\ UNCHANGED <<options, applied, todo, override, undone, live, closing>>

\* RouteConfigurationGuard::retain, or its cleanup or drop when what is built on
\* the route fails.
Retain(s) ==
  /\ route[s] = "guarded"
  /\ \/ route' = [route EXCEPT ![s] = "retained"] /\ UNCHANGED todo
     \/ StartsUndo(s)
  /\ UNCHANGED <<options, applied, override, undone, live, closing>>

-----------------------------------------------------------------------------
(* Undoing *)

\* Mutant: the undo ends at the first command that fails.
UndoUntilFailure(s) ==
  /\ route[s] = "cleaning" /\ todo[s] # <<>>
  /\ \/ s \in live /\ override' = [override EXCEPT ![s] = @ \ Undoes(Head(todo[s]))] /\ UNCHANGED undone
        /\ todo' = [todo EXCEPT ![s] = Tail(@)]
     \/ undone' = [undone EXCEPT ![s] = @ \cup {Head(todo[s])}] /\ UNCHANGED override
        /\ todo' = [todo EXCEPT ![s] = <<>>]
  /\ UNCHANGED <<options, route, applied, live, closing>>

\* rollback_route: the marked steps from the last to the first, each tried
\* whatever became of the others.
Undo(s) ==
  /\ route[s] = "cleaning" /\ todo[s] # <<>>
  /\ \/ s \in live /\ override' = [override EXCEPT ![s] = @ \ Undoes(Head(todo[s]))] /\ UNCHANGED undone
     \/ undone' = [undone EXCEPT ![s] = @ \cup {Head(todo[s])}] /\ UNCHANGED override
  /\ todo' = [todo EXCEPT ![s] = Tail(@)]
  /\ UNCHANGED <<options, route, applied, live, closing>>

Undone(s) ==
  /\ route[s] = "cleaning" /\ todo[s] = <<>>
  /\ route' = [route EXCEPT ![s] = IF undone[s] = {} THEN "closed" ELSE "failed"]
  /\ UNCHANGED <<options, applied, todo, override, undone, live, closing>>

\* schedule and cleanup of one session, when its iframe has detached or its
\* initialization has failed later.
CleanOne(s) ==
  /\ s \in Frames /\ route[s] = "retained" /\ StartsUndo(s)
  /\ UNCHANGED <<options, applied, override, undone, live, closing>>

\* cleanup_all tries what is retained and, again, what has failed; what is being
\* installed is an operation of the page, which its close waits for.
Open(s) == route[s] \in {"retained", "failed"}

BeginClose(how) ==
  /\ closing = "open"
  /\ \A s \in Sessions : route[s] \notin {"applying", "guarded"}
  /\ closing' = how
  /\ live' = IF how = "destroyed" THEN {} ELSE live
  /\ route' = [s \in Sessions |-> IF how = "closing" /\ Open(s) THEN "cleaning" ELSE route[s]]
  /\ todo' = [s \in Sessions |-> IF how = "closing" /\ Open(s) THEN Reverse(applied[s]) ELSE todo[s]]
  /\ undone' = [s \in Sessions |-> IF how = "closing" /\ Open(s) THEN {} ELSE undone[s]]
  /\ UNCHANGED <<options, applied, override>>

\* The report of cleanup_all, or finalize_destroyed_route: what is retained is
\* abandoned with the target.
Close ==
  /\ \/ closing = "closing" /\ UNCHANGED <<route, override>>
     \/ /\ closing = "destroyed" /\ override' = [s \in Sessions |-> {}]
        /\ route' = [s \in Sessions |-> IF route[s] \in {"retained", "failed"} THEN "closed" ELSE route[s]]
  /\ \A s \in Sessions : route[s] # "cleaning"
  /\ closing' = "closed"
  /\ UNCHANGED <<options, applied, todo, undone, live>>

\* An iframe's session ends.
Detach(s) ==
  /\ s \in live /\ s \in Frames
  /\ live' = live \ {s} /\ override' = [override EXCEPT ![s] = {}]
  /\ UNCHANGED <<options, route, applied, todo, undone, closing>>

-----------------------------------------------------------------------------
(* Specification *)

RouteInit ==
  /\ options \in OptionSets
  /\ route = [s \in Sessions |-> "none"] /\ applied = [s \in Sessions |-> <<>>]
  /\ todo = [s \in Sessions |-> <<>>] /\ override = [s \in Sessions |-> {}]
  /\ undone = [s \in Sessions |-> {}] /\ live = Sessions /\ closing = "open"

RouteNext ==
  \/ \E s \in Sessions :
       \/ Register(s) \/ Apply(s) \/ Answered(s) \/ Applied(s) \/ Retain(s) \/ Undo(s) \/ Undone(s)
       \/ CleanOne(s) \/ Detach(s)
  \/ \E how \in {"closing", "destroyed"} : BeginClose(how)
  \/ Close

RouteSpec == RouteInit /\ [][RouteNext]_routeVars

-----------------------------------------------------------------------------
(* Properties *)

\* A route in use has every override the context asks for, the viewport on the
\* main session alone.
InForce ==
  \A s \in live : route[s] \in {"guarded", "retained"} => override[s] = ToSet(StepsOf(s))

\* What is undone leaves nothing in force but the steps whose own undo failed,
\* wherever the installation was given up.
UndoneIsClean ==
  \A s \in Sessions :
    /\ route[s] = "closed" => override[s] = {}
    /\ route[s] = "failed" => override[s] \subseteq undone[s]

\* A page that is closed leaves no override behind without saying so.
CloseIsComplete ==
  closing = "closed" => \A s \in Sessions : override[s] # {} => route[s] = "failed"

ConfigurationIsExact == InForce /\ UndoneIsClean /\ CloseIsComplete

-----------------------------------------------------------------------------
(***************************************************************************)
(* The workers and other targets that Chrome attaches to a page by itself   *)
(* (AuxiliaryTargetRegistry and FrameStore of runtime/frame.rs): a worker   *)
(* that waits for the debugger is given its network route and configuration *)
(* and let run, anything else is let go, and both against the detachment of *)
(* targets and the close of the page (runtime/page.rs).                     *)
(*                                                                          *)
(* Iframes are in FrameRoutes.  Abstracted: a target is its session; the    *)
(* drain of a network route is one step; a cleanup that fails is told once  *)
(* (PendingOwnership).                                                      *)
(***************************************************************************)
CONSTANTS
  Targets,        \* sessions of targets attached by Chrome
  Kinds,          \* worker, shared, other, malformed, unnamed, blank
  Page            \* the page's own session

VARIABLES
  kind, parent, waiting, \* of each target, as Chrome announces it
  needs,       \* whether the context options configure auxiliary targets
  asked,       \* network_requested
  chrome,      \* of each target: none, attached or gone
  paused, configured, \* of each target in Chrome
  inbox, reader, job, \* per session: its stream, its reader, the target it is at and where
  record,      \* auxiliary_targets: None, or whether a route is marked and whether it is retained
  routes,      \* sessions with a network route
  detached, detacher, \* the stream of detachments, and the target it is at
  page, report, \* the close of the page
  terminal,    \* a terminal route failure is recorded
  repeated     \* bound: one announcement is repeated

auVars == <<kind, parent, waiting, needs, asked, chrome, paused, configured, inbox, reader, job,
            record, routes, detached, detacher, page, report, terminal, repeated>>

Readers == Targets \cup {Page}
\* auxiliary_targets' records, and what a reader is at.
Records == [route : BOOLEAN, retained : BOOLEAN]
Jobs == [target : Targets, admitted : BOOLEAN, failed : BOOLEAN,
         pc : {"resume", "detach", "blank", "begin", "again", "unneeded", "take", "route", "mark",
               "configure", "run", "retain", "failed", "failedPaused", "salvage", "drop"}]
given == <<kind, parent, waiting, needs, repeated>>
Auxiliary(t) == kind[t] \in {"worker", "shared"}
At(r, pc) == job[r] # None /\ job[r].pc = pc
Of(r) == job[r].target
Goes(r, pc) == job' = [job EXCEPT ![r].pc = pc]
Admitted(r) == job[r] # None /\ job[r].admitted

\* The handler returns: without error, or with one that is terminal for the page.
Ends(r) == job' = [job EXCEPT ![r] = None] /\ UNCHANGED terminal
Fails(r) == job' = [job EXCEPT ![r] = None] /\ terminal' = TRUE

-----------------------------------------------------------------------------
(* The readers of announcements *)

\* spawn_target_attach_reducer: what is announced once the page closes or has
\* failed is salvaged, and a closing page's reader ends.
Read(r) ==
  /\ reader[r] = "running" /\ job[r] = None /\ inbox[r] # <<>>
  /\ LET t == Head(inbox[r])
         admitted == ~terminal /\ page = "open"
     IN job' = [job EXCEPT ![r] =
          [target |-> t, admitted |-> admitted, failed |-> FALSE,
           pc |-> IF admitted /\ Auxiliary(t) THEN "begin"
                  ELSE CASE kind[t] = "unnamed" -> "detach" [] kind[t] = "blank" -> "blank"
                         [] OTHER -> "resume"]]
  /\ inbox' = [inbox EXCEPT ![r] = Tail(@)]
  /\ reader' = [reader EXCEPT ![r] = IF ~terminal /\ page # "open" THEN "ended" ELSE @]
  /\ UNCHANGED <<given, asked, chrome, paused, configured, record, routes, detached, detacher, page,
                 report, terminal>>

\* FrameStore::cancel, between two announcements.
ReaderStops(r) ==
  /\ reader[r] = "running" /\ job[r] = None /\ page # "open"
  /\ reader' = [reader EXCEPT ![r] = "ended"]
  /\ UNCHANGED <<given, asked, chrome, paused, configured, inbox, job, record, routes, detached,
                 detacher, page, report, terminal>>

\* resume_paused_target: a no-op for a target that does not wait; a target
\* whose fields could not be read is taken to wait.
Resumes(t, ok) ==
  /\ paused' = IF ok THEN [paused EXCEPT ![t] = FALSE] ELSE paused
  /\ ok => chrome[t] # "gone" \/ ~waiting[t]
  /\ ~ok => waiting[t] \/ kind[t] = "malformed"

Detaches(t, ok) ==
  /\ chrome' = IF ok THEN [chrome EXCEPT ![t] = "gone"] ELSE chrome
  /\ ok => chrome[t] = "attached"

\* cleanup_auto_attached_target and handle_malformed_attached_target: resume,
\* then detach whatever became of that.
LetGo(r) ==
  LET t == Of(r) IN
  /\ \/ /\ At(r, "resume")
        /\ \E ok \in BOOLEAN :
             /\ Resumes(t, ok)
             /\ job' = [job EXCEPT ![r].pc = "detach", ![r].failed = ~ok]
        /\ UNCHANGED <<chrome, terminal>>
     \/ /\ At(r, "detach")
        /\ \E ok \in BOOLEAN :
             /\ Detaches(t, ok)
             /\ IF ok /\ ~job[r].failed /\ kind[t] \notin {"malformed", "unnamed"} THEN Ends(r) ELSE Fails(r)
        /\ UNCHANGED paused
     \/ At(r, "blank") /\ Fails(r) /\ UNCHANGED <<chrome, paused>>
  /\ UNCHANGED <<given, asked, configured, inbox, reader, record, routes, detached, detacher, page,
                 report>>

-----------------------------------------------------------------------------
(* initialize_auxiliary_target *)

\* AuxiliaryTargetRegistry::begin: one record per session; one that is there
\* already is only resumed.
Begin(r) ==
  LET t == Of(r) IN
  /\ At(r, "begin")
  /\ IF record[t] # None THEN Goes(r, "again") /\ UNCHANGED record
     ELSE /\ record' = [record EXCEPT ![t] = [route |-> FALSE, retained |-> FALSE]]
          /\ Goes(r, IF needs \/ asked THEN "route" ELSE "unneeded")
  /\ UNCHANGED <<given, asked, chrome, paused, configured, inbox, reader, routes, detached, detacher,
                 page, report, terminal>>

Again(r) ==
  /\ At(r, "again")
  /\ \E ok \in BOOLEAN : Resumes(Of(r), ok) /\ IF ok THEN Ends(r) ELSE Fails(r)
  /\ UNCHANGED <<given, asked, chrome, configured, inbox, reader, record, routes, detached, detacher,
                 page, report>>

\* AuxiliaryTargetRegistry::take and the cleanup of what was taken; a detachment
\* may have taken it.
TakeAndDetach(r, t, failed) ==
  \/ record[t] = None /\ UNCHANGED <<record, chrome>> /\ IF failed THEN Fails(r) ELSE Ends(r)
  \/ /\ record[t] # None /\ record' = [record EXCEPT ![t] = None]
     /\ \E ok \in BOOLEAN : Detaches(t, ok) /\ IF ok /\ ~failed THEN Ends(r) ELSE Fails(r)

\* Without a network to observe or configure the worker is let go.
Unneeded(r) ==
  LET t == Of(r) IN
  /\ \/ /\ At(r, "unneeded")
        /\ \E ok \in BOOLEAN : Resumes(t, ok) /\ job' = [job EXCEPT ![r].pc = "take", ![r].failed = ~ok]
        /\ UNCHANGED <<record, chrome, terminal>>
     \/ At(r, "take") /\ TakeAndDetach(r, t, job[r].failed) /\ UNCHANGED paused
  /\ UNCHANGED <<given, asked, configured, inbox, reader, routes, detached, detacher, page, report>>

\* NetworkManager::add_route, under network_lock.
AddRoute(r) ==
  /\ At(r, "route")
  /\ \/ routes' = routes \cup {Of(r)} /\ Goes(r, "mark")
     \/ Goes(r, "failed") /\ UNCHANGED routes
  /\ UNCHANGED <<given, asked, chrome, paused, configured, inbox, reader, record, detached, detacher,
                 page, report, terminal>>

\* Mutant: a record that is gone is not noticed.
MarkAnyway(r) ==
  /\ At(r, "mark")
  /\ IF record[Of(r)] = None THEN UNCHANGED record ELSE record' = [record EXCEPT ![Of(r)].route = TRUE]
  /\ Goes(r, "configure") /\ UNCHANGED <<routes, terminal>>
  /\ UNCHANGED <<given, asked, chrome, paused, configured, inbox, reader, detached, detacher, page,
                 report>>

\* mark_network_route: the session may have detached before its route was marked.
Mark(r) ==
  LET t == Of(r) IN
  /\ At(r, "mark")
  /\ IF record[t] = None
     THEN routes' = routes \ {t} /\ Ends(r) /\ UNCHANGED record
     ELSE /\ record' = [record EXCEPT ![t].route = TRUE]
          /\ Goes(r, "configure") /\ UNCHANGED <<routes, terminal>>
  /\ UNCHANGED <<given, asked, chrome, paused, configured, inbox, reader, detached, detacher, page,
                 report>>

\* configure_auxiliary_network_route, then the stream and the auto-attachment of
\* a dedicated worker's own workers; what needs neither sends nothing.
Configure(r) ==
  LET t == Of(r)
      sends == needs \/ kind[t] = "worker"
  IN
  /\ At(r, "configure")
  /\ \/ /\ sends => chrome[t] = "attached"
        /\ configured' = [configured EXCEPT ![t] = TRUE]
        /\ reader' = [reader EXCEPT ![t] = IF kind[t] = "worker" THEN "prepared" ELSE @]
        /\ Goes(r, "run")
     \/ sends /\ UNCHANGED <<configured, reader>> /\ Goes(r, "failedPaused")
  /\ UNCHANGED <<given, asked, chrome, paused, inbox, record, routes, detached, detacher, page, report,
                 terminal>>

Run(r) ==
  /\ At(r, "run")
  /\ \E ok \in BOOLEAN : Resumes(Of(r), ok) /\ Goes(r, IF ok THEN "retain" ELSE "failed")
  /\ UNCHANGED <<given, asked, chrome, configured, inbox, reader, record, routes, detached, detacher,
                 page, report, terminal>>

\* retain; the reader of the worker's own workers starts.
RetainTarget(r) ==
  LET t == Of(r) IN
  /\ At(r, "retain")
  /\ IF record[t] = None
     THEN routes' = routes \ {t} /\ UNCHANGED <<reader, record>>
     ELSE /\ record' = [record EXCEPT ![t].retained = TRUE]
          /\ reader' = [reader EXCEPT ![t] = IF @ = "prepared" THEN "running" ELSE @]
          /\ UNCHANGED routes
  /\ Ends(r)
  /\ UNCHANGED <<given, asked, chrome, paused, configured, inbox, detached, detacher, page, report>>

\* fail_auxiliary_target: the route, if it is marked, then the target is resumed
\* where its resumption has not failed already, and detached.
Fail(r) ==
  LET t == Of(r) IN
  /\ \/ /\ job[r] # None /\ job[r].pc \in {"failed", "failedPaused"}
        /\ routes' = IF record[t] # None /\ record[t].route THEN routes \ {t} ELSE routes
        /\ Goes(r, IF At(r, "failed") THEN "drop" ELSE "salvage")
        /\ UNCHANGED <<record, chrome, paused, terminal>>
     \/ /\ At(r, "salvage")
        /\ \E ok \in BOOLEAN : Resumes(t, ok)
        /\ Goes(r, "drop") /\ UNCHANGED <<record, chrome, routes, terminal>>
     \/ At(r, "drop") /\ TakeAndDetach(r, t, TRUE) /\ UNCHANGED <<paused, routes>>
  /\ UNCHANGED <<given, asked, configured, inbox, reader, detached, detacher, page, report>>

-----------------------------------------------------------------------------
(* Detachments, and the close of the page *)

\* The reader of Target.detachedFromTarget: the record is taken, its route
\* removed, its ownership disarmed.
ReadDetached ==
  /\ page = "open" /\ detacher = None /\ detached # <<>>
  /\ LET t == Head(detached) IN
       /\ detacher' = IF record[t] # None /\ record[t].route THEN t ELSE None
       /\ record' = [record EXCEPT ![t] = None]
  /\ detached' = Tail(detached)
  /\ UNCHANGED <<given, asked, chrome, paused, configured, inbox, reader, job, routes, page, report,
                 terminal>>

RemoveDetached ==
  /\ detacher # None
  /\ routes' = routes \ {detacher} /\ detacher' = None
  /\ UNCHANGED <<given, asked, chrome, paused, configured, inbox, reader, job, record, detached, page,
                 report, terminal>>

\* Page::close and mark_closed_by_session, or close_after_target_destroyed.
BeginPageClose(how) ==
  /\ page = "open" /\ page' = how
  /\ chrome' = IF how = "destroyed" THEN [t \in Targets |-> IF chrome[t] = "none" THEN "none" ELSE "gone"]
               ELSE chrome
  /\ UNCHANGED <<given, asked, paused, configured, inbox, reader, job, record, routes, detached,
                 detacher, report, terminal>>

\* Mutant: the close does not wait for the handlers.
DrainedNever == TRUE

\* wait_for_drain: the handlers that were admitted have returned; what is being
\* salvaged is in a registry that cleanup_all waits for.
Drained == \A r \in Readers : job[r] = None

\* cleanup_auto_attached_targets: the records are taken, their routes removed,
\* their sessions detached.
CleanUp ==
  /\ page = "closing" /\ Drained
  /\ \E failed \in SUBSET {t \in Targets : record[t] # None} :
       /\ \A t \in Targets : record[t] # None /\ chrome[t] = "gone" => t \in failed
       /\ chrome' = [t \in Targets |-> IF record[t] # None /\ t \notin failed THEN "gone" ELSE chrome[t]]
       /\ report' = IF failed = {} THEN "complete" ELSE "failed"
  /\ routes' = routes \ {t \in Targets : record[t] # None /\ record[t].route}
  /\ record' = [t \in Targets |-> None]
  /\ page' = "closed"
  /\ UNCHANGED <<given, asked, paused, configured, inbox, reader, job, detached, detacher, terminal>>

\* finalize_after_target_destroyed: the records are disarmed or found gone.
Finalize ==
  /\ page = "destroyed" /\ Drained
  /\ record' = [t \in Targets |-> None] /\ routes' = {}
  /\ report' = "complete" /\ page' = "closed"
  /\ UNCHANGED <<given, asked, chrome, paused, configured, inbox, reader, job, detached, detacher,
                 terminal>>

\* FrameStore::enable_network: routes of workers are wanted from now on.
RequestNetwork ==
  /\ page = "open" /\ ~asked /\ asked' = TRUE
  /\ UNCHANGED <<given, chrome, paused, configured, inbox, reader, job, record, routes, detached,
                 detacher, page, report, terminal>>

-----------------------------------------------------------------------------
(* Chrome *)

Attach(t) ==
  LET r == parent[t] IN
  /\ chrome[t] = "none" /\ reader[r] \in {"prepared", "running"}
  /\ r # Page => chrome[r] = "attached"
  /\ chrome' = [chrome EXCEPT ![t] = "attached"]
  /\ paused' = [paused EXCEPT ![t] = waiting[t]]
  /\ inbox' = [inbox EXCEPT ![r] = Append(@, t)]
  /\ UNCHANGED <<given, asked, configured, reader, job, record, routes, detached, detacher, page,
                 report, terminal>>

\* An announcement is repeated.
Repeat(t) ==
  /\ ~repeated /\ repeated' = TRUE
  /\ chrome[t] = "attached" /\ inbox' = [inbox EXCEPT ![parent[t]] = Append(@, t)]
  /\ UNCHANGED <<kind, parent, waiting, needs, asked, chrome, paused, configured, reader, job, record,
                 routes, detached, detacher, page, report, terminal>>

\* A target ends, and with a worker its own workers.
DetachTarget(t) ==
  /\ chrome[t] = "attached"
  /\ LET gone == {t} \cup {u \in Targets : parent[u] = t /\ chrome[u] = "attached"} IN
       /\ chrome' = [u \in Targets |-> IF u \in gone THEN "gone" ELSE chrome[u]]
       /\ detached' = detached \o SetToSeq(gone)
  /\ UNCHANGED <<given, asked, paused, configured, inbox, reader, job, record, routes, detacher, page,
                 report, terminal>>

-----------------------------------------------------------------------------
(* Specification *)

AuxiliaryInit ==
  /\ kind \in [Targets -> Kinds]
  /\ parent \in [Targets -> Readers]
  /\ \A t \in Targets : parent[t] # Page => kind[parent[t]] = "worker" /\ parent[parent[t]] = Page
  /\ waiting \in [Targets -> BOOLEAN] /\ needs \in BOOLEAN /\ asked \in BOOLEAN
  /\ chrome = [t \in Targets |-> "none"]
  /\ paused = [t \in Targets |-> FALSE] /\ configured = [t \in Targets |-> FALSE]
  /\ inbox = [r \in Readers |-> <<>>] /\ job = [r \in Readers |-> None]
  /\ reader = [r \in Readers |-> IF r = Page THEN "running" ELSE "none"]
  /\ record = [t \in Targets |-> None] /\ routes = {}
  /\ detached = <<>> /\ detacher = None
  /\ page = "open" /\ report = None /\ terminal = FALSE /\ repeated = FALSE

AuxiliaryNext ==
  \/ \E r \in Readers :
       \/ Read(r) \/ ReaderStops(r) \/ LetGo(r) \/ Begin(r) \/ Again(r) \/ Unneeded(r) \/ AddRoute(r)
       \/ Mark(r) \/ Configure(r) \/ Run(r) \/ RetainTarget(r) \/ Fail(r)
  \/ ReadDetached \/ RemoveDetached \/ CleanUp \/ Finalize \/ RequestNetwork
  \/ \E how \in {"closing", "destroyed"} : BeginPageClose(how)
  \/ \E t \in Targets : Attach(t) \/ Repeat(t) \/ DetachTarget(t)

AuxiliarySpec == AuxiliaryInit /\ [][AuxiliaryNext]_auVars

-----------------------------------------------------------------------------
(* Properties *)

HandledNow(t) == \E r \in Readers : job[r] # None /\ Of(r) = t
Announced(t) == \E r \in Readers : t \in ToSet(inbox[r])

\* A network route belongs to a session that is recorded, however detachment
\* and initialization interleave.
RoutesBelong ==
  \A t \in routes : HandledNow(t) \/ detacher = t \/ (record[t] # None /\ record[t].route)

\* A worker that is kept runs with its route, and configured where the options
\* say so.
KeptWorkersAreConfigured ==
  \A t \in Targets :
    record[t] # None /\ record[t].retained /\ chrome[t] = "attached" =>
      /\ ~paused[t] /\ t \in routes /\ (needs => configured[t])

\* No target waits for ever: one that is not being handled is let run or let go,
\* or the page has failed for all to see.
NoneWaits ==
  \A t \in Targets :
    chrome[t] = "attached" /\ paused[t] /\ ~HandledNow(t) /\ ~Announced(t) => terminal

\* A closed page has neither records nor routes, and a complete report no
\* attachment that was recorded.
ClosedIsClean ==
  page = "closed" =>
    /\ \A t \in Targets : record[t] = None
    /\ routes \subseteq (IF detacher = None THEN {} ELSE {detacher})

AuxiliaryTargetsAreSound ==
  RoutesBelong /\ KeptWorkersAreConfigured /\ NoneWaits /\ ClosedIsClean
=============================================================================
