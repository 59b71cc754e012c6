----------------------------- MODULE SessionTabs -----------------------------
(***************************************************************************)
(* The tabs of the daemon's sessions on one live browser connection:       *)
(* daemon/target_lifecycle.rs with the handlers that open, attach and      *)
(* close tabs and sessions, and the sweep of expired sessions.             *)
(*                                                                         *)
(* Every request is a task; so are the target watcher, which follows the   *)
(* browser's targets through two streams it reads in no fixed order, and   *)
(* the sweep.  A task holds the lifecycle lock of its session, shared or   *)
(* alone, across all the answers it awaits.  The browser meanwhile opens   *)
(* pages and loses targets on its own, and may refuse any command.         *)
(*                                                                         *)
(* Abstracted: url and title (update_session_tab_info, which is in module  *)
(* SavedSessions), the console and dialog subscriptions of a tab, the      *)
(* broadcast of lifecycle events.  The connection, binding and persistence *)
(* are module SessionBinding's.                                            *)
(***************************************************************************)
EXTENDS FiniteSets, Naturals, Sequences, SequencesExt, Functions

CONSTANTS
  Default, Isolated,   \* the default session, and one with a BrowserContext
  Targets,             \* page targets
  Clients,             \* requests, one each
  Watcher, Sweeper,    \* run_target_watcher and spawn_cleanup_task
  MaxTabs,             \* config.limits.max_tabs_per_session, not 0
  None

Sessions == {Default, Isolated}
Tasks == Clients \cup {Watcher, Sweeper}

VARIABLES
  tabs,       \* the tabs of each session: target to ownership and CDP session
  active,     \* active_target of each session
  pending,    \* pending_tab_reservations of each session
  listed,     \* the sessions in DaemonState::sessions
  idle,       \* the sessions that have been inactive for too long
  target,     \* each target in Chrome: "no", "live", "closed" by a command, "lost"
  home,       \* the session whose BrowserContext a target lives in
  opener,     \* the target that opened it, if any
  sessionsOf, \* CDP sessions in Chrome: <<task, target>>, who attached to what
  created, destroyed,  \* the watcher's streams
  work        \* what each task is doing

chrome == <<target, home, opener, sessionsOf, created, destroyed>>
tabVars == <<tabs, active, pending>>
daemon == <<tabVars, listed, idle>>
tabsVars == <<daemon, chrome, work>>

NoWork == [cmd |-> "none", s |-> None, pc |-> "idle", lock |-> "no",
           t |-> None, plan |-> <<>>, failed |-> FALSE]
Finished == [NoWork EXCEPT !.pc = "done"]
Result(a) == IF a \in Clients THEN Finished ELSE NoWork

At(a, pc) == work[a].pc = pc
Goto(a, pc) == work' = [work EXCEPT ![a].pc = pc]
\* The handler returns: its guards are dropped.
Return(a) == work' = [work EXCEPT ![a] = Result(a)]

TypeOK ==
  /\ \A s \in Sessions : /\ DOMAIN tabs[s] \subseteq Targets
                         /\ active[s] \in Targets \cup {None}
                         /\ pending[s] \in 0 .. Cardinality(Clients)
  /\ listed \subseteq Sessions /\ idle \subseteq Sessions
  /\ sessionsOf \subseteq Tasks \X Targets

-----------------------------------------------------------------------------
(* Chrome *)

Live == {t \in Targets : target[t] = "live"}

\* The targets of T end: their CDP sessions go with them.
Ends(T, how) ==
  /\ target' = [t \in Targets |-> IF t \in T THEN how ELSE target[t]]
  /\ sessionsOf' = {cs \in sessionsOf : cs[2] \notin T}
  /\ \E order \in SetToSeqs(T) : destroyed' = destroyed \o order
  /\ UNCHANGED <<home, opener, created>>

Opens(t, s, o) ==
  /\ target' = [target EXCEPT ![t] = "live"]
  /\ home' = [home EXCEPT ![t] = s]
  /\ opener' = [opener EXCEPT ![t] = o]
  /\ created' = Append(created, t)
  /\ UNCHANGED <<sessionsOf, destroyed>>

AttachTo(a, t) ==
  /\ sessionsOf' = sessionsOf \cup {<<a, t>>}
  /\ UNCHANGED <<target, home, opener, created, destroyed>>

Detach(a, t) ==
  /\ sessionsOf' = sessionsOf \ {<<a, t>>}
  /\ UNCHANGED <<target, home, opener, created, destroyed>>

Unborn == {t \in Targets : target[t] = "no"}

\* A page opens a popup, or the user a page of their own.
PageAppears ==
  \E t \in Unborn :
    /\ \/ \E o \in Live : Opens(t, home[o], o)
       \/ Opens(t, Default, None)
    /\ UNCHANGED <<daemon, work>>

\* The user closes a page, or it crashes.
TargetLost ==
  \E t \in Live : Ends({t}, "lost") /\ UNCHANGED <<daemon, work>>

-----------------------------------------------------------------------------
(* Ownership of targets *)

Owner(t) == {s \in listed : t \in DOMAIN tabs[s]}   \* find_target_owner

\* session_for_created_target: the opener's session, or the context's.
SessionFor(t) ==
  IF opener[t] # None /\ Owner(opener[t]) # {} THEN Owner(opener[t])
  ELSE listed \cap {Isolated} \cap {home[t]}

Touch(s) == idle' = idle \ {s}

\* A tab enters the session and becomes its active one.
Insert(a, s, t, own) ==
  /\ tabs' = [tabs EXCEPT ![s] = (t :> [own |-> own, by |-> a]) @@ tabs[s]]
  /\ active' = [active EXCEPT ![s] = t]
  /\ Touch(s)

\* Mutant: the active tab is not replaced.
RemoveKeepingActive(t) ==
  IF Owner(t) = {}
  THEN UNCHANGED <<tabs, active, idle>>
  ELSE LET s == CHOOSE s \in Owner(t) : TRUE
       IN  /\ tabs' = [tabs EXCEPT ![s] = Restrict(tabs[s], DOMAIN tabs[s] \ {t})]
           /\ UNCHANGED active /\ Touch(s)

\* remove_session_tab: whoever owns the target loses it; another tab becomes
\* the active one, in the order of a hash map.
RemoveSessionTab(t) ==
  IF Owner(t) = {}
  THEN UNCHANGED <<tabs, active, idle>>
  ELSE LET s == CHOOSE s \in Owner(t) : TRUE
           left == DOMAIN tabs[s] \ {t}
       IN  /\ tabs' = [tabs EXCEPT ![s] = Restrict(tabs[s], left)]
           /\ IF active[s] # t THEN UNCHANGED active
              ELSE \E next \in IF left = {} THEN {None} ELSE left :
                     active' = [active EXCEPT ![s] = next]
           /\ Touch(s)

Less(n) == IF n = 0 THEN 0 ELSE n - 1   \* saturating_sub
Release(s) == pending' = [pending EXCEPT ![s] = Less(@)]

-----------------------------------------------------------------------------
(* handle_request: the lifecycle lock of the request's session *)

\* Mutant: closing a session shares the lock.
SharedClose(cmd) == cmd = "sweep"

Exclusive(cmd) == cmd \in {"session.close", "sweep"}

Entry(cmd) ==
  CASE cmd = "open" -> "reserve"
    [] cmd = "attach" -> "candidate"
    [] cmd = "close" -> "choose"
    [] cmd \in {"session.close", "sweep"} -> "plan"
    [] cmd = "created" -> "recheck"
    [] cmd = "destroyed" -> "removed"

Lock(a, cmd, s) ==
  /\ \A b \in Tasks : (work[b].s = s /\ work[b].lock # "no") =>
                         (~Exclusive(cmd) /\ work[b].lock = "shared")
  /\ work' = [work EXCEPT ![a].cmd = cmd, ![a].s = s, ![a].pc = Entry(cmd),
                          ![a].lock = IF Exclusive(cmd) THEN "alone" ELSE "shared"]

\* A request waits until it has the lock, then it touches its session.
Begin(a) ==
  /\ At(a, "idle") /\ a \in Clients
  /\ \E cmd \in {"open", "attach", "close", "session.close"}, s \in Sessions :
       /\ Lock(a, cmd, s)
       /\ IF s \in listed THEN Touch(s) ELSE UNCHANGED idle
  /\ UNCHANGED <<tabVars, listed, chrome>>

\* The watcher and the sweep wait with what they have seen, and do not touch.
TakeLock(a) ==
  /\ At(a, "lock") /\ Lock(a, work[a].cmd, work[a].s)
  /\ UNCHANGED <<daemon, chrome>>

-----------------------------------------------------------------------------
(* handle_open *)

\* Mutant: the limit forgets the reservations.
CountsTabsOnly(s) == Cardinality(DOMAIN tabs[s]) < MaxTabs

CanAddTab(s) == Cardinality(DOMAIN tabs[s]) + pending[s] < MaxTabs

Reserve(a) ==
  LET s == work[a].s IN
  /\ At(a, "reserve")
  /\ IF s \in listed /\ CanAddTab(s)
     THEN pending' = [pending EXCEPT ![s] = @ + 1] /\ Goto(a, "create")
     ELSE Return(a) /\ UNCHANGED pending
  /\ UNCHANGED <<tabs, active, listed, idle, chrome>>

CreateTarget(a) ==
  LET s == work[a].s IN
  /\ At(a, "create")
  /\ UNCHANGED <<tabs, active, listed, idle>>
  /\ \/ \E t \in Unborn :
          /\ Opens(t, s, None)
          /\ work' = [work EXCEPT ![a].t = t, ![a].pc = "attach"]
          /\ UNCHANGED pending
     \/ Release(s) /\ Return(a) /\ UNCHANGED chrome

\* rollback_opened_target: the new target is closed, best effort.  The
\* reservation is released when the handler returns, unless register took it.
Rollback(a) ==
  LET t == work[a].t IN
  /\ At(a, "rollback")
  /\ IF t \in Live THEN Ends({t}, "closed") ELSE UNCHANGED chrome
  /\ Release(work[a].s) /\ Return(a)
  /\ UNCHANGED <<tabs, active, listed, idle>>

-----------------------------------------------------------------------------
(* handle_attach: only the default session, only a page of its context that *)
(* nobody owns                                                              *)

ChooseCandidate(a) ==
  /\ At(a, "candidate")
  /\ \/ \E t \in Live :
          /\ work[a].s = Default /\ home[t] = Default /\ Owner(t) = {}
          /\ work' = [work EXCEPT ![a].t = t, ![a].pc = "attach"]
     \/ Return(a)
  /\ UNCHANGED <<daemon, chrome>>

-----------------------------------------------------------------------------
(* AttachToTarget and prepare_session_tab_subscriptions, for a request that *)
(* opens or attaches and for the watcher                                    *)

Attach(a) ==
  LET t == work[a].t IN
  /\ At(a, "attach")
  /\ UNCHANGED <<daemon>>
  /\ \/ t \in Live /\ AttachTo(a, t) /\ Goto(a, "prepare")
     \/ /\ IF work[a].cmd = "open" THEN Goto(a, "rollback") ELSE Return(a)
        /\ UNCHANGED chrome

Prepare(a) ==
  LET t == work[a].t IN
  /\ At(a, "prepare")
  /\ \/ t \in Live /\ Goto(a, "register")
     \/ Goto(a, IF work[a].cmd = "open" THEN "rollback" ELSE "detach")
  /\ UNCHANGED <<daemon, chrome>>

\* Mutant: a target that is registered meanwhile is taken for an end.
RegisterOrForget(a) ==
  LET t == work[a].t   s == work[a].s   c == work[a].cmd IN
  /\ At(a, "register")
  /\ IF c = "open" THEN Release(s) ELSE UNCHANGED pending
  /\ IF Owner(t) = {}
     THEN Insert(a, s, t, IF c = "attach" THEN "attached" ELSE "owned") /\ Return(a)
     ELSE Return(a) /\ UNCHANGED <<tabs, active, idle>>
  /\ UNCHANGED <<listed, chrome>>

\* register_reserved_session_tab, register_session_tab and
\* register_initialized_session_tab, under the registration lock.
Register(a) ==
  LET t == work[a].t   s == work[a].s   c == work[a].cmd IN
  /\ At(a, "register")
  /\ IF c = "open" THEN Release(s) ELSE UNCHANGED pending
  /\ IF Owner(t) = {}
     THEN Insert(a, s, t, IF c = "attach" THEN "attached" ELSE "owned") /\ Return(a)
     ELSE Goto(a, "detach") /\ UNCHANGED <<tabs, active, idle>>
  /\ UNCHANGED <<listed, chrome>>

\* detach_unregistered_target_session
DetachUnregistered(a) ==
  /\ At(a, "detach")
  /\ Detach(a, work[a].t) /\ Return(a)
  /\ UNCHANGED daemon

-----------------------------------------------------------------------------
(* handle_close, handle_session_close and cleanup_expired_sessions *)

ChooseTab(a) ==
  LET s == work[a].s IN
  /\ At(a, "choose")
  /\ \/ \E t \in DOMAIN tabs[s] :
          /\ s \in listed
          /\ work' = [work EXCEPT ![a].plan = Restrict(tabs[s], {t}), ![a].pc = "closing"]
     \/ DOMAIN tabs[s] = {} /\ Return(a)
  /\ UNCHANGED <<daemon, chrome>>

Plan(a) ==
  LET s == work[a].s IN
  /\ At(a, "plan")
  /\ IF s \in listed /\ (a = Sweeper => s \in idle)
     THEN work' = [work EXCEPT ![a].plan = tabs[s], ![a].pc = "closing"]
     ELSE Return(a)
  /\ UNCHANGED <<daemon, chrome>>

\* close_session_target: an owned target is closed, an attached one detached.
CloseTab(a) ==
  \E t \in DOMAIN work[a].plan :
    LET tab == work[a].plan[t]
        rest == Restrict(work[a].plan, DOMAIN work[a].plan \ {t})
    IN  /\ At(a, "closing")
        /\ \/ /\ t \in Live
              /\ IF tab.own = "owned" THEN Ends({t}, "closed") ELSE Detach(tab.by, t)
              /\ work' = [work EXCEPT ![a].t = t, ![a].plan = rest, ![a].pc = "closed"]
           \/ /\ work' = [work EXCEPT ![a].plan = rest, ![a].failed = TRUE]
              /\ UNCHANGED chrome
        /\ UNCHANGED daemon

RemoveTab(a) ==
  /\ At(a, "closed")
  /\ RemoveSessionTab(work[a].t)
  /\ Goto(a, "closing")
  /\ UNCHANGED <<pending, listed, chrome>>

Disposes(a) == work[a].s = Isolated
\* The plan is done: dispose_session_browser_context of an isolated session.
Dispose(a) ==
  LET pages == {t \in Live : home[t] = work[a].s} IN
  /\ At(a, "closing") /\ work[a].plan = <<>>
  /\ UNCHANGED daemon
  /\ \/ work[a].cmd # "close" /\ ~work[a].failed /\ Goto(a, "drop")
        /\ IF Disposes(a) THEN Ends(pages, "closed") ELSE UNCHANGED chrome
     \/ (work[a].cmd = "close" \/ work[a].failed \/ Disposes(a))
        /\ Return(a) /\ UNCHANGED chrome

\* The isolated session is forgotten, the default session stays.
Drop(a) ==
  LET s == work[a].s IN
  /\ At(a, "drop")
  /\ Return(a)
  /\ IF s = Isolated
     THEN /\ listed' = listed \ {s}
          /\ tabs' = [tabs EXCEPT ![s] = <<>>]
          /\ active' = [active EXCEPT ![s] = None]
          /\ pending' = [pending EXCEPT ![s] = 0]
          /\ UNCHANGED idle
     ELSE /\ IF a = Sweeper THEN Touch(s) ELSE UNCHANGED idle
          /\ UNCHANGED <<tabVars, listed>>
  /\ UNCHANGED chrome

TimePasses ==
  \E s \in listed \ idle :
    /\ At(Sweeper, "idle") /\ idle = {}
    /\ \A b \in Clients : work[b].s # s
    /\ idle' = idle \cup {s}
    /\ UNCHANGED <<tabVars, listed, chrome, work>>

Sweep ==
  \E s \in listed \cap idle :
    /\ At(Sweeper, "idle")
    /\ work' = [work EXCEPT ![Sweeper] = [NoWork EXCEPT !.cmd = "sweep", !.s = s, !.pc = "lock"]]
    /\ UNCHANGED <<daemon, chrome>>

-----------------------------------------------------------------------------
(* run_target_watcher *)

Watch(cmd, t, s) ==
  work' = [work EXCEPT ![Watcher] = [NoWork EXCEPT !.cmd = cmd, !.s = s, !.t = t, !.pc = "lock"]]

SeeCreated ==
  /\ At(Watcher, "idle") /\ created # <<>>
  /\ created' = Tail(created)
  /\ LET t == Head(created) IN
       IF SessionFor(t) = {} THEN UNCHANGED work
       ELSE \E s \in SessionFor(t) : Watch("created", t, s)
  /\ UNCHANGED <<daemon, target, home, opener, sessionsOf, destroyed>>

\* Mutant: a target nobody owns yet is handled while another is registered.
SeeDestroyedAnytime ==
  /\ destroyed # <<>> /\ (Owner(Head(destroyed)) = {} \/ At(Watcher, "idle"))
  /\ destroyed' = Tail(destroyed)
  /\ LET t == Head(destroyed) IN
       IF Owner(t) = {} THEN UNCHANGED work
       ELSE \E s \in Owner(t) : Watch("destroyed", t, s)
  /\ UNCHANGED <<daemon, target, home, opener, sessionsOf, created>>

SeeDestroyed ==
  /\ At(Watcher, "idle") /\ destroyed # <<>>
  /\ destroyed' = Tail(destroyed)
  /\ LET t == Head(destroyed) IN
       IF Owner(t) = {} THEN UNCHANGED work
       ELSE \E s \in Owner(t) : Watch("destroyed", t, s)
  /\ UNCHANGED <<daemon, target, home, opener, sessionsOf, created>>

\* Under the lock the watcher looks again before it attaches.
Recheck ==
  LET t == work[Watcher].t IN
  /\ At(Watcher, "recheck")
  /\ IF SessionFor(t) = {work[Watcher].s} /\ Owner(t) = {}
     THEN Goto(Watcher, "attach") ELSE Return(Watcher)
  /\ UNCHANGED <<daemon, chrome>>

RemoveDestroyed ==
  LET t == work[Watcher].t IN
  /\ At(Watcher, "removed")
  /\ IF Owner(t) = {work[Watcher].s} THEN RemoveSessionTab(t) ELSE UNCHANGED <<tabs, active, idle>>
  /\ Return(Watcher)
  /\ UNCHANGED <<pending, listed, chrome>>

-----------------------------------------------------------------------------
Init ==
  /\ tabs = [s \in Sessions |-> <<>>]
  /\ active = [s \in Sessions |-> None]
  /\ pending = [s \in Sessions |-> 0]
  /\ listed = Sessions /\ idle = {}
  /\ target = [t \in Targets |-> "no"]
  /\ home = [t \in Targets |-> Default]
  /\ opener = [t \in Targets |-> None]
  /\ sessionsOf = {} /\ created = <<>> /\ destroyed = <<>>
  /\ work = [a \in Tasks |-> NoWork]

Next ==
  \/ PageAppears \/ TargetLost \/ TimePasses
  \/ Sweep \/ SeeCreated \/ SeeDestroyed \/ Recheck \/ RemoveDestroyed
  \/ \E a \in Tasks :
       \/ Begin(a) \/ TakeLock(a)
       \/ Reserve(a) \/ CreateTarget(a) \/ Rollback(a) \/ ChooseCandidate(a)
       \/ Attach(a) \/ Prepare(a) \/ Register(a) \/ DetachUnregistered(a)
       \/ ChooseTab(a) \/ Plan(a) \/ CloseTab(a) \/ RemoveTab(a)
       \/ Dispose(a) \/ Drop(a)

Spec == Init /\ [][Next]_tabsVars

-----------------------------------------------------------------------------
(* Properties *)

(* What state.json is validated for when the daemon restarts (persist.rs)   *)
(* holds at every moment a snapshot may be taken: no target is in two       *)
(* sessions, the active tab is one of the session's tabs, and an isolated   *)
(* session has no attached tab.                                             *)
AlwaysRestorable ==
  /\ \A t \in Targets : Cardinality(Owner(t)) <= 1
  /\ \A s \in listed : IF tabs[s] = <<>> THEN active[s] = None
                       ELSE active[s] \in DOMAIN tabs[s]
  /\ \A t \in DOMAIN tabs[Isolated] : tabs[Isolated][t].own = "owned"

Reserving(s) ==
  {a \in Clients : work[a].cmd = "open" /\ work[a].s = s
                   /\ work[a].pc \in {"create", "attach", "prepare", "register", "rollback"}}

(* A reservation belongs to one open in flight, so that tabs the client     *)
(* opens concurrently never exceed the session's limit, whichever of the    *)
(* watcher and the request registers a new target; and a task that has the  *)
(* session to itself finds no reservation it could lose.                    *)
LimitHolds ==
  \A s \in Sessions :
    /\ pending[s] = Cardinality(Reserving(s))
    /\ Cardinality({t \in DOMAIN tabs[s] : tabs[s][t].by \in Clients
                                           /\ tabs[s][t].own = "owned"}) <= MaxTabs
    /\ (\E a \in Tasks : work[a].s = s /\ work[a].lock = "alone") => pending[s] = 0

(* No attachment leaks: a CDP session the daemon opened is the one of a tab *)
(* or of a task that will still register or detach it, although the request *)
(* and the watcher both attach to a new target.                             *)
NoLeakedAttachment ==
  \A cs \in sessionsOf :
    \/ \E s \in listed : cs[2] \in DOMAIN tabs[s] /\ tabs[s][cs[2]].by = cs[1]
    \/ work[cs[1]].t = cs[2] /\ work[cs[1]].pc \in {"prepare", "register", "detach", "rollback"}
    \/ \E a \in Tasks : work[a].pc = "closed" /\ work[a].t = cs[2]

(* A closed isolated session leaves no live page of its context and no tab, *)
(* whatever was being opened in it when it was closed.                      *)
ClosedLeavesNothing ==
  Isolated \notin listed =>
    /\ \A t \in Live : home[t] # Isolated
    /\ tabs[Isolated] = <<>>

(* With nothing left to read, a tab whose target is gone was registered by  *)
(* a request: the watcher never leaves one behind of its own.               *)
WatcherLeavesNoGhost ==
  (created = <<>> /\ destroyed = <<>> /\ At(Watcher, "idle")) =>
    \A s \in listed : \A t \in DOMAIN tabs[s] : tabs[s][t].by = Watcher => t \in Live

(* What the daemon keeps of its tabs is what a restart accepts, and agrees  *)
(* with Chrome's targets and the daemon's attachments to them.              *)
TabsAreSound ==
  /\ TypeOK /\ AlwaysRestorable /\ LimitHolds
  /\ NoLeakedAttachment /\ ClosedLeavesNothing /\ WatcherLeavesNoGhost
=============================================================================
