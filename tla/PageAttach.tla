------------------------------ MODULE PageAttach ------------------------------
(***************************************************************************)
(* Popups and attached pages of one session (src/runtime/popup.rs and      *)
(* session.rs): expect_popup tasks that outlive their callers, attach_page *)
(* callers that may be aborted, the attach lock between them, the two      *)
(* kinds of pending ownership they register (the popup's target, the CDP   *)
(* attachment), and the closes of pages, of the opener and of the session. *)
(*                                                                         *)
(* It is a release build: a second registration of a resource replaces the *)
(* first, where a debug build panics.  A cleanup of the registry and the   *)
(* answer to its command are one step.                                     *)
(***************************************************************************)
EXTENDS Naturals, Sequences, FiniteSets

CONSTANTS
  Targets,        \* page targets that the opener page may open
  Expectations,   \* calls of expect_popup on the opener
  Attachers,      \* calls of attach_page
  Kinds,          \* the kinds of session considered
  Bound,          \* how many of the calls are made at most
  Nobody

Procs == Expectations \cup Attachers

ASSUME AttachAssumption ==
  /\ IsFiniteSet(Targets) /\ IsFiniteSet(Procs)
  /\ Expectations \cap Attachers = {}
  /\ Kinds \subseteq {"Default", "Isolated"} /\ Bound \in Nat
  /\ Nobody \notin Procs \cup Targets
  /\ Targets \cap Procs = {}

VARIABLES
  kind,        \* SessionKind
  session,     \* how far BrowserSession::close is
  context,     \* the BrowserContext of an isolated session
  opener,      \* the opener page: open, closing (actions cancelled), closed
  target,      \* Chrome's targets
  events,      \* Target events the lifecycle task has not read
  watcher,     \* the destroyed target the lifecycle task looks up, or waits for
  pc,          \* where each call is
  goal,        \* the target it is about
  callers,     \* the calls whose caller waits for the result
  heard,       \* PageTargetCreated facts an expectation has not consumed
  lock,        \* page_attach_lock
  attachment,  \* the CDP session of a call: none, sent or live
  entry,       \* pending_targets: whose registration of a resource is in force
  guard,       \* the registrations: none, armed, scheduled, failed
  retained,    \* targets in the runtime's owned_targets
  page,        \* the Page of a target: none, open, closing, closed, failed
  body,        \* what its close does: close, then detach or target; destroyed; session
  own,         \* its PageOwnership
  via,         \* the call whose CDP session it uses
  pages,       \* BrowserSessionInner.pages
  sweep,       \* the pages the session's close has still to visit
  visit,       \* the page it waits for
  failed,      \* the failures of its report
  replaced,    \* history: calls whose registration another one replaced
  refused,     \* history: targets and CDP sessions whose cleanup failed
  told         \* history: targets whose failure reached a caller or a report

sessionVars == <<kind, session, context, sweep, visit, failed>>
chromeVars == <<target, events, refused>>
pageVars == <<page, body, own, via, pages, retained>>
callVars == <<pc, goal, callers, heard, lock, attachment>>
registry == <<entry, guard, replaced>>
vars == <<sessionVars, opener, chromeVars, watcher, callVars, registry, pageVars, told>>

Context == "context"            \* the BrowserContext as an item of failed
Resources == {"page", "page-attachment"}
Locked == {"validate", "attach", "frames", "routes", "detach", "undo"}
States == {"idle", "act", "listen", "want", "undeliver", "done"} \cup Locked

Open == session = "open"

Callable == Cardinality({x \in Procs : pc[x] # "idle"}) < Bound

(* mutant: the spawned task holds no permit *)
HoldsCall(x) == pc[x] \notin {"idle", "undeliver", "done"}

(* The permits of a call, and of the task attach_borrowed_target spawns.   *)
Holds(x) == pc[x] \notin {"idle", "undeliver", "done"} \/ attachment[x] = "sent"

Init ==
  /\ kind \in Kinds /\ session = "open" /\ opener = "open"
  /\ context = IF kind = "Isolated" THEN "alive" ELSE "none"
  /\ target = [t \in Targets |-> "absent"]
  /\ events = <<>> /\ watcher = <<"next", Nobody>>
  /\ pc = [x \in Procs |-> "idle"]
  /\ goal = [x \in Procs |-> Nobody]
  /\ callers = {} /\ lock = Nobody
  /\ heard = [e \in Expectations |-> <<>>]
  /\ attachment = [x \in Procs |-> "none"]
  /\ entry = [r \in Resources |-> [t \in Targets |-> Nobody]]
  /\ guard = [r \in Resources |-> [x \in Procs |-> "none"]]
  /\ retained = {} /\ pages = {}
  /\ page = [t \in Targets |-> "none"]
  /\ body = [t \in Targets |-> "none"]
  /\ own = [t \in Targets |-> "none"]
  /\ via = [t \in Targets |-> Nobody]
  /\ sweep = {} /\ visit = Nobody /\ failed = {}
  /\ replaced = {} /\ refused = {} /\ told = {}

-----------------------------------------------------------------------------
(* Chrome. *)

(* The lifecycle task drops its stream when the session has closed.        *)
Announced(kindOf, t) == IF session = "closed" THEN events ELSE Append(events, <<kindOf, t>>)

(* close_created_target_and_wait: confirmed, or an error. *)
CloseSucceeds(t) ==
  /\ target' = [target EXCEPT ![t] = "gone"]
  /\ events' = IF target[t] = "alive" THEN Announced("destroyed", t) ELSE events
  /\ UNCHANGED refused

CloseFails(t) ==
  /\ refused' = refused \cup {t}
  /\ UNCHANGED <<target, events>>

(* DetachFromTarget ends the CDP session of a target that still is there. *)
DetachSucceeds(x) ==
  /\ target[goal[x]] = "alive"
  /\ attachment' = [attachment EXCEPT ![x] = "none"]
  /\ UNCHANGED chromeVars

DetachFails(x) ==
  /\ refused' = refused \cup {x}
  /\ UNCHANGED <<attachment, target, events>>

OpenPopup(t) ==
  /\ target[t] = "absent" /\ opener # "closed"
  /\ target' = [target EXCEPT ![t] = "alive"]
  /\ events' = Announced("created", t)
  /\ UNCHANGED <<sessionVars, opener, refused, watcher, callVars, registry, pageVars, told>>

DestroyTarget(t) ==
  /\ target[t] = "alive"
  /\ target' = [target EXCEPT ![t] = "gone"]
  /\ events' = Announced("destroyed", t)
  /\ UNCHANGED <<sessionVars, opener, refused, watcher, callVars, registry, pageVars, told>>

-----------------------------------------------------------------------------
(* The registry. *)

Armed(r, x) == guard[r][x] = "armed" /\ entry[r][goal[x]] = x

(* register replaces what is in force; armed tells whether the guard is kept. *)
Register(r, x, t, armed) ==
  /\ entry' = [entry EXCEPT ![r][t] = x]
  /\ guard' = [guard EXCEPT ![r][x] = IF armed THEN "armed" ELSE "scheduled"]
  /\ replaced' = replaced \cup ({entry[r][t]} \ {Nobody})

(* A guard is dropped: its cleanup is scheduled if it still is registered. *)
Dropped(r, x) ==
  IF Armed(r, x) THEN "scheduled" ELSE IF guard[r][x] = "armed" THEN "none" ELSE guard[r][x]

(* disarm, and the removal of an entry when its cleanup ends: nothing      *)
(* happens to the entry of a later registration.                           *)
Removed(r, x) ==
  [entry EXCEPT ![r][goal[x]] = IF @ = x THEN Nobody ELSE @]

(* The background cleanup of a dropped guard.  Its failure is kept for     *)
(* cleanup_all unless the entry was replaced.                              *)
Cleaned(r, x, ok) ==
  /\ guard[r][x] = "scheduled"
  /\ entry' = Removed(r, x)
  /\ guard' = [guard EXCEPT ![r][x] = IF ok \/ entry[r][goal[x]] # x THEN "none" ELSE "failed"]

CloseScheduled(e) ==
  /\ \/ Cleaned("page", e, TRUE) /\ CloseSucceeds(goal[e])
     \/ Cleaned("page", e, FALSE) /\ CloseFails(goal[e])
  /\ UNCHANGED <<sessionVars, opener, watcher, callVars, replaced, pageVars, told>>

DetachScheduled(x) ==
  /\ \/ Cleaned("page-attachment", x, TRUE) /\ DetachSucceeds(x)
     \/ Cleaned("page-attachment", x, FALSE) /\ DetachFails(x)
  /\ UNCHANGED <<sessionVars, opener, watcher, pc, goal, callers, heard, lock, replaced, pageVars, told>>

-----------------------------------------------------------------------------
(* expect_popup up to the claim of a popup. *)

Expect(e) ==
  /\ pc[e] = "idle" /\ Callable /\ Open /\ opener = "open"
  /\ pc' = [pc EXCEPT ![e] = "act"]
  /\ callers' = callers \cup {e}
  /\ UNCHANGED <<sessionVars, opener, chromeVars, watcher, goal, heard, lock, attachment, registry, pageVars, told>>

ActionEnds(e) ==
  /\ pc[e] = "act"
  /\ \/ pc' = [pc EXCEPT ![e] = "listen"] /\ UNCHANGED heard
     \/ pc' = [pc EXCEPT ![e] = "done"] /\ heard' = [heard EXCEPT ![e] = <<>>]
  /\ UNCHANGED <<sessionVars, opener, chromeVars, watcher, goal, callers, lock, attachment, registry, pageVars, told>>

TimeOut(e) ==
  /\ pc[e] = "listen"
  /\ pc' = [pc EXCEPT ![e] = "done"]
  /\ heard' = [heard EXCEPT ![e] = <<>>]
  /\ UNCHANGED <<sessionVars, opener, chromeVars, watcher, goal, callers, lock, attachment, registry, pageVars, told>>

(* The fact is consumed and the target tracked; a session that closes      *)
(* admits no attachment, and the guard is dropped.                         *)
Claim(e) ==
  /\ pc[e] = "listen" /\ heard[e] # <<>>
  /\ LET t == Head(heard[e])
     IN /\ goal' = [goal EXCEPT ![e] = t]
        /\ Register("page", e, t, Open)
        /\ pc' = [pc EXCEPT ![e] = IF Open THEN "want" ELSE "done"]
  /\ heard' = [heard EXCEPT ![e] = <<>>]
  /\ UNCHANGED <<sessionVars, opener, chromeVars, watcher, callers, lock, attachment, pageVars, told>>

-----------------------------------------------------------------------------
(* attach_page, and attach_action_popup of an expectation.                 *)

Attach(a, t) ==
  /\ pc[a] = "idle" /\ Callable /\ Open /\ target[t] # "absent"
  /\ pc' = [pc EXCEPT ![a] = "want"]
  /\ goal' = [goal EXCEPT ![a] = t]
  /\ callers' = callers \cup {a}
  /\ UNCHANGED <<sessionVars, opener, chromeVars, watcher, heard, lock, attachment, registry, pageVars, told>>

Unlocked(x) == IF lock = x THEN Nobody ELSE lock

(* mutant: a page that is found is not promoted *)
DeliveredAsFound(x) ==
  LET t == goal[x]
  IN /\ lock' = Unlocked(x)
     /\ pc' = [pc EXCEPT ![x] = IF x \in callers THEN "done" ELSE "undeliver"]
     /\ own' = [own EXCEPT ![t] =
                  IF t \in pages THEN @ ELSE IF x \in Expectations THEN "Created" ELSE "Attached"]
     /\ UNCHANGED retained

(* mutant: every page is taken for a created one *)
DeliveredCreated(x) ==
  /\ lock' = Unlocked(x)
  /\ pc' = [pc EXCEPT ![x] = IF x \in callers THEN "done" ELSE "undeliver"]
  /\ own' = [own EXCEPT ![goal[x]] = "Created"]
  /\ retained' = IF x \in Expectations /\ kind = "Default" THEN retained \cup {goal[x]} ELSE retained

(* What follows success without an await: an expectation promotes the page,*)
(* retains its target in the runtime if the session is the default one,    *)
(* disarms its claim and hands the page over, or has to close it.          *)
Delivered(x) ==
  LET t == goal[x]
  IN /\ lock' = Unlocked(x)
     /\ pc' = [pc EXCEPT ![x] = IF x \in callers THEN "done" ELSE "undeliver"]
     /\ own' = [own EXCEPT ![t] =
                  IF x \in Expectations \/ (t \in pages /\ @ = "Created") THEN "Created" ELSE "Attached"]
     /\ retained' = IF x \in Expectations /\ kind = "Default" THEN retained \cup {t} ELSE retained

(* attach_page_locked finds the page in the map. *)
Find(x) ==
  /\ pc[x] = "want" /\ lock = Nobody /\ goal[x] \in pages
  /\ Delivered(x)
  /\ entry' = Removed("page", x)
  /\ guard' = [guard EXCEPT !["page"][x] = "none"]
  /\ UNCHANGED <<sessionVars, opener, chromeVars, watcher, goal, callers, heard, attachment, replaced, page, body, via, pages, told>>

(* mutant: no lock around the look-up and the attachment *)
TakeLockFreely(x) ==
  /\ pc[x] = "want" /\ goal[x] \notin pages
  /\ lock' = x
  /\ pc' = [pc EXCEPT ![x] = "validate"]
  /\ UNCHANGED <<sessionVars, opener, chromeVars, watcher, goal, callers, heard, attachment, registry, pageVars, told>>


TakeLock(x) ==
  /\ pc[x] = "want" /\ lock = Nobody /\ goal[x] \notin pages
  /\ lock' = x
  /\ pc' = [pc EXCEPT ![x] = "validate"]
  /\ UNCHANGED <<sessionVars, opener, chromeVars, watcher, goal, callers, heard, attachment, registry, pageVars, told>>

(* An error leaves attach_page; an expectation cleans its claim first,     *)
(* still under the lock.                                                   *)
Failing(x) ==
  /\ pc' = [pc EXCEPT ![x] = IF x \in Expectations THEN "undo" ELSE "done"]
  /\ lock' = IF x \in Expectations THEN lock ELSE Unlocked(x)

(* GetTargetInfo, then attach_borrowed_target admits and spawns its task. *)
Validate(x) ==
  /\ pc[x] = "validate"
  /\ \/ /\ Open /\ target[goal[x]] = "alive"
        /\ pc' = [pc EXCEPT ![x] = "attach"]
        /\ attachment' = [attachment EXCEPT ![x] = "sent"]
        /\ UNCHANGED lock
     \/ Failing(x) /\ UNCHANGED attachment
  /\ UNCHANGED <<sessionVars, opener, chromeVars, watcher, goal, callers, heard, registry, pageVars, told>>

(* The spawned task registers the attachment and delivers it; a guard      *)
(* that nobody receives is dropped.                                        *)
Attached(x) ==
  /\ attachment[x] = "sent" /\ target[goal[x]] = "alive"
  /\ attachment' = [attachment EXCEPT ![x] = "live"]
  /\ Register("page-attachment", x, goal[x], pc[x] = "attach")
  /\ pc' = [pc EXCEPT ![x] = IF @ = "attach" THEN "frames" ELSE @]
  /\ UNCHANGED <<sessionVars, opener, chromeVars, watcher, goal, callers, heard, lock, pageVars, told>>

NotAttached(x) ==
  /\ attachment[x] = "sent"
  /\ attachment' = [attachment EXCEPT ![x] = "none"]
  /\ IF pc[x] = "attach" THEN Failing(x) ELSE UNCHANGED <<pc, lock>>
  /\ UNCHANGED <<sessionVars, opener, chromeVars, watcher, goal, callers, heard, registry, pageVars, told>>

(* The frame store admits an operation of the page. *)
Frames(x) ==
  /\ pc[x] = "frames"
  /\ pc' = [pc EXCEPT ![x] = IF Open THEN "routes" ELSE "detach"]
  /\ UNCHANGED <<sessionVars, opener, chromeVars, watcher, goal, callers, heard, lock, attachment, registry, pageVars, told>>

FramesFail(x) ==
  /\ pc[x] = "routes"
  /\ pc' = [pc EXCEPT ![x] = "detach"]
  /\ UNCHANGED <<sessionVars, opener, chromeVars, watcher, goal, callers, heard, lock, attachment, registry, pageVars, told>>

(* The frame store and the routes are ready: publish_page, disarm. *)
Publish(x) ==
  /\ pc[x] = "routes"
  /\ LET t == goal[x]
     IN /\ page' = [page EXCEPT ![t] = "open"]
        /\ body' = [body EXCEPT ![t] = "none"]
        /\ via' = [via EXCEPT ![t] = x]
        /\ pages' = pages \cup {t}
        /\ Delivered(x)
        /\ entry' = [r \in Resources |-> Removed(r, x)[r]]
        /\ guard' = [r \in Resources |-> [guard[r] EXCEPT ![x] = "none"]]
  /\ UNCHANGED <<sessionVars, opener, chromeVars, watcher, goal, callers, heard, attachment, replaced, told>>

(* pending.cleanup() of attach_known_page. *)
Detach(x) ==
  /\ pc[x] = "detach"
  /\ DetachSucceeds(x) \/ DetachFails(x)
  /\ entry' = Removed("page-attachment", x)
  /\ guard' = [guard EXCEPT !["page-attachment"][x] = "none"]
  /\ Failing(x)
  /\ UNCHANGED <<sessionVars, opener, watcher, goal, callers, heard, replaced, pageVars, told>>

(* pending.cleanup() of attach_created_target; its failure is part of the  *)
(* error that is sent to the caller.                                       *)
Undo(e) ==
  /\ pc[e] = "undo"
  /\ pc' = [pc EXCEPT ![e] = "done"]
  /\ lock' = Unlocked(e)
  /\ entry' = Removed("page", e)
  /\ guard' = [guard EXCEPT !["page"][e] = "none"]
  /\ IF Armed("page", e)
     THEN \/ CloseSucceeds(goal[e]) /\ UNCHANGED told
          \/ /\ CloseFails(goal[e])
             /\ told' = IF e \in callers THEN told \cup {goal[e]} ELSE told
     ELSE UNCHANGED <<chromeVars, told>>
  /\ UNCHANGED <<sessionVars, opener, watcher, goal, callers, heard, attachment, replaced, pageVars>>

-----------------------------------------------------------------------------
(* Calls that end early. *)

(* mutant: the lock stays taken *)
StoppedLocked(x) ==
  /\ pc' = [pc EXCEPT ![x] = "done"]
  /\ UNCHANGED lock
  /\ guard' = [r \in Resources |-> [guard[r] EXCEPT ![x] = IF goal[x] = Nobody THEN @ ELSE Dropped(r, x)]]

(* Every future of x is dropped. *)
Stopped(x) ==
  /\ pc' = [pc EXCEPT ![x] = "done"]
  /\ lock' = Unlocked(x)
  /\ guard' = [r \in Resources |-> [guard[r] EXCEPT ![x] = IF goal[x] = Nobody THEN @ ELSE Dropped(r, x)]]

(* The opener closes: its actions are cancelled at their next await. *)
Cancelled(e) ==
  /\ opener # "open" /\ pc[e] \notin {"idle", "undeliver", "done"}
  /\ Stopped(e)
  /\ heard' = [heard EXCEPT ![e] = <<>>]
  /\ UNCHANGED <<sessionVars, opener, chromeVars, watcher, goal, callers, attachment, entry, replaced, pageVars, told>>

(* The caller of attach_page is aborted. *)
AbortAttach(a) ==
  /\ pc[a] \notin {"idle", "done"}
  /\ Stopped(a)
  /\ callers' = callers \ {a}
  /\ UNCHANGED <<sessionVars, opener, chromeVars, watcher, goal, heard, attachment, entry, replaced, pageVars, told>>

(* The caller of expect_popup is aborted: its task goes on. *)
AbortExpect(e) ==
  /\ e \in callers /\ pc[e] # "done"
  /\ callers' = callers \ {e}
  /\ UNCHANGED <<sessionVars, opener, chromeVars, watcher, pc, goal, heard, lock, attachment, registry, pageVars, told>>

-----------------------------------------------------------------------------
(* Closing a page. *)

StartClose(t, b) ==
  /\ page[t] = "open"
  /\ page' = [page EXCEPT ![t] = "closing"]
  /\ body' = [body EXCEPT ![t] = b]

ClosePage(t) ==
  /\ t \in pages /\ StartClose(t, "close")
  /\ UNCHANGED <<sessionVars, opener, chromeVars, watcher, callVars, registry, own, via, pages, retained, told>>

(* mutant: an undelivered page is left open *)
UndeliverQuietly(e) ==
  /\ pc[e] = "undeliver"
  /\ pc' = [pc EXCEPT ![e] = "done"]
  /\ UNCHANGED <<page, body>>
  /\ UNCHANGED <<sessionVars, opener, chromeVars, watcher, goal, callers, heard, lock, attachment, registry, own, via, pages, retained, told>>

(* Nobody receives the page: the task closes it and waits. *)
Undeliver(e) ==
  /\ pc[e] = "undeliver"
  /\ \/ StartClose(goal[e], "close") /\ UNCHANGED pc
     \/ /\ page[goal[e]] \in {"closed", "failed"}
        /\ pc' = [pc EXCEPT ![e] = "done"]
        /\ UNCHANGED <<page, body>>
  /\ UNCHANGED <<sessionVars, opener, chromeVars, watcher, goal, callers, heard, lock, attachment, registry, own, via, pages, retained, told>>

(* The ownership is read, and what the page retains is taken, before the   *)
(* command is awaited.                                                     *)
ActOnClose(t) ==
  /\ page[t] = "closing" /\ body[t] = "close"
  /\ body' = [body EXCEPT ![t] = IF own[t] = "Created" THEN "target" ELSE "detach"]
  /\ retained' = IF own[t] = "Created" THEN retained \ {t} ELSE retained
  /\ UNCHANGED <<sessionVars, opener, chromeVars, watcher, callVars, registry, page, own, via, pages, told>>

Ended(t) ==
  /\ page' = [page EXCEPT ![t] = "closed"]
  /\ body' = [body EXCEPT ![t] = "none"]
  /\ pages' = pages \ {t}

NotEnded(t) ==
  /\ page' = [page EXCEPT ![t] = "failed"]
  /\ UNCHANGED <<body, pages>>

FinishClose(t) ==
  /\ page[t] = "closing"
  /\ \/ body[t] = "target" /\ CloseSucceeds(t) /\ Ended(t) /\ UNCHANGED attachment
     \/ body[t] = "target" /\ CloseFails(t) /\ NotEnded(t) /\ UNCHANGED attachment
     \/ body[t] = "detach" /\ DetachSucceeds(via[t]) /\ Ended(t)
     \/ /\ body[t] = "detach" /\ target[t] = "gone"
        /\ Ended(t) /\ UNCHANGED <<attachment, chromeVars>>
     \/ body[t] = "detach" /\ DetachFails(via[t]) /\ NotEnded(t)
  /\ UNCHANGED <<sessionVars, opener, watcher, pc, goal, callers, heard, lock, registry, own, via, retained, told>>

FinishGone(t) ==
  /\ page[t] = "closing" /\ body[t] \in {"destroyed", "session"}
  /\ Ended(t)
  /\ retained' = retained \ {t}
  /\ UNCHANGED <<sessionVars, opener, chromeVars, watcher, callVars, registry, own, via, told>>

-----------------------------------------------------------------------------
(* spawn_target_lifecycle. *)

Listening(e) == pc[e] \in {"act", "listen"}

ReadEvent ==
  /\ watcher[1] = "next" /\ events # <<>> /\ session # "closed"
  /\ events' = Tail(events)
  /\ LET t == Head(events)[2]
     IN IF Head(events)[1] = "created"
        THEN /\ heard' = [e \in Expectations |-> IF Listening(e) THEN Append(heard[e], t) ELSE heard[e]]
             /\ UNCHANGED watcher
        ELSE watcher' = <<"look", t>> /\ UNCHANGED heard
  /\ UNCHANGED <<sessionVars, opener, target, refused, pc, goal, callers, lock, attachment, registry, pageVars, told>>

(* Under page_attach_lock: a page that is being attached is seen once it   *)
(* is published.                                                           *)
LookUp(t) ==
  /\ watcher = <<"look", t>> /\ lock = Nobody
  /\ watcher' = IF t \in pages THEN <<"wait", t>> ELSE <<"next", Nobody>>
  /\ IF t \in pages /\ page[t] = "open" THEN StartClose(t, "destroyed") ELSE UNCHANGED <<page, body>>
  /\ UNCHANGED <<sessionVars, opener, chromeVars, callVars, registry, own, via, pages, retained, told>>

Watched(t) ==
  /\ watcher = <<"wait", t>> /\ page[t] \in {"closed", "failed"}
  /\ watcher' = <<"next", Nobody>>
  /\ UNCHANGED <<sessionVars, opener, chromeVars, callVars, registry, pageVars, told>>

-----------------------------------------------------------------------------
(* Closing the opener and the session. *)

CloseOpener ==
  /\ opener = "open"
  /\ opener' = "closing"
  /\ UNCHANGED <<sessionVars, chromeVars, watcher, callVars, registry, pageVars, told>>

DrainOpener ==
  /\ opener = "closing" /\ \A e \in Expectations : pc[e] \in {"idle", "undeliver", "done"}
  /\ opener' = "closed"
  /\ UNCHANGED <<sessionVars, chromeVars, watcher, callVars, registry, pageVars, told>>

CloseSession ==
  /\ session = "open"
  /\ session' = "drain"
  /\ UNCHANGED <<kind, context, sweep, visit, failed, opener, chromeVars, watcher, callVars, registry, pageVars, told>>

DrainSession ==
  /\ session = "drain" /\ \A x \in Procs : ~Holds(x)
  /\ session' = "sweep"
  /\ sweep' = pages
  /\ UNCHANGED <<kind, context, visit, failed, opener, chromeVars, watcher, callVars, registry, pageVars, told>>

(* pending_targets.cleanup_all. *)
SweepPending ==
  LET left(r) == {goal[x] : x \in {y \in Procs : guard[r][y] = "failed"}}
  IN /\ session = "sweep" /\ \A r \in Resources, t \in Targets : entry[r][t] = Nobody
     /\ session' = IF kind = "Default" THEN "pages" ELSE "context"
     /\ guard' = [r \in Resources |-> [x \in Procs |-> IF guard[r][x] = "failed" THEN "none" ELSE guard[r][x]]]
     /\ failed' = left("page") \cup left("page-attachment")
     /\ told' = told \cup left("page")
     /\ UNCHANGED <<kind, context, sweep, visit, opener, chromeVars, watcher, callVars, entry, replaced, pageVars>>

(* DisposeBrowserContext closes every target of the context, or fails. *)
DisposeContext ==
  LET dying == {t \in Targets : target[t] = "alive"}
  IN /\ session = "context"
     /\ \/ /\ context' = "gone" /\ session' = "mark"
           /\ target' = [t \in Targets |-> IF t \in dying THEN "gone" ELSE target[t]]
           /\ \E order \in [1..Cardinality(dying) -> dying] :
                /\ \A i, j \in DOMAIN order : order[i] = order[j] => i = j
                /\ events' = events \o [i \in DOMAIN order |-> <<"destroyed", order[i]>>]
           /\ UNCHANGED failed
        \/ /\ context' = "failed" /\ session' = "end"
           /\ failed' = failed \cup {Context}
           /\ UNCHANGED <<target, events>>
     /\ UNCHANGED <<kind, sweep, visit, opener, refused, watcher, callVars, registry, pageVars, told>>

VisitPage(t) ==
  /\ session \in {"pages", "mark"} /\ visit = Nobody /\ t \in sweep
  /\ visit' = t
  /\ sweep' = sweep \ {t}
  /\ \/ StartClose(t, IF session = "pages" THEN "close" ELSE "session")
     \/ page[t] # "open" /\ UNCHANGED <<page, body>>
  /\ UNCHANGED <<kind, session, context, failed, opener, chromeVars, watcher, callVars, registry, own, via, pages, retained, told>>

LeavePage(t) ==
  /\ visit = t /\ page[t] \in {"closed", "failed"}
  /\ visit' = Nobody
  /\ failed' = IF page[t] = "failed" THEN failed \cup {t} ELSE failed
  /\ told' = IF page[t] = "failed" THEN told \cup {t} ELSE told
  /\ UNCHANGED <<kind, session, context, sweep, opener, chromeVars, watcher, callVars, registry, pageVars>>

EndSession ==
  /\ \/ session = "end"
     \/ session \in {"pages", "mark"} /\ visit = Nobody /\ sweep = {}
  /\ session' = "closed"
  /\ events' = <<>>
  /\ pages' = IF failed = {} THEN {} ELSE pages
  /\ UNCHANGED <<kind, context, sweep, visit, failed, opener, target, refused, watcher, callVars, registry, page, body, own, via, retained, told>>

-----------------------------------------------------------------------------
ExpectationRuns(e) ==
  ActionEnds(e) \/ TimeOut(e) \/ Claim(e) \/ Undo(e) \/ Cancelled(e) \/ Undeliver(e) \/ CloseScheduled(e)
AttachmentRuns(x) ==
  \/ Find(x) \/ TakeLock(x) \/ Validate(x) \/ Attached(x) \/ NotAttached(x) \/ Frames(x)
  \/ FramesFail(x) \/ Publish(x) \/ Detach(x) \/ DetachScheduled(x)
WatcherRuns == ReadEvent \/ \E t \in Targets : LookUp(t) \/ Watched(t)
PageRuns(t) == ActOnClose(t) \/ FinishClose(t) \/ FinishGone(t)
SessionRuns ==
  \/ DrainSession \/ SweepPending \/ DisposeContext \/ EndSession
  \/ \E t \in Targets : VisitPage(t) \/ LeavePage(t)
Calls ==
  \/ CloseOpener \/ CloseSession
  \/ \E t \in Targets : OpenPopup(t) \/ DestroyTarget(t) \/ ClosePage(t)
  \/ \E e \in Expectations : Expect(e) \/ AbortExpect(e)
  \/ \E a \in Attachers : AbortAttach(a) \/ \E t \in Targets : Attach(a, t)

Runs ==
  \/ WatcherRuns \/ DrainOpener \/ SessionRuns
  \/ \E e \in Expectations : ExpectationRuns(e)
  \/ \E x \in Procs : AttachmentRuns(x)
  \/ \E t \in Targets : PageRuns(t)

Next == Calls \/ Runs

Spec == Init /\ [][Next]_vars

(* Tokio polls what is ready, Chrome answers or the deadline of a command  *)
(* passes, and the action given to expect_popup ends.  With boundedly many *)
(* calls there are boundedly many such steps, so that something is done    *)
(* while there is something to do is all that has to be assumed.           *)
Fairness == WF_vars(Runs)

FairSpec == Spec /\ Fairness

-----------------------------------------------------------------------------
(* Every call, page and registration is in one of its states; who is in a  *)
(* section under page_attach_lock holds it.                                *)
TypeOK ==
  /\ kind \in Kinds
  /\ session \in {"open", "drain", "sweep", "pages", "context", "mark", "end", "closed"}
  /\ context \in {"none", "alive", "gone", "failed"}
  /\ opener \in {"open", "closing", "closed"}
  /\ target \in [Targets -> {"absent", "alive", "gone"}]
  /\ events \in Seq({"created", "destroyed"} \X Targets)
  /\ watcher \in {"next", "look", "wait"} \X (Targets \cup {Nobody})
  /\ pc \in [Procs -> States] /\ goal \in [Procs -> Targets \cup {Nobody}]
  /\ callers \subseteq Procs
  /\ heard \in [Expectations -> Seq(Targets)]
  /\ lock \in Procs \cup {Nobody}
  /\ \A x \in Procs : pc[x] \in Locked <=> lock = x
  /\ attachment \in [Procs -> {"none", "sent", "live"}]
  /\ entry \in [Resources -> [Targets -> Procs \cup {Nobody}]]
  /\ guard \in [Resources -> [Procs -> {"none", "armed", "scheduled", "failed"}]]
  /\ page \in [Targets -> {"none", "open", "closing", "closed", "failed"}]
  /\ body \in [Targets -> {"none", "close", "detach", "target", "destroyed", "session"}]
  /\ own \in [Targets -> {"none", "Attached", "Created"}]
  /\ via \in [Targets -> Procs \cup {Nobody}]
  /\ pages \cup sweep \cup told \cup retained \subseteq Targets
  /\ visit \in Targets \cup {Nobody}
  /\ failed \subseteq Targets \cup {Context} /\ refused \subseteq Targets \cup Procs /\ replaced \subseteq Procs

Claimed(t) == \E e \in Expectations : goal[e] = t

(* Who still has the popup t in its care. *)
Owned(t) ==
  \/ \E e \in Expectations : goal[e] = t /\ guard["page"][e] \in {"scheduled", "failed"}
  \/ entry["page"][t] # Nobody
  \/ t \in retained
  \/ t \in pages /\ own[t] = "Created"
  \/ context \in {"alive", "failed"}

(* "As soon as it consumes the queued fact, every later await is covered   *)
(* by CloseTarget" (expect_popup): a popup that an expectation claimed     *)
(* stays in somebody's care, or Chrome was asked in vain to close it.      *)
ClaimedPopupIsOwned ==
  \A t \in Targets : Claimed(t) /\ target[t] = "alive" => Owned(t) \/ t \in refused

(* "without taking target ownership" (attach_page): this code asks Chrome  *)
(* to close a target only when an expectation claimed it.                  *)
BorrowedIsNotClosed ==
  \A t \in Targets : page[t] = "closing" /\ body[t] = "target" => Claimed(t)

(* The attach lock: one CDP session of a target at a time is on its way to *)
(* a page or belongs to one.                                               *)
OneAttachment ==
  \A t \in Targets, x, y \in Procs :
    LET uses(z) ==
          /\ goal[z] = t /\ attachment[z] = "live"
          /\ \/ guard["page-attachment"][z] = "armed"
             \/ t \in pages /\ via[t] = z
    IN uses(x) /\ uses(y) => x = y

(* BrowserSession::close, "returns all cleanup outcomes": after a complete *)
(* report no CDP session is left on a live target, unless its registration *)
(* was replaced or its failure was an answer to a caller.                  *)
CompleteCloseLeavesNothing ==
  session = "closed" /\ failed = {} =>
    \A x \in Procs :
      attachment[x] = "live" /\ target[goal[x]] = "alive" => x \in replaced \cup refused

(* An attachment is made once, is given up without its target unless the   *)
(* target is owned, and does not outlive a complete close of the session.  *)
AttachmentsAreAccounted ==
  OneAttachment /\ BorrowedIsNotClosed /\ CompleteCloseLeavesNothing

(* "Every explicit close() returns a CloseReport" (README.md): the close   *)
(* of the opener, which cancels its expectations, and the close of the     *)
(* session, which waits for them, come to an end.                          *)
Closing == opener = "closing" \/ session \notin {"open", "closed"}

ClosesReturn == Closing ~> ~Closing

(* A popup claimed for callers that are gone is closed, unless Chrome does *)
(* not, or another call has it too.                                        *)
Stray(t) ==
  /\ Claimed(t) /\ \A x \in callers : goal[x] # t
  /\ target[t] = "alive" /\ t \notin refused

AbortedPopupIsClosed == \A t \in Targets : Stray(t) ~> ~Stray(t)

(* A claimed popup is owned by somebody, no target is attached twice, and   *)
(* what was only borrowed is left alone.                                    *)
PopupsAreAccounted == ClaimedPopupIsOwned /\ AttachmentsAreAccounted
=============================================================================
