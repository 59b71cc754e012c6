------------------------------ MODULE PageActions -----------------------------
(***************************************************************************)
(* src/runtime/action.rs with action/input.rs and locator/resolver.rs: the *)
(* actions of locators, frames and pages.                                  *)
(*                                                                         *)
(* A locator is bound to the document it was made for.  An action resolves *)
(* it in an isolated world of the page, through an object group that must  *)
(* be released, and then sends input to the page by coordinates: to        *)
(* whatever document is there.  Documents change between any two commands, *)
(* the frame store hears of it later than Chrome, a command may fail, the  *)
(* caller may go away, and the page may be closed.                         *)
(*                                                                         *)
(* Abstracted: the element and its facts (found and fit, or not), geometry,*)
(* keys and coordinates; the routes of frames, which FrameRoutes models.   *)
(***************************************************************************)
EXTENDS Integers, Sequences

CONSTANTS
  Acts,          \* actions, possibly at the same time
  MaxDocuments,  \* bound on the documents of the page
  MaxClicks      \* bound on the clicks of one action, and on keys and drag moves

VARIABLES
  doc,      \* Chrome's document
  store,    \* the document the frame store knows
  groups,   \* actions whose object group is alive in Chrome
  closing,  \* "open", "closing" or "closed"
  act       \* the actions

actionVars == <<doc, store, groups, closing, act>>

\* Input by pointer, keys, a function called on the element, a command by
\* node (focus, scroll into view, set files).
Kinds == [locator |-> {"click", "check", "hover", "drag", "keys", "call", "node"},
          frame |-> {"click", "hover", "keys"},
          page |-> {"click", "hover", "keys"}]
Unused == [on |-> "none", kind |-> "none", pc |-> "idle", want |-> 0, node |-> 0, left |-> 0,
           again |-> FALSE, bad |-> FALSE, guard |-> "none", spawned |-> FALSE,
           abandoned |-> FALSE, scrolled |-> FALSE, down |-> FALSE, sent |-> 0,
           input |-> {}, told |-> "none"]

At(a, pc) == act[a].pc = pc
Ended(a) == act[a].pc \in {"idle", "ended"}
To(a, pc) == act' = [act EXCEPT ![a].pc = pc]
\* The action returns.  A guard it still holds is dropped: its cleanup runs
\* in the background.
Ends(a, told) ==
  act' = [act EXCEPT ![a].pc = "ended", ![a].told = told,
                     ![a].guard = IF @ = "held" THEN "dropped" ELSE @]
\* Input goes to the document that is there.
Sends(a, pc, down) ==
  act' = [act EXCEPT ![a].pc = pc, ![a].down = down, ![a].input = @ \cup {doc},
                     ![a].sent = @ + 1]
Same == UNCHANGED <<doc, store, closing>>
Quiet == Same /\ UNCHANGED groups

Elements(a) == IF act[a].kind = "drag" THEN 2 ELSE 1

-----------------------------------------------------------------------------
(* The page *)

Navigate ==
  /\ doc < MaxDocuments /\ closing # "closed"
  /\ doc' = doc + 1 /\ groups' = {}
  /\ UNCHANGED <<store, closing, act>>

Apply ==
  /\ store < doc /\ store' = store + 1
  /\ UNCHANGED <<doc, groups, closing, act>>

\* The guards' cleanups: a group is released, or stays owned by the page.
Cleanup(a) ==
  /\ act[a].guard = "dropped"
  /\ \/ groups' = groups \ {a} /\ act' = [act EXCEPT ![a].guard = "none"]
     \/ act' = [act EXCEPT ![a].guard = "retained"] /\ UNCHANGED groups
  /\ Same

Permit(a) == ~Ended(a)

ClosePage ==
  \/ closing = "open" /\ closing' = "closing" /\ UNCHANGED <<doc, store, groups, act>>
  \/ /\ closing = "closing" /\ \A a \in Acts : ~Permit(a)
     /\ closing' = "closed" /\ groups' = {}
     /\ act' = [a \in Acts |-> [act[a] EXCEPT !.guard = "none"]]
     /\ UNCHANGED <<doc, store>>

-----------------------------------------------------------------------------
(* Resolving the locator *)

\* The gate admits the action, and the locator's scope holds so far.
Admit(a) ==
  /\ At(a, "idle") /\ closing = "open"
  /\ \E on \in DOMAIN Kinds : \E k \in Kinds[on] :
       act' = [act EXCEPT ![a].on = on, ![a].kind = k, ![a].want = store,
                          ![a].left = IF k = "drag" THEN 2 ELSE 1,
                          ![a].pc = CASE on = "locator" -> "world"
                                      [] on = "frame" -> "fence"
                                      [] on = "page" -> "spawn"]
  /\ Quiet

Unresolved(a) == Ends(a, IF act[a].again THEN "Unknown" ELSE "NotStarted")
InScope(a) == store = act[a].want

\* Mutant: the cleanup is registered when the element is known.
MakeWorldBare(a) ==
  /\ At(a, "world")
  /\ \/ /\ InScope(a)
        /\ act' = [act EXCEPT ![a].node = doc, ![a].bad = FALSE, ![a].pc = "evaluate"]
     \/ Unresolved(a)
  /\ Quiet

\* CreateIsolatedWorld; then the cleanup of the object group is registered.
MakeWorld(a) ==
  /\ At(a, "world")
  /\ \/ /\ InScope(a)
        /\ act' = [act EXCEPT ![a].node = doc, ![a].guard = "held", ![a].bad = FALSE,
                              ![a].pc = "evaluate"]
     \/ Unresolved(a)
  /\ Quiet

\* Evaluate, CallFunctionOn for the facts, DescribeNode: each needs the world.
Evaluate(a) ==
  /\ At(a, "evaluate")
  /\ \/ /\ act[a].node = doc /\ groups' = groups \cup {a} /\ To(a, "observe")
     \/ /\ act' = [act EXCEPT ![a].bad = TRUE, ![a].pc = "release"] /\ UNCHANGED groups
  /\ Same

Observe(a) ==
  /\ At(a, "observe")
  /\ \E bad \in BOOLEAN :
       /\ act[a].node # doc => bad
       /\ act' = [act EXCEPT ![a].bad = bad \/ ~InScope(a), ![a].pc = "release"]
  /\ Quiet

\* cleanup.cleanup().await, on every path; then the gate's facts.
Release(a) ==
  /\ At(a, "release")
  /\ \/ /\ groups' = groups \ {a}
        /\ act' = [act EXCEPT ![a].guard = "none", ![a].pc = "resolved"]
     \/ /\ act' = [act EXCEPT ![a].guard = "retained", ![a].bad = TRUE, ![a].pc = "resolved"]
        /\ UNCHANGED groups
  /\ Same

Resolved(a) ==
  /\ At(a, "resolved")
  /\ \/ /\ ~act[a].bad /\ InScope(a)
        /\ IF act[a].left > 1 THEN act' = [act EXCEPT ![a].left = @ - 1, ![a].pc = "world"]
           ELSE To(a, CASE act[a].again -> "point"
                        [] act[a].kind = "drag" -> "spawn"
                        [] OTHER -> "authorize")
     \/ Unresolved(a)
  /\ Quiet

\* validate_locator_route_authoritative: Chrome's frame tree and the store.
Authentic(a) == doc = act[a].want /\ InScope(a)

Authorize(a) ==
  /\ At(a, "authorize")
  /\ \/ /\ Authentic(a)
        /\ \/ To(a, CASE act[a].kind = "call" -> "object"
                      [] act[a].kind = "node" -> "check node"
                      [] OTHER -> "spawn")
           \/ act[a].kind = "check" /\ Ends(a, "ok")        \* it is as wanted
           \/ act[a].kind = "node"                          \* focus checks in its task
              /\ act' = [act EXCEPT ![a].spawned = TRUE, ![a].pc = "check node"]
     \/ Ends(a, "NotStarted")
  /\ Quiet

\* dispatched and spawn_dispatched: from here a task of its own has the permit.
Spawn(a) ==
  /\ At(a, "spawn")
  /\ act' = [act EXCEPT ![a].spawned = TRUE,
               ![a].pc = IF act[a].on = "locator" THEN IF act[a].kind = "keys" THEN "focus" ELSE "scroll"
                         ELSE IF act[a].kind = "keys" THEN "key down" ELSE "move"]
  /\ Quiet

-----------------------------------------------------------------------------
(* A function called on the element, a command by its node *)

\* call_element: the guard is registered, then ResolveNode.
ResolveNode(a) ==
  /\ At(a, "object")
  /\ \/ /\ act[a].node = doc /\ groups' = groups \cup {a}
        /\ act' = [act EXCEPT ![a].guard = "held", ![a].pc = "check object"]
     \/ /\ act' = [act EXCEPT ![a].pc = "ended", ![a].told = "NotStarted", ![a].guard = "dropped"]
        /\ UNCHANGED groups
  /\ Same

\* validate_route before the command; a call is spawned after it.
CheckObject(a) ==
  /\ At(a, "check object") \/ At(a, "check node")
  /\ \/ /\ Authentic(a)
        /\ act' = [act EXCEPT ![a].spawned = TRUE, ![a].pc = "command"]
     \/ Ends(a, "NotStarted")
  /\ Quiet

\* The command reaches the element if its document is still there.
Command(a) ==
  /\ At(a, "command")
  /\ \E ok \in BOOLEAN :
       /\ ok => act[a].node = doc
       /\ act' = [act EXCEPT
                    ![a].input = IF act[a].node = doc THEN @ \cup {doc} ELSE @,
                    ![a].bad = ~ok,
                    ![a].pc = IF act[a].kind = "call" THEN "cleanup" ELSE "ended",
                    ![a].told = IF act[a].kind = "call" THEN @ ELSE IF ok THEN "ok" ELSE "Unknown"]
  /\ Quiet

CallCleanup(a) ==
  /\ At(a, "cleanup")
  /\ \/ /\ groups' = groups \ {a}
        /\ act' = [act EXCEPT ![a].pc = "ended", ![a].guard = "none",
                              ![a].told = IF act[a].bad THEN "Unknown" ELSE "ok"]
     \/ /\ act' = [act EXCEPT ![a].pc = "ended", ![a].guard = "retained",
                              ![a].told = IF act[a].bad THEN "Unknown" ELSE "Completed"]
        /\ UNCHANGED groups
  /\ Same

-----------------------------------------------------------------------------
(* Input *)

\* The element is scrolled into view, and the locator resolved once more.
Scroll(a) ==
  /\ At(a, "scroll")
  /\ \/ act' = [act EXCEPT ![a].scrolled = TRUE, ![a].again = TRUE, ![a].pc = "world",
                           ![a].left = Elements(a)]
     \/ act' = [act EXCEPT ![a].scrolled = TRUE, ![a].pc = "ended", ![a].told = "Unknown"]
  /\ Quiet

Point(a) ==
  /\ At(a, "point")
  /\ (act[a].node = doc /\ To(a, "freeze")) \/ Ends(a, "Unknown")
  /\ Quiet

\* point_after_dispatch gives the errors of for_route as they are; a drag does not.
Freeze(a) ==
  /\ At(a, "freeze")
  /\ \/ /\ InScope(a)
        /\ To(a, "fence") \/ (act[a].kind = "check" /\ Ends(a, "ok"))
     \/ Ends(a, IF act[a].kind = "drag" THEN "Unknown" ELSE "NotStarted")
  /\ Quiet

\* GeometryFence::validate.  An action on a frame has not been started yet.
Fence(a) ==
  /\ At(a, "fence")
  /\ \/ Authentic(a) /\ To(a, IF act[a].on = "frame" THEN "spawn" ELSE "move")
     \/ Ends(a, IF act[a].on = "frame" THEN "NotStarted" ELSE "Unknown")
  /\ Quiet

\* Only an action on a page ends without a confirmation.
AfterInput(a) == IF act[a].on = "page" THEN "done" ELSE "confirm"

Move(a) ==
  /\ At(a, "move")
  /\ \/ Sends(a, IF act[a].kind = "hover" THEN AfterInput(a) ELSE "press", FALSE)
     \/ Sends(a, "unknown", FALSE)
  /\ Quiet

Press(a) ==
  /\ At(a, "press")
  /\ \/ Sends(a, IF act[a].kind = "drag" THEN "drag" ELSE "let up", TRUE)
     \/ Sends(a, "let go", TRUE)
  /\ Quiet

\* Mutant: a movement that fails ends the drag.
DragMoveGivesUp(a) ==
  /\ At(a, "drag")
  /\ \/ act[a].sent < MaxClicks + 2 /\ Sends(a, "drag", TRUE)
     \/ Sends(a, "let up", TRUE)
     \/ Sends(a, "unknown", TRUE)
  /\ Quiet

DragMove(a) ==
  /\ At(a, "drag")
  /\ \/ act[a].sent < MaxClicks + 2 /\ Sends(a, "drag", TRUE)
     \/ Sends(a, "let up", TRUE)
     \/ Sends(a, "let go", TRUE)
  /\ Quiet

ReleaseMouse(a) ==
  /\ At(a, "let up")
  /\ \/ Sends(a, AfterInput(a), FALSE)
     \/ act[a].kind = "click" /\ act[a].sent < 2 * MaxClicks /\ Sends(a, "press", FALSE)
     \/ Sends(a, "unknown", FALSE)
  /\ Quiet

\* release_after_primary_failure, whatever comes of it.
LetGo(a) ==
  /\ At(a, "let go") /\ Sends(a, "unknown", FALSE)
  /\ Quiet

\* Keys: the element gets the focus, and its document is checked once more.
Focus(a) ==
  /\ At(a, "focus")
  /\ (act[a].node = doc /\ To(a, "check focus")) \/ Ends(a, "Unknown")
  /\ Quiet

CheckFocus(a) ==
  /\ At(a, "check focus")
  /\ (Authentic(a) /\ To(a, "key down")) \/ Ends(a, "Unknown")
  /\ Quiet

KeyDown(a) ==
  /\ At(a, "key down")
  /\ Sends(a, "key up", FALSE) \/ Sends(a, "unknown", FALSE)
  /\ Quiet

KeyUp(a) ==
  /\ At(a, "key up")
  /\ \/ Sends(a, IF act[a].on = "frame" THEN "confirm" ELSE "done", FALSE)
     \/ act[a].sent < 2 * MaxClicks /\ Sends(a, "key down", FALSE)
     \/ Sends(a, "unknown", FALSE)
  /\ Quiet

\* Mutant: only the store is asked.
ConfirmInScope(a) ==
  /\ At(a, "confirm")
  /\ (InScope(a) /\ Ends(a, "ok")) \/ Ends(a, "Completed")
  /\ Quiet

\* The document is confirmed after the input.
Confirm(a) ==
  /\ At(a, "confirm")
  /\ (Authentic(a) /\ Ends(a, "ok")) \/ Ends(a, "Completed")
  /\ Quiet

Return(a) ==
  /\ \/ At(a, "done") /\ Ends(a, "ok")
     \/ At(a, "unknown") /\ Ends(a, "Unknown")
  /\ Quiet

\* The caller goes away: a spawned task goes on without it.
Abort(a) ==
  /\ ~Ended(a) /\ ~act[a].abandoned
  /\ IF act[a].spawned THEN act' = [act EXCEPT ![a].abandoned = TRUE]
     ELSE Ends(a, "nobody")
  /\ Quiet

-----------------------------------------------------------------------------
ActionInit ==
  /\ doc = 1 /\ store = 1 /\ groups = {} /\ closing = "open"
  /\ act = [a \in Acts |-> Unused]

ActRuns(a) ==
  \/ MakeWorld(a) \/ Evaluate(a) \/ Observe(a) \/ Release(a) \/ Resolved(a) \/ Authorize(a)
  \/ Spawn(a) \/ ResolveNode(a) \/ CheckObject(a) \/ Command(a) \/ CallCleanup(a) \/ Scroll(a)
  \/ Point(a) \/ Freeze(a) \/ Fence(a) \/ Move(a) \/ Press(a) \/ DragMove(a) \/ ReleaseMouse(a)
  \/ LetGo(a) \/ Focus(a) \/ CheckFocus(a) \/ KeyDown(a) \/ KeyUp(a) \/ Confirm(a) \/ Return(a)

ActionNext ==
  \/ Navigate \/ Apply \/ ClosePage
  \/ \E a \in Acts : Admit(a) \/ ActRuns(a) \/ Abort(a) \/ Cleanup(a)

ActionSpec == ActionInit /\ [][ActionNext]_actionVars

-----------------------------------------------------------------------------
(* Properties *)

(* A pointer action that succeeds, and a frame's key press, sent all their  *)
(* input to the document their locator or frame was made for, although the  *)
(* coordinates were taken before and the page may navigate at any time.     *)
ActsOnItsDocument ==
  \A a \in Acts :
    (/\ act[a].told = "ok"
     /\ act[a].on = "frame" \/ (act[a].on = "locator" /\ act[a].kind # "keys"))
      => act[a].input \subseteq {act[a].want}

(* An action that has ended has sent a release after its last press:        *)
(* neither a failed movement, nor a caller that went away, nor a close of   *)
(* the page leaves the button down, and a page is not closed under it.      *)
EveryPressIsReleased ==
  /\ \A a \in Acts : Ended(a) => ~act[a].down
  /\ closing = "closed" => \A a \in Acts : Ended(a)

(* An object group that lives in Chrome has a guard, a cleanup under way or *)
(* a place among the page's retained cleanups.                              *)
NoObjectLeaks == \A a \in groups : act[a].guard # "none"

(* A caller told that its action was not started can repeat it: no input    *)
(* was sent and no function was called on the element.                      *)
NotStartedIsHonest == \A a \in Acts : act[a].told = "NotStarted" => act[a].input = {}

(* Input reaches the document the locator was made for, or the action does  *)
(* not succeed and does not say that nothing was started; no button stays   *)
(* down and no object group is forgotten, whatever fails.                   *)
ActionsAreSound ==
  ActsOnItsDocument /\ NotStartedIsHonest /\ EveryPressIsReleased /\ NoObjectLeaks

-----------------------------------------------------------------------------
(***************************************************************************)
(* Where something in a nested frame lies in the page (runtime/geometry.rs):*)
(* the frames from it to the main frame are frozen (runtime/frame.rs), the  *)
(* box of each frame's owner and the viewport of each frame are read one    *)
(* after the other, what was found is used for a screenshot or for input,   *)
(* and a fence reads everything again, while the page scrolls, lays out and *)
(* navigates.                                                               *)
(*                                                                          *)
(* One dimension stands for two, whole numbers for finite ones; owners are  *)
(* moved and scaled, so a homography is that; a quad is an interval.        *)
(***************************************************************************)
CONSTANTS
  Depth,       \* frames from the innermost, 1, to the main frame
  Boxes,       \* an owner's content box in its parent's viewport: at, scale, size
  Widths,      \* innerWidth of a frame, with its visual viewport's
  Tops,        \* the page's visual viewport: aperture, page
  Sources,     \* intervals asked for
  MaxChanges   \* bound: changes in the page during a call

VARIABLES
  box, width, top,   \* as they are in Chrome
  document,    \* version of each frame's document
  split,       \* frames that run in another session than their parent
  call,        \* kind, pc, at: the call, what it does and the frame it is at
  quad,        \* what was mapped so far
  fence,       \* what was read: routes, owners, views, top
  used,        \* history: the truth when the quad was used
  changes,     \* number of changes
  earlier,     \* history: values seen in Chrome before
  returned     \* history: a value came back

geometryVars == <<box, width, top, document, split, call, quad, fence, used, changes, earlier, returned>>

Frames == 1..Depth
Inner == 1..(Depth - 1)
chrome == <<box, width, top, document>>
history == <<changes, earlier, returned>>

\* An interval of a frame's viewport in the viewport of its parent.
Lift(i, q) == [lo |-> box[i].at + box[i].scale * q.lo, hi |-> box[i].at + box[i].scale * q.hi]

\* ... in the viewport of the outermost frame of its session, and in the page.
Root(i) == CHOOSE j \in i..Depth : (j = Depth \/ j \in split) /\ \A k \in i..(j - 1) : k \notin split
InSession(i, q) ==
  LET up[j \in Frames] == IF j = i THEN q ELSE IF j - 1 \in split THEN up[j - 1] ELSE Lift(j - 1, up[j - 1])
  IN up[Root(i)]
InPage(i, q) ==
  LET up[j \in Frames] == IF j = i THEN q ELSE Lift(j - 1, up[j - 1])
  IN [lo |-> up[Depth].lo + top.page, hi |-> up[Depth].hi + top.page]

\* DOM.getBoxModel: in the session's viewport, with the layout size.
Owner(i) == [quad |-> InSession(i + 1, Lift(i, [lo |-> 0, hi |-> box[i].size])), size |-> box[i].size]
View(i) == [width |-> width[i], document |-> document[i]]

Within(q, lo, hi) == lo <= q.lo /\ q.hi <= hi
WithinOwner(q, owner) == Within(q, owner.quad.lo, owner.quad.hi)

\* project_quad: from an aperture of this width to the owner's content box.
Project(q, owner, aperture) ==
  LET Of(x) == owner.quad.lo + (x * (owner.quad.hi - owner.quad.lo)) \div aperture
  IN [lo |-> Of(q.lo), hi |-> Of(q.hi)]

\* Mutant: the viewport's size is not compared with the owner's.
MatchesAny(view, owner) == view.width = view.width

\* ensure_source_matches_owner.
Matches(view, owner) == view.width = owner.size

-----------------------------------------------------------------------------
(* Mapping *)

Goes(pc) == call' = [call EXCEPT !.pc = pc]
Fails == call' = [call EXCEPT !.pc = "failed"] /\ UNCHANGED <<quad, fence>>
Placed(pc) == call.pc = pc

\* Geometry::for_frame, for_route: freeze_locator_lineage.
Begin(kind, q) ==
  /\ Placed("idle")
  /\ call' = [kind |-> kind, pc |-> IF kind = "view" /\ Depth > 1 THEN "outer" ELSE "owner", at |-> 1, from |-> q]
  /\ quad' = q
  /\ fence' = [fence EXCEPT !.routes = document]
  /\ UNCHANGED <<chrome, split, used, history>>

\* map_frame_owner_to_top_page: the frame's own box, then from its parent up.
ReadOuter ==
  /\ Placed("outer")
  /\ quad' = Owner(1).quad
  /\ fence' = [fence EXCEPT !.owners[1] = <<Owner(1)>>]
  /\ call' = [call EXCEPT !.pc = "owner", !.at = 2]
  /\ UNCHANGED <<chrome, split, used, history>>

\* The boundaries that are mapped: for a point those of its session only.
More(i) == i < Depth /\ (call.kind = "point" => i \notin split)
\* Within one session boxes are already in its viewport.
Projects(i) == i \in split \/ call.kind = "point"

\* read_owner.
ReadOwner ==
  LET i == call.at IN
  /\ Placed("owner") /\ More(i)
  /\ IF Projects(i)
     THEN Goes("view") /\ fence' = [fence EXCEPT !.owners[i] = <<Owner(i)>>] /\ UNCHANGED quad
     ELSE IF WithinOwner(quad, Owner(i))
          THEN /\ call' = [call EXCEPT !.at = i + 1]
               /\ fence' = [fence EXCEPT !.owners[i] = <<Owner(i)>>] /\ UNCHANGED quad
          ELSE Fails
  /\ UNCHANGED <<chrome, split, used, history>>

\* read_frame_viewport in the frame's main world, validated before and after.
ReadView ==
  LET i == call.at
      owner == fence.owners[i][1]
      view == View(i)
      lifted == Project(quad, owner, view.width)
  IN
  /\ Placed("view")
  /\ IF /\ document[i] = fence.routes[i]
        /\ Matches(view, owner) /\ Within(quad, 0, view.width) /\ WithinOwner(lifted, owner)
     THEN /\ quad' = lifted /\ fence' = [fence EXCEPT !.views[i] = <<view>>]
          /\ call' = [call EXCEPT !.pc = "owner", !.at = i + 1]
     ELSE Fails
  /\ UNCHANGED <<chrome, split, used, history>>

\* read_top_viewport; a point is given to its session as it is.
ReadTop ==
  /\ Placed("owner") /\ ~More(call.at)
  /\ IF call.kind = "point" THEN Goes("prepare") /\ UNCHANGED <<quad, fence>>
     ELSE IF Within(quad, 0, top.aperture)
          THEN /\ quad' = [lo |-> quad.lo + top.page, hi |-> quad.hi + top.page]
               /\ fence' = [fence EXCEPT !.top = <<top>>] /\ Goes("prepare")
          ELSE Fails
  /\ UNCHANGED <<chrome, split, used, history>>

\* Where what was asked for is now.
Truth ==
  CASE call.kind = "point" -> InSession(1, call.from)
    [] call.kind = "quad" -> InPage(Root(1), call.from)
    [] OTHER -> InPage(2, Lift(1, [lo |-> 0, hi |-> box[1].size]))

\* The screenshot is taken, the input dispatched.
Use ==
  /\ Placed("use") /\ used' = <<[truth |-> Truth, documents |-> document]>>
  /\ Goes("confirm") /\ UNCHANGED <<chrome, split, quad, fence, history>>

-----------------------------------------------------------------------------
(* GeometryFence::validate, before the use and after it *)

Fencing == call.pc \in {"prepare", "confirm"}
NextCheck == CASE Placed("prepare") -> "prepareOwners" [] OTHER -> "confirmOwners"

\* Mutant: the documents are those the store was told of.
LineageOfStore ==
  /\ Fencing
  /\ call' = [call EXCEPT !.pc = NextCheck, !.at = 1]
  /\ UNCHANGED <<chrome, split, quad, fence, used, history>>

\* validate_locator_lineage_authoritative.
CheckLineage ==
  /\ Fencing
  /\ IF document = fence.routes
     THEN call' = [call EXCEPT !.pc = NextCheck, !.at = 1] ELSE Goes("failed")
  /\ UNCHANGED <<chrome, split, quad, fence, used, history>>

Checking == call.pc \in {"prepareOwners", "confirmOwners"}

\* Mutant: only viewports are read again.
SameBoundaryView(i) == fence.views[i] # <<>> => fence.views[i] = <<View(i)>>

\* Owner and viewport as they were; each is a command of its own, and the next
\* boundary follows.
SameBoundary(i) ==
  /\ fence.owners[i] # <<>> => fence.owners[i] = <<Owner(i)>>
  /\ fence.views[i] # <<>> => fence.views[i] = <<View(i)>>
CheckBoundary ==
  LET i == call.at IN
  /\ Checking /\ i < Depth
  /\ call' = IF SameBoundary(i) THEN [call EXCEPT !.at = i + 1] ELSE [call EXCEPT !.pc = "failed"]
  /\ UNCHANGED <<chrome, split, quad, fence, used, history>>

\* Mutant: the page's scroll is not read again.
SameAperture == fence.top # <<>> => fence.top[1].aperture = top.aperture

SameTop == fence.top # <<>> => fence.top = <<top>>
CheckTop ==
  /\ Checking /\ call.at = Depth
  /\ Goes(CASE ~SameTop -> "failed" [] Placed("prepareOwners") -> "use" [] OTHER -> "told")
  /\ UNCHANGED <<chrome, split, quad, fence, used, history>>

-----------------------------------------------------------------------------
(* The page *)

Busy == call.pc \notin {"idle", "failed", "told"} /\ changes < MaxChanges
Noted(what, old, new) ==
  /\ changes' = changes + 1
  /\ earlier' = earlier \cup {<<what, old>>}
  /\ returned' = (returned \/ <<what, new>> \in earlier)

ChangeBox(i) ==
  /\ Busy
  /\ \E new \in Boxes \ {box[i]} :
       box' = [box EXCEPT ![i] = new] /\ Noted(<<"box", i>>, <<box[i]>>, <<new>>)
  /\ UNCHANGED <<width, top, document, split, call, quad, fence, used>>

\* A frame learns of its new width later than its parent.
ChangeWidth(i) ==
  /\ Busy
  /\ \E new \in Widths \ {width[i]} :
       width' = [width EXCEPT ![i] = new] /\ Noted(<<"width", i>>, <<width[i]>>, <<new>>)
  /\ UNCHANGED <<box, top, document, split, call, quad, fence, used>>

ChangeTop ==
  /\ Busy
  /\ \E new \in Tops \ {top} : top' = new /\ Noted(<<"top", 0>>, <<top>>, <<new>>)
  /\ UNCHANGED <<box, width, document, split, call, quad, fence, used>>

NavigateFrame(i) ==
  /\ Busy
  /\ document' = [document EXCEPT ![i] = @ + 1]
  /\ Noted(<<"document", i>>, <<document[i]>>, <<document[i] + 1>>)
  /\ UNCHANGED <<box, width, top, split, call, quad, fence, used>>

-----------------------------------------------------------------------------
(* Specification *)

GeometryInit ==
  /\ box \in [Inner -> Boxes] /\ top \in Tops
  /\ width = [i \in Inner |-> box[i].size]
  /\ document = [i \in Frames |-> 1] /\ split \in SUBSET Inner
  /\ call = [kind |-> "none", pc |-> "idle", at |-> 1, from |-> [lo |-> 0, hi |-> 0]]
  /\ quad = [lo |-> 0, hi |-> 0]
  /\ fence = [routes |-> document, owners |-> [i \in Inner |-> <<>>],
              views |-> [i \in Inner |-> <<>>], top |-> <<>>]
  /\ used = <<>> /\ changes = 0 /\ earlier = {} /\ returned = FALSE

GeometryNext ==
  \/ \E kind \in {"quad", "view", "point"}, q \in Sources : Begin(kind, q)
  \/ ReadOuter \/ ReadOwner \/ ReadView \/ ReadTop \/ Use \/ CheckLineage \/ CheckBoundary \/ CheckTop
  \/ \E i \in Inner : ChangeBox(i) \/ ChangeWidth(i)
  \/ ChangeTop \/ \E i \in Frames : NavigateFrame(i)

GeometrySpec == GeometryInit /\ [][GeometryNext]_geometryVars

-----------------------------------------------------------------------------
(* Properties *)

\* What a fence confirms was true when it was used, in the documents the call
\* began with, although no two of its values were read at once: unless a value
\* changed and came back.  A point of a frame nested twice in one session is
\* mapped through boxes that are already the session's.
MappedIsTrue ==
  Placed("told") /\ ~returned /\ ~(call.kind = "point" /\ Root(1) > 2) =>
    used[1].truth = quad /\ used[1].documents = fence.routes

\* ... and all of it was to be seen.
MappedIsVisible ==
  Placed("told") /\ call.kind # "point" =>
    Within(quad, fence.top[1].page, fence.top[1].page + fence.top[1].aperture)

GeometryIsTrue == MappedIsTrue /\ MappedIsVisible
=============================================================================
