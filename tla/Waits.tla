-------------------------------- MODULE Waits --------------------------------
(***************************************************************************)
(* The waits of the runtime (runtime/wait.rs): for a value of the page     *)
(* (load state, URL, title), for a condition of a locator, and for the DOM *)
(* of a frame to be stable, which installs an observer in the page.        *)
(*                                                                         *)
(* Abstracted: how a locator is resolved and text is matched; the value of *)
(* a page is met or not; time passes in units of the poll interval. The    *)
(* wait for an idle network is in module NetworkWaits.                     *)
(***************************************************************************)
EXTENDS Naturals, Sequences

CONSTANTS
  Timeout, Stability,   \* WaitOptions, in poll intervals
  MaxClock,             \* bound on the time
  MaxChanges            \* bound on the changes of the page

VARIABLES
  wait,      \* what is waited for
  page,      \* the page: its value, element, mutations, whether the observer is in it
  pc, wake, clock,
  queue,     \* commands sent to the page and not run yet
  answer,    \* the answer to the last one
  guard,     \* what has to be released: nothing, held by the wait or by the registry
  previous, stableSince,
  result,
  changes, changed,   \* number of changes, time of the last mutation
  held       \* ghost: the condition held since the observation under way began

waitVars == <<wait, page, pc, wake, clock, queue, answer, guard, previous, stableSince,
              result, changes, changed, held>>

Never == MaxClock + 1
NoAnswer == [kind |-> "none", n |-> 0]
Failed == [kind |-> "error", n |-> 0]
Value(n) == [kind |-> "value", n |-> n]
Conditions == {"Attached", "Detached", "Visible", "Hidden", "Enabled", "Disabled", "Editable",
               "Text", "Attribute", "Count0", "Count1"}
Elements == {"none", "two", "hidden", "disabled", "plain", "field", "filled"}

Attached(element) == element \notin {"none", "two"}
Visible(element) == element \in {"disabled", "plain", "field", "filled"}
Enabled(element) == element \in {"hidden", "plain", "field", "filled"}

\* The facts of a resolved element decide, or its text has to be read.
Holds(condition, element) ==
  CASE condition = "Attached" -> Attached(element)
    [] condition = "Detached" -> element = "none"
    [] condition = "Visible" -> Visible(element)
    [] condition = "Hidden" -> element \in {"none", "hidden"}
    [] condition = "Enabled" -> Attached(element) /\ Enabled(element)
    [] condition = "Disabled" -> element = "disabled"
    [] condition = "Editable" -> element \in {"field", "filled"}
    [] condition \in {"Text", "Attribute"} -> element = "filled"
    [] condition = "Count0" -> element = "none"
    [] condition = "Count1" -> Attached(element)

Satisfied(p) ==
  CASE wait.kind = "value" -> p.value
    [] wait.kind = "locator" -> Holds(wait.condition, p.element)
    [] wait.kind = "stability" -> TRUE

Ends(what) == pc' = "ended" /\ result' = what

\* Not met: time out, or sleep.
Again ==
  IF clock >= Timeout
  THEN Ends("timeout") /\ UNCHANGED wake
  ELSE pc' = "sleep" /\ wake' = clock + 1 /\ UNCHANGED result

Wake ==
  /\ pc = "sleep" /\ clock >= wake /\ pc' = "loop" /\ held' = Satisfied(page)
  /\ UNCHANGED <<wait, page, wake, clock, queue, answer, guard, previous, stableSince, result,
                 changes, changed>>

-----------------------------------------------------------------------------
(* wait_page_value *)

AskValue ==
  /\ pc = "loop" /\ wait.kind = "value"
  /\ IF clock >= Timeout THEN Ends("timeout") ELSE pc' = "asked" /\ UNCHANGED result
  /\ UNCHANGED <<wait, page, wake, clock, queue, answer, guard, previous, stableSince, changes,
                 changed, held>>

ValueAnswered ==
  /\ pc = "asked" /\ wait.kind = "value"
  /\ IF page.value THEN Ends("ok") /\ UNCHANGED wake ELSE Again
  /\ UNCHANGED <<wait, page, clock, queue, answer, guard, previous, stableSince, changes,
                 changed, held>>

\* An error, an exception, or the rest of the time has passed.
ValueFails ==
  /\ pc = "asked" /\ wait.kind = "value"
  /\ Ends(IF clock >= Timeout THEN "timeout" ELSE "error")
  /\ UNCHANGED <<wait, page, wake, clock, queue, answer, guard, previous, stableSince, changes,
                 changed, held>>

-----------------------------------------------------------------------------
(* wait_locator *)

\* A missing element meets these conditions, and may appear for the others.
MissingSatisfies == wait.condition \in {"Detached", "Hidden", "Count0"}

\* Mutant: an ambiguous locator is as good as none.
ObserveAnyMissing ==
  /\ pc = "loop" /\ wait.kind = "locator"
  /\ IF ~Attached(page.element) /\ MissingSatisfies
     THEN Ends("ok") /\ UNCHANGED <<wake, guard>>
     ELSE IF ~Attached(page.element) THEN Again /\ UNCHANGED guard
     ELSE IF wait.condition \in {"Text", "Attribute"}
     THEN pc' = "read" /\ guard' = "wait" /\ UNCHANGED <<wake, result>>
     ELSE /\ UNCHANGED guard
          /\ IF Holds(wait.condition, page.element) THEN Ends("ok") /\ UNCHANGED wake ELSE Again
  /\ UNCHANGED <<wait, page, clock, queue, answer, previous, stableSince, changes, changed, held>>

\* observe_locator up to the facts; a text or an attribute is read of the
\* element in an object group of its own.
Observe ==
  /\ pc = "loop" /\ wait.kind = "locator"
  /\ IF page.element = "none" /\ MissingSatisfies
     THEN Ends("ok") /\ UNCHANGED <<wake, guard>>
     ELSE IF ~Attached(page.element) THEN Again /\ UNCHANGED guard
     ELSE IF wait.condition \in {"Text", "Attribute"}
     THEN pc' = "read" /\ guard' = "wait" /\ UNCHANGED <<wake, result>>
     ELSE /\ UNCHANGED guard
          /\ IF Holds(wait.condition, page.element) THEN Ends("ok") /\ UNCHANGED wake ELSE Again
  /\ UNCHANGED <<wait, page, clock, queue, answer, previous, stableSince, changes, changed, held>>

\* A page without a context, a selector that cannot be parsed.
ObserveFails ==
  /\ pc = "loop" /\ wait.kind = "locator" /\ Ends("error")
  /\ UNCHANGED <<wait, page, wake, clock, queue, answer, guard, previous, stableSince, changes,
                 changed, held>>

\* The element that was resolved is read, still in the page or not.
Read ==
  /\ pc = "read" /\ pc' = "release"
  /\ answer' \in {Failed, Value(IF page.element = "filled" THEN 1 ELSE 0)}
  /\ UNCHANGED <<wait, page, wake, clock, queue, guard, previous, stableSince, result, changes,
                 changed, held>>

\* Mutant: a group that could not be released is forgotten.
ReleaseQuietly ==
  /\ pc = "release" /\ guard' \in {"none", "failed"}
  /\ IF answer = Failed THEN Ends("error") /\ UNCHANGED wake
     ELSE IF answer.n = 1 THEN Ends("ok") /\ UNCHANGED wake
     ELSE Again
  /\ UNCHANGED <<wait, page, clock, queue, answer, previous, stableSince, changes, changed, held>>

\* merge_wait_cleanup: a failure is no answer and is not tried again.
Release ==
  /\ pc = "release" /\ guard' \in {"none", "failed"}
  /\ IF guard' = "failed" THEN Ends("leaked") /\ UNCHANGED wake
     ELSE IF answer = Failed THEN Ends("error") /\ UNCHANGED wake
     ELSE IF answer.n = 1 THEN Ends("ok") /\ UNCHANGED wake
     ELSE Again
  /\ UNCHANGED <<wait, page, clock, queue, answer, previous, stableSince, changes, changed, held>>

-----------------------------------------------------------------------------
(* wait_frame_stability *)

Send(command) == queue' = Append(queue, command) /\ answer' = NoAnswer

\* Mutant: the observer is tracked once it is installed.
PrepareUntracked ==
  /\ pc = "loop" /\ wait.kind = "stability" /\ previous = Never
  /\ IF clock >= Timeout
     THEN Ends("timeout") /\ UNCHANGED <<queue, answer>>
     ELSE Send("install") /\ pc' = "install" /\ UNCHANGED result
  /\ UNCHANGED <<wait, page, wake, clock, guard, previous, stableSince, changes, changed, held>>

\* The world, the route and the cleanup come before the observer.
Prepare ==
  /\ pc = "loop" /\ wait.kind = "stability" /\ previous = Never
  /\ IF clock >= Timeout
     THEN Ends("timeout") /\ UNCHANGED <<queue, answer, guard>>
     ELSE Send("install") /\ pc' = "install" /\ guard' = "wait" /\ UNCHANGED result
  /\ UNCHANGED <<wait, page, wake, clock, previous, stableSince, changes, changed, held>>

\* The route is not valid any more, an error, an exception, or the time is up.
Abandon(what) ==
  /\ pc' = "cleanup" /\ result' = what
  /\ UNCHANGED <<wait, page, wake, clock, queue, answer, guard, previous, stableSince, changes,
                 changed, held>>

Installed ==
  /\ pc = "install" /\ answer.kind = "value"
  /\ guard' = "wait" /\ pc' = "scan" /\ answer' = NoAnswer
  /\ UNCHANGED <<wait, page, wake, clock, queue, previous, stableSince, result, changes, changed,
                 held>>

Scan ==
  /\ \/ pc = "scan"
     \/ pc = "loop" /\ wait.kind = "stability" /\ previous # Never
  /\ clock < Timeout /\ page.valid
  /\ Send("scan") /\ pc' = "scanned"
  /\ UNCHANGED <<wait, page, wake, clock, guard, previous, stableSince, result, changes, changed,
                 held>>

GiveUpScan ==
  \/ /\ pc = "scan" \/ (pc = "loop" /\ wait.kind = "stability" /\ previous # Never)
     /\ clock >= Timeout \/ ~page.valid
     /\ Abandon(IF page.valid THEN "timeout" ELSE "error")
  \/ pc \in {"install", "scanned"} /\ answer = Failed /\ Abandon("error")
  \/ pc \in {"install", "scanned"} /\ answer = NoAnswer /\ clock >= Timeout /\ Abandon("timeout")

\* Mutant: a change does not start the quiet time again.
ComparedLoosely ==
  /\ pc = "scanned" /\ answer.kind = "value"
  /\ previous' = answer.n
  /\ stableSince' = IF stableSince = Never THEN clock ELSE stableSince
  /\ IF clock >= stableSince' + Stability
     THEN pc' = "cleanup" /\ result' = "ok" /\ UNCHANGED wake
     ELSE IF clock >= Timeout THEN pc' = "cleanup" /\ result' = "timeout" /\ UNCHANGED wake
     ELSE pc' = "sleep" /\ wake' = clock + 1 /\ UNCHANGED result
  /\ UNCHANGED <<wait, page, clock, queue, answer, guard, changes, changed, held>>

\* The same generation twice starts the quiet time, another one ends it.
Compared ==
  /\ pc = "scanned" /\ answer.kind = "value"
  /\ previous' = answer.n
  /\ stableSince' = IF previous # answer.n THEN Never
                    ELSE IF stableSince = Never THEN clock ELSE stableSince
  /\ IF stableSince' # Never /\ clock >= stableSince' + Stability
     THEN pc' = "cleanup" /\ result' = "ok" /\ UNCHANGED wake
     ELSE IF clock >= Timeout THEN pc' = "cleanup" /\ result' = "timeout" /\ UNCHANGED wake
     ELSE pc' = "sleep" /\ wake' = clock + 1 /\ UNCHANGED result
  /\ UNCHANGED <<wait, page, clock, queue, answer, guard, changes, changed, held>>

\* merge_wait_cleanup_before_deadline: without time left the registry cleans up.
CleanUp ==
  /\ pc = "cleanup" /\ queue' = Append(queue, "remove") /\ answer' = NoAnswer
  /\ IF clock >= Timeout
     THEN /\ Ends(IF result = "ok" THEN "timeout" ELSE result) /\ guard' = "registry"
     ELSE pc' = "removed" /\ UNCHANGED <<result, guard>>
  /\ UNCHANGED <<wait, page, wake, clock, previous, stableSince, changes, changed, held>>

CleanedUp ==
  /\ pc = "removed" /\ (answer # NoAnswer \/ clock >= Timeout)
  /\ IF answer = NoAnswer THEN Ends(IF result = "ok" THEN "timeout" ELSE result)
                             /\ guard' = "registry"
     ELSE IF answer = Failed THEN Ends("leaked") /\ guard' = "failed"
     ELSE Ends(result) /\ guard' = "none"
  /\ UNCHANGED <<wait, page, wake, clock, queue, answer, previous, stableSince, changes, changed,
                 held>>

\* The future of the wait is dropped: its guard hands over to the registry.
Cancel ==
  /\ pc \notin {"ended", "loop"} /\ guard \in {"none", "wait"} /\ Ends("cancelled")
  /\ guard' = IF guard = "wait" THEN "registry" ELSE "none"
  /\ queue' = IF guard = "wait" /\ wait.kind = "stability" /\ pc # "removed"
              THEN Append(queue, "remove") ELSE queue
  /\ UNCHANGED <<wait, page, wake, clock, answer, previous, stableSince, changes, changed, held>>

-----------------------------------------------------------------------------
(* External: the page *)

\* Commands of a session run in the order in which they were sent.
PageRuns ==
  /\ queue # <<>> /\ queue' = Tail(queue)
  /\ IF ~page.valid THEN answer' = Failed /\ UNCHANGED page
     ELSE CASE Head(queue) = "install" ->
                 page' = [page EXCEPT !.observed = TRUE] /\ answer' = Value(page.generation)
            [] Head(queue) = "scan" ->
                 /\ answer' = IF page.observed THEN Value(page.generation) ELSE Failed
                 /\ UNCHANGED page
            [] Head(queue) = "remove" ->
                 page' = [page EXCEPT !.observed = FALSE] /\ answer' = Value(page.generation)
  /\ UNCHANGED <<wait, pc, wake, clock, guard, previous, stableSince, result, changes, changed,
                 held>>

PageChanges ==
  /\ changes < MaxChanges /\ changes' = changes + 1 /\ pc # "ended"
  /\ CASE wait.kind = "value" -> page' = [page EXCEPT !.value = ~page.value] /\ UNCHANGED changed
       [] wait.kind = "locator" ->
            /\ \E element \in Elements : page' = [page EXCEPT !.element = element]
            /\ UNCHANGED changed
       [] wait.kind = "stability" ->
            \/ page' = [page EXCEPT !.generation = page.generation + 1] /\ changed' = clock
            \/ /\ page' = [page EXCEPT !.valid = FALSE, !.observed = FALSE]
               /\ UNCHANGED changed
  /\ held' = (held \/ Satisfied(page'))
  /\ UNCHANGED <<wait, pc, wake, clock, queue, answer, guard, previous, stableSince, result>>

\* A time limit fires when it is due.
Tick ==
  /\ pc \in {"asked", "install", "scanned", "removed", "sleep", "read", "release"}
  /\ clock < MaxClock /\ clock' = clock + 1
  /\ pc \in {"asked", "install", "scanned", "removed"} => clock < Timeout
  /\ pc = "sleep" => clock < wake
  /\ UNCHANGED <<wait, page, pc, wake, queue, answer, guard, previous, stableSince, result,
                 changes, changed, held>>

-----------------------------------------------------------------------------
Init ==
  /\ wait \in {[kind |-> kind, condition |-> "none"] : kind \in {"value", "stability"}}
                \cup {[kind |-> "locator", condition |-> c] : c \in Conditions}
  /\ page \in {[value |-> value, element |-> element, generation |-> 0, observed |-> FALSE,
                valid |-> TRUE] : value \in BOOLEAN, element \in Elements}
  /\ (wait.kind # "value" => ~page.value) /\ (wait.kind # "locator" => page.element = "none")
  /\ pc = "loop" /\ wake = 0 /\ clock = 0 /\ queue = <<>> /\ answer = NoAnswer /\ guard = "none"
  /\ previous = Never /\ stableSince = Never /\ result = "none"
  /\ changes = 0 /\ changed = 0 /\ held = Satisfied(page)

Next ==
  \/ Wake \/ AskValue \/ ValueAnswered \/ ValueFails
  \/ Observe \/ ObserveFails \/ Read \/ Release
  \/ Prepare \/ Installed \/ Scan \/ GiveUpScan \/ Compared \/ CleanUp \/ CleanedUp \/ Cancel
  \/ PageRuns \/ PageChanges \/ Tick

Spec == Init /\ [][Next]_waitVars

-----------------------------------------------------------------------------
(* Properties *)

(* A wait that succeeds saw its condition hold in its last observation.     *)
ConditionWasMet == result = "ok" => held

(* A stable DOM did not change while the quiet time passed, up to the last  *)
(* scan: a change that was seen starts the time again.                      *)
QuietAllTheTime ==
  (pc = "cleanup" /\ result = "ok") =>
    /\ clock >= stableSince + Stability
    /\ changed <= stableSince \/ page.generation # previous

(* Nothing is left in the page: when a wait has ended and the page has run  *)
(* what it was sent, the observer is gone, and an object group that was not *)
(* released is the registry's or in the error.                              *)
NothingStaysBehind ==
  pc = "ended" =>
    /\ queue = <<>> => ~page.observed
    /\ guard # "wait"
    /\ guard = "failed" => result = "leaked"

WaitsAreSound == ConditionWasMet /\ QuietAllTheTime /\ NothingStaysBehind
=============================================================================
