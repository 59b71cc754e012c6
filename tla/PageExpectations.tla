-------------------------- MODULE PageExpectations --------------------------
(***************************************************************************)
(* Page::expect_dialog and Page::expect_file_chooser (runtime/dialog.rs,    *)
(* runtime/file_chooser.rs): an action runs in a task of its own while its  *)
(* caller waits for what the action opens; the dialog is answered through a *)
(* handle that counts only while the dialog is the current one; the         *)
(* chooser's interception is switched off before its handle is given out.   *)
(* Closing the page cancels every action, then waits for the operations.    *)
(*                                                                          *)
(* Abstracted: one route; the broadcast channel of 16 facts does not lag;   *)
(* the sessions a chooser's interception is sent to are those of            *)
(* FrameRoutes, here it is on or off.                                       *)
(***************************************************************************)
EXTENDS Naturals, Sequences

CONSTANTS
  Users,          \* callers, each with one expectation
  MaxDialogs,     \* bound on the dialogs and choosers Chrome opens
  None

VARIABLES
  kind,       \* of each user: dialog or chooser
  page,       \* OperationGate of the page
  closing,    \* DialogActionRegistry.closing
  exp,        \* the expectation of each user: phase, and what it has told
  action,     \* its task: state, whether it is cancelled or aborted, dialog it is blocked by
  inbox,      \* facts broadcast to each expectation and not received
  handle,     \* Dialog or FileChooser: epoch, handled, result
  current,    \* DialogCoordinator.current of the route: epoch and claimed
  chooser,    \* FileChooserInterceptionState.active, by user
  shown,      \* the dialog Chrome shows
  openings, closings,  \* events of Chrome not read
  count,      \* dialogs opened so far
  epochs,     \* epochs given so far
  claims      \* ghost: users that have claimed each epoch

exVars == <<kind, page, closing, exp, action, inbox, handle, current, chooser, shown, openings,
            closings, count, epochs, claims>>

Running(u) == action[u].state = "running"
Waiting(u) == exp[u].phase \in {"waiting", "settled"}
\* operations of the page: held before the action is spawned, by its task, and while a handle is used
Permits == {u \in Users : exp[u].phase = "admitted" \/ Running(u) \/ handle[u].phase = "sending"}

Ends(u, code, completion) == exp' = [exp EXCEPT ![u].phase = "failed", ![u].told = code, ![u].completion = completion]
Answered(u, result) == handle' = [handle EXCEPT ![u].phase = "used", ![u].result = result]

-----------------------------------------------------------------------------
(* The expectation *)

Admit(u) ==
  /\ exp[u].phase = "idle"
  /\ IF page = "open" THEN exp' = [exp EXCEPT ![u].phase = "admitted"]
     ELSE Ends(u, "closed", "NotStarted")
  /\ UNCHANGED <<kind, page, closing, action, inbox, handle, current, chooser, shown, openings,
                 closings, count, epochs, claims>>

\* Mutant: an action registered while the page closes runs on.
RegisterLate == FALSE

\* register: an action that comes after cancel_all is born cancelled.
Register == closing

\* locator_frame_store, the subscription, begin_file_chooser_interception and the spawned action.
Arm(u) ==
  /\ exp[u].phase = "admitted"
  /\ \/ /\ exp' = [exp EXCEPT ![u].phase = "waiting"]
        /\ action' = [action EXCEPT ![u] = [state |-> "running", cancelled |-> Register, aborted |-> FALSE, by |-> 0]]
        /\ IF kind[u] = "chooser" THEN chooser = None /\ chooser' = u ELSE UNCHANGED chooser
     \/ /\ Ends(u, "unprepared", "NotStarted")
        /\ UNCHANGED <<action, chooser>>
  /\ UNCHANGED <<kind, page, closing, inbox, handle, current, shown, openings, closings, count,
                 epochs, claims>>

Handle(u) == [phase |-> "held", epoch |-> Head(inbox[u]).epoch, result |-> None,
              pending |-> exp[u].phase = "waiting"]

\* The fact is received before or after the action's own result.
Receive(u) ==
  /\ Waiting(u) /\ inbox[u] # <<>>
  /\ inbox' = [inbox EXCEPT ![u] = Tail(@)]
  /\ IF kind[u] = "dialog"
     THEN /\ exp' = [exp EXCEPT ![u].phase = "given"]
          /\ handle' = [handle EXCEPT ![u] = Handle(u)]
     ELSE IF Head(inbox[u]).input
     THEN /\ exp' = [exp EXCEPT ![u].phase = "disabling"]
          /\ handle' = [handle EXCEPT ![u] = [Handle(u) EXCEPT !.phase = "none"]]
     ELSE /\ exp' = [exp EXCEPT ![u].phase = "giving up"]
          /\ handle' = [handle EXCEPT ![u] = [Handle(u) EXCEPT !.phase = "none"]]
  /\ UNCHANGED <<kind, page, closing, action, current, chooser, shown, openings, closings, count,
                 epochs, claims>>

\* The action's result comes first: a failure ends the expectation, a success keeps it waiting.
SeeResult(u) ==
  /\ exp[u].phase = "waiting" /\ action[u].state \in {"done", "failed", "aborted"}
  /\ IF action[u].state = "done" THEN exp' = [exp EXCEPT ![u].phase = "settled"]
     ELSE Ends(u, "action", "Unknown")
  /\ UNCHANGED <<kind, page, closing, action, inbox, handle, current, chooser, shown, openings,
                 closings, count, epochs, claims>>

\* Mutant: the action of an expectation that has timed out runs on.
CancelNothing(u) == UNCHANGED action

\* The time is over: the action is cancelled, or aborted for a chooser.
CancelAction(u) ==
  action' = [action EXCEPT ![u].cancelled = @ \/ kind[u] = "dialog", ![u].aborted = @ \/ kind[u] = "chooser"]

TimeOut(u) ==
  /\ Waiting(u)
  /\ CancelAction(u)
  /\ Ends(u, "timeout", IF exp[u].phase = "settled" THEN "Completed" ELSE "Unknown")
  /\ UNCHANGED <<kind, page, closing, inbox, handle, current, chooser, shown, openings, closings,
                 count, epochs, claims>>

\* The caller drops its future: the action runs on, a chooser's guard cleans up.
Abandon(u) ==
  /\ Waiting(u)
  /\ Ends(u, "dropped", "Unknown")
  /\ UNCHANGED <<kind, page, closing, action, inbox, handle, current, chooser, shown, openings,
                 closings, count, epochs, claims>>

\* The guard's cleanup has run: interception is off, or its disabling has failed and stays owned.
Disabled(u) ==
  /\ exp[u].phase = "disabling"
  /\ \/ chooser' = None /\ exp' = [exp EXCEPT ![u].phase = "given"]
        /\ handle' = [handle EXCEPT ![u].phase = "held"]
     \/ exp' = [exp EXCEPT ![u].phase = "giving up"] /\ UNCHANGED <<chooser, handle>>
  /\ UNCHANGED <<kind, page, closing, action, inbox, current, shown, openings, closings, count,
                 epochs, claims>>

\* Mutant: what the aborted action has come to is not asked.
CompletionAssumed(u) == "Completed"

\* complete_or_cancel_action, once the action has settled.
Completion(u) == IF action[u].state = "done" THEN "Completed" ELSE "Unknown"

\* complete_or_cancel_action: the action is aborted unless its result was seen, then its end awaited.
GiveUp(u) ==
  /\ exp[u].phase = "giving up"
  /\ IF Running(u)
     THEN action' = [action EXCEPT ![u].aborted = TRUE] /\ UNCHANGED exp
     ELSE /\ Ends(u, IF action[u].state = "failed" THEN "action" ELSE "no chooser", Completion(u))
          /\ UNCHANGED action
  /\ UNCHANGED <<kind, page, closing, inbox, handle, current, chooser, shown, openings, closings,
                 count, epochs, claims>>

\* The pending cleanup of an expectation that has ended.
CleanUp(u) ==
  /\ chooser = u /\ exp[u].phase \in {"failed", "given"}
  /\ chooser' = None
  /\ UNCHANGED <<kind, page, closing, exp, action, inbox, handle, current, shown, openings,
                 closings, count, epochs, claims>>

-----------------------------------------------------------------------------
(* The action's task *)

\* A dialog of the action blocks it; the select is biased towards the cancellation.
Complete(u) ==
  /\ Running(u) /\ ~action[u].cancelled /\ (action[u].by = 0 \/ shown # action[u].by)
  /\ \E state \in {"done", "failed"} : action' = [action EXCEPT ![u].state = state]
  /\ UNCHANGED <<kind, page, closing, exp, inbox, handle, current, chooser, shown, openings,
                 closings, count, epochs, claims>>

Stop(u) ==
  /\ Running(u) /\ (action[u].cancelled \/ action[u].aborted)
  /\ action' = [action EXCEPT ![u].state = IF action[u].cancelled THEN "failed" ELSE "aborted"]
  /\ UNCHANGED <<kind, page, closing, exp, inbox, handle, current, chooser, shown, openings,
                 closings, count, epochs, claims>>

-----------------------------------------------------------------------------
(* Handles *)

\* Mutant: a claimed dialog may be claimed through another handle.
MayClaimAgain(epoch) == current.epoch = epoch

\* Dialog::handle: a failed action is told first, a used handle and a dialog that is not the
\* current one are refused.
MayClaim(epoch) == current.epoch = epoch /\ ~current.claimed

Seen(u) == ~handle[u].pending \/ action[u].state # "running"

Use(u) ==
  /\ handle[u].phase = "held" /\ kind[u] = "dialog"
  /\ IF handle[u].pending /\ action[u].state = "failed"
     THEN Answered(u, "action") /\ UNCHANGED <<current, claims>>
     ELSE IF MayClaim(handle[u].epoch)
     THEN /\ current' = [current EXCEPT !.claimed = TRUE]
          /\ claims' = claims \cup {<<handle[u].epoch, u>>}
          /\ handle' = [handle EXCEPT ![u].phase = "claimed"]
     ELSE handle' = [handle EXCEPT ![u].phase = "stale"] /\ UNCHANGED <<current, claims>>
  /\ UNCHANGED <<kind, page, closing, exp, action, inbox, chooser, shown, openings, closings,
                 count, epochs>>

\* FileChooser::set_files needs no claim.
UseChooser(u) ==
  /\ handle[u].phase = "held" /\ kind[u] = "chooser"
  /\ handle' = [handle EXCEPT ![u].phase = "claimed"]
  /\ UNCHANGED <<kind, page, closing, exp, action, inbox, current, chooser, shown, openings,
                 closings, count, epochs, claims>>

AdmitUse(u) ==
  /\ handle[u].phase = "claimed"
  /\ IF page = "open" THEN handle' = [handle EXCEPT ![u].phase = "sending"] ELSE Answered(u, "closed")
  /\ UNCHANGED <<kind, page, closing, exp, action, inbox, current, chooser, shown, openings,
                 closings, count, epochs, claims>>

\* Chrome answers whatever dialog it shows; SetFileInputFiles may fail.
Send(u) ==
  /\ handle[u].phase = "sending"
  /\ IF kind[u] = "dialog"
     THEN IF shown # 0
          THEN /\ closings' = Append(closings, shown) /\ shown' = 0
               /\ handle' = [handle EXCEPT ![u].phase = "awaiting"]
          ELSE Answered(u, "no dialog") /\ UNCHANGED <<closings, shown>>
     ELSE /\ \/ handle' = [handle EXCEPT ![u].phase = "awaiting"]
             \/ Answered(u, "refused")
          /\ UNCHANGED <<closings, shown>>
  /\ UNCHANGED <<kind, page, closing, exp, action, inbox, current, chooser, openings, count,
                 epochs, claims>>

\* Mutant: an answer that was sent is a success, whatever the action comes to.
OutcomeUnseen(u) == "ok"

\* await_action_result: the action's own end decides.
Outcome(u) == IF handle[u].pending /\ action[u].state # "done" THEN "action" ELSE "ok"

Await(u) ==
  /\ handle[u].phase = "awaiting" /\ Seen(u)
  /\ Answered(u, Outcome(u))
  /\ UNCHANGED <<kind, page, closing, exp, action, inbox, current, chooser, shown, openings,
                 closings, count, epochs, claims>>

AwaitStale(u) ==
  /\ handle[u].phase = "stale" /\ Seen(u)
  /\ Answered(u, IF Outcome(u) = "ok" THEN "stale" ELSE "action")
  /\ UNCHANGED <<kind, page, closing, exp, action, inbox, current, chooser, shown, openings,
                 closings, count, epochs, claims>>

-----------------------------------------------------------------------------
(* Chrome and the reducer of the route *)

OpenDialog(u) ==
  /\ Running(u) /\ kind[u] = "dialog" /\ shown = 0 /\ count < MaxDialogs
  /\ count' = count + 1 /\ shown' = count' /\ openings' = Append(openings, count')
  /\ action' = [action EXCEPT ![u].by = count']
  /\ UNCHANGED <<kind, page, closing, exp, inbox, handle, current, chooser, closings, epochs, claims>>

CloseDialog ==
  /\ shown # 0
  /\ shown' = 0 /\ closings' = Append(closings, shown)
  /\ UNCHANGED <<kind, page, closing, exp, action, inbox, handle, current, chooser, openings,
                 count, epochs, claims>>

\* An intercepted chooser, of a page's file input or of another kind.
OpenChooser(u) ==
  /\ Running(u) /\ chooser = u /\ count < MaxDialogs
  /\ count' = count + 1
  /\ \E input \in BOOLEAN :
       inbox' = [v \in Users |-> IF kind[v] = "chooser" /\ Waiting(v)
                                 THEN Append(inbox[v], [epoch |-> 0, input |-> input]) ELSE inbox[v]]
  /\ UNCHANGED <<kind, page, closing, exp, action, handle, current, chooser, shown, openings,
                 closings, epochs, claims>>

\* The streams of openings and closings are read in either order.
ReadOpening ==
  /\ openings # <<>>
  /\ openings' = Tail(openings)
  /\ epochs' = epochs + 1
  /\ current' = [epoch |-> epochs', claimed |-> FALSE]
  /\ inbox' = [v \in Users |-> IF kind[v] = "dialog" /\ Waiting(v)
                               THEN Append(inbox[v], [epoch |-> epochs', input |-> TRUE]) ELSE inbox[v]]
  /\ UNCHANGED <<kind, page, closing, exp, action, handle, chooser, shown, closings, count, claims>>

ReadClosing ==
  /\ closings # <<>>
  /\ closings' = Tail(closings)
  /\ current' = [epoch |-> 0, claimed |-> FALSE]
  /\ UNCHANGED <<kind, page, closing, exp, action, inbox, handle, chooser, shown, openings, count,
                 epochs, claims>>

-----------------------------------------------------------------------------
(* Closing the page *)

StartClose ==
  /\ page = "open" /\ page' = "closing"
  /\ UNCHANGED <<kind, closing, exp, action, inbox, handle, current, chooser, shown, openings,
                 closings, count, epochs, claims>>

\* begin_side_effect_close, before and after the operations have drained.
CancelAll ==
  /\ page = "closing" /\ ~closing
  /\ closing' = TRUE
  /\ action' = [u \in Users |-> IF Running(u) THEN [action[u] EXCEPT !.cancelled = TRUE] ELSE action[u]]
  /\ current' = [epoch |-> 0, claimed |-> FALSE]
  /\ UNCHANGED <<kind, page, exp, inbox, handle, chooser, shown, openings, closings, count,
                 epochs, claims>>

FinishClose ==
  /\ page = "closing" /\ closing /\ Permits = {}
  /\ page' = "closed"
  /\ current' = [epoch |-> 0, claimed |-> FALSE]
  /\ UNCHANGED <<kind, closing, exp, action, inbox, handle, chooser, shown, openings, closings,
                 count, epochs, claims>>

-----------------------------------------------------------------------------
(* Specification *)

Init ==
  /\ kind \in [Users -> {"dialog", "chooser"}]
  /\ page = "open" /\ closing = FALSE
  /\ exp = [u \in Users |-> [phase |-> "idle", told |-> None, completion |-> None]]
  /\ action = [u \in Users |-> [state |-> "none", cancelled |-> FALSE, aborted |-> FALSE, by |-> 0]]
  /\ inbox = [u \in Users |-> <<>>]
  /\ handle = [u \in Users |-> [phase |-> "none", epoch |-> 0, result |-> None, pending |-> FALSE]]
  /\ current = [epoch |-> 0, claimed |-> FALSE] /\ chooser = None
  /\ shown = 0 /\ openings = <<>> /\ closings = <<>> /\ count = 0 /\ epochs = 0 /\ claims = {}

Next ==
  \/ \E u \in Users :
       \/ Admit(u) \/ Arm(u) \/ Receive(u) \/ SeeResult(u) \/ TimeOut(u) \/ Abandon(u) \/ Disabled(u)
       \/ GiveUp(u) \/ CleanUp(u) \/ Complete(u) \/ Stop(u) \/ Use(u) \/ UseChooser(u)
       \/ AdmitUse(u) \/ Send(u) \/ Await(u) \/ AwaitStale(u) \/ OpenDialog(u) \/ OpenChooser(u)
  \/ CloseDialog \/ ReadOpening \/ ReadClosing
  \/ StartClose \/ CancelAll \/ FinishClose

Spec == Init /\ [][Next]_exVars

-----------------------------------------------------------------------------
(* Properties *)

\* A dialog is claimed through one handle only, and answered by who has claimed it.
OneClaim ==
  /\ \A e \in 1..epochs : \A u, v \in Users : <<e, u>> \in claims /\ <<e, v>> \in claims => u = v
  /\ \A u \in Users : kind[u] = "dialog" /\ handle[u].phase \in {"claimed", "sending", "awaiting"} =>
       <<handle[u].epoch, u>> \in claims

\* A success, and the staleness of a dialog, are told only of an action that has completed.
SuccessMeansDone ==
  \A u \in Users : handle[u].result \in {"ok", "stale"} => action[u].state = "done"

\* The completion an error tells is the action's: completed only if it is, not
\* started only if it was not; what ran on is cancelled.
CompletionIsTrue ==
  \A u \in Users :
    /\ exp[u].completion = "Completed" => action[u].state = "done"
    /\ exp[u].completion = "NotStarted" => action[u].state = "none"
    /\ exp[u].phase = "failed" /\ exp[u].told # "dropped" /\ Running(u) => action[u].cancelled \/ action[u].aborted

\* Once the page cancels its actions none runs on, also one registered since.
CloseReachesActions == closing => \A u \in Users : Running(u) => action[u].cancelled

\* A chooser is given out only when its interception is off.
ChooserIsOff == \A u \in Users : kind[u] = "chooser" /\ handle[u].phase # "none" => chooser # u

ExpectationsAreSound ==
  OneClaim /\ SuccessMeansDone /\ CompletionIsTrue /\ CloseReachesActions /\ ChooserIsOff
=============================================================================
