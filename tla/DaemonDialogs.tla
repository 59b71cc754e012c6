---------------------------- MODULE DaemonDialogs ----------------------------
(***************************************************************************)
(* src/daemon/dialog.rs and daemon/handler/dialog.rs: the JavaScript       *)
(* dialogs of one tab.  A dialog stalls the page until                     *)
(* Page.handleJavaScriptDialog; a task reads the two event streams of the  *)
(* tab, in no order between them, and records the dialog or answers it as  *)
(* the session's policy says; callers accept and dismiss what is recorded. *)
(*                                                                         *)
(* Abstracted: what a dialog says, and whether it is accepted or dismissed.*)
(***************************************************************************)
EXTENDS Naturals, Sequences

CONSTANTS
  Callers,     \* dialog.accept and dialog.dismiss requests, one each
  Policies,    \* the policies that are set: "manual", "auto" (accept or dismiss)
  MaxDialogs,  \* bound on the dialogs the page shows
  MaxPolicies  \* bound on the changes of policy

VARIABLES
  open,     \* the dialog Chrome shows, 0 if none
  shown,    \* dialogs so far
  opened,   \* unread Page.javascriptDialogOpening
  closed,   \* unread Page.javascriptDialogClosed
  policy,   \* DialogState.policies
  changes,  \* of the policy, so far
  pending,  \* DialogState.pending, 0 if none
  task,     \* the subscription's task: reading, answering, gone
  holding,  \* the dialog it is answering
  token,    \* its cancellation token is live
  caller    \* of a request: where it is and the dialog it saw

pageVars == <<open, shown>>
streamVars == <<opened, closed>>
taskVars == <<task, holding, token>>
dialogVars == <<pageVars, streamVars, policy, changes, pending, taskVars, caller>>

-----------------------------------------------------------------------------
(* Chrome *)

Show ==
  /\ open = 0 /\ shown < MaxDialogs
  /\ open' = shown + 1 /\ shown' = open' /\ opened' = Append(opened, open')
  /\ UNCHANGED <<closed, policy, changes, pending, taskVars, caller>>

\* The dialog that is there goes, whichever was meant.
Goes == open # 0 /\ open' = 0 /\ closed' = closed + 1 /\ UNCHANGED <<shown, opened>>

\* A navigation, or a user at the browser.
GoesByItself ==
  /\ Goes
  /\ UNCHANGED <<policy, changes, pending, taskVars, caller>>

NothingThere == open = 0 /\ UNCHANGED <<pageVars, streamVars>>

-----------------------------------------------------------------------------
(* The task: a select! over the token and the two streams *)

\* Mutant: an opening event is passed over while a dialog is recorded.
ReadOpenedOnce ==
  /\ task = "reading" /\ opened # <<>>
  /\ opened' = Tail(opened)
  /\ IF policy = "manual" \/ pending # 0
     THEN pending' = Head(opened) /\ UNCHANGED <<task, holding>>
     ELSE task' = "answering" /\ holding' = Head(opened) /\ UNCHANGED pending
  /\ UNCHANGED <<pageVars, closed, policy, changes, token, caller>>

ReadOpened ==
  /\ task = "reading" /\ opened # <<>>
  /\ opened' = Tail(opened)
  /\ IF policy = "manual"
     THEN pending' = Head(opened) /\ UNCHANGED <<task, holding>>
     ELSE task' = "answering" /\ holding' = Head(opened) /\ UNCHANGED pending
  /\ UNCHANGED <<pageVars, closed, policy, changes, token, caller>>

\* HandleJavaScriptDialog; a failure leaves the dialog to the user.
Answer ==
  /\ task = "answering" /\ task' = "reading" /\ holding' = 0
  /\ \/ Goes /\ UNCHANGED pending
     \/ NothingThere /\ pending' = holding
  /\ UNCHANGED <<policy, changes, token, caller>>

ReadClosed ==
  /\ task = "reading" /\ closed > 0
  /\ closed' = closed - 1 /\ pending' = 0
  /\ UNCHANGED <<pageVars, opened, policy, changes, taskVars, caller>>

\* The token is cancelled, or a stream fails.
TaskEnds ==
  /\ task = "reading" /\ task' = "gone" /\ token' = FALSE
  /\ UNCHANGED <<pageVars, streamVars, policy, changes, pending, holding, caller>>

-----------------------------------------------------------------------------
(* Requests *)

\* cancel_subscription, with the tab
CancelSubscription ==
  /\ token /\ token' = FALSE /\ pending' = 0
  /\ UNCHANGED <<pageVars, streamVars, policy, changes, task, holding, caller>>

\* dialog.policy; a dialog that is recorded stays so.
SetPolicy ==
  /\ changes < MaxPolicies /\ changes' = changes + 1
  /\ policy' \in Policies
  /\ UNCHANGED <<pageVars, streamVars, pending, taskVars, caller>>

\* pending_dialog_for_target: there must be a dialog.
Take(c) ==
  /\ caller[c].pc = "idle" /\ token
  /\ caller' = [caller EXCEPT ![c] =
       IF pending = 0 THEN [pc |-> "failed", saw |-> 0] ELSE [pc |-> "send", saw |-> pending]]
  /\ UNCHANGED <<pageVars, streamVars, policy, changes, pending, taskVars>>

Send(c) ==
  /\ caller[c].pc = "send"
  /\ \/ Goes /\ caller' = [caller EXCEPT ![c].pc = "clear"]
     \/ NothingThere /\ caller' = [caller EXCEPT ![c].pc = "failed"]
  /\ UNCHANGED <<policy, changes, pending, taskVars>>

\* take_pending, whatever is recorded by now
Clear(c) ==
  /\ caller[c].pc = "clear" /\ caller' = [caller EXCEPT ![c].pc = "ok"]
  /\ pending' = 0
  /\ UNCHANGED <<pageVars, streamVars, policy, changes, taskVars>>

-----------------------------------------------------------------------------
Init ==
  /\ open = 0 /\ shown = 0 /\ opened = <<>> /\ closed = 0
  /\ policy \in Policies /\ changes = 0 /\ pending = 0
  /\ task = "reading" /\ holding = 0 /\ token = TRUE
  /\ caller = [c \in Callers |-> [pc |-> "idle", saw |-> 0]]

\* What tokio runs: the task, until it is cancelled, and the requests.
Progress ==
  \/ ReadOpened \/ Answer \/ ReadClosed
  \/ (~token /\ TaskEnds)
  \/ \E c \in Callers : Send(c) \/ Clear(c)

Next ==
  \/ Progress
  \/ Show \/ GoesByItself \/ TaskEnds \/ CancelSubscription \/ SetPolicy
  \/ \E c \in Callers : Take(c)

Spec == Init /\ [][Next]_dialogVars /\ WF_dialogVars(Progress)

-----------------------------------------------------------------------------
(* Properties *)

(* Under accept or dismiss no dialog stalls its page for good while the     *)
(* subscription lives, even if its predecessor was answered in its place,   *)
(* went by itself, or was left recorded because its answer failed.  A       *)
(* dialog recorded before the policy was set is left to the requests.       *)
ToBeAnswered(d) ==
  open = d /\ policy = "auto" /\ (d = holding \/ \E i \in 1 .. Len(opened) : opened[i] = d)

PolicyUnstallsThePage ==
  \A d \in 1 .. MaxDialogs :
    ToBeAnswered(d) ~> (open # d \/ policy # "auto" \/ task = "gone")

(* "bk dialog list: List pending dialogs" (commands.md:71): under the       *)
(* manual policy a dialog that stalls its page is recorded once the task    *)
(* has read what there is to read, so that it can be accepted.              *)
StalledPageIsListed ==
  (/\ open # 0 /\ token /\ task = "reading" /\ opened = <<>> /\ closed = 0
   /\ policy = "manual" /\ changes = 0
   /\ \A c \in Callers : caller[c].pc # "clear")
    => pending = open
=============================================================================
