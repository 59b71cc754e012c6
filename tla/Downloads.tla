------------------------------- MODULE Downloads -------------------------------
(***************************************************************************)
(* Downloads (runtime/download.rs): the manager an isolated session makes  *)
(* on first use and the one a page of the default session makes, the       *)
(* reducer that turns Chrome's events into statuses, expect_download,      *)
(* Download::wait and save_as, and the close of the owner.                 *)
(*                                                                         *)
(* The two kinds differ in how the owner closes: a page first ends the     *)
(* waits and then drains its operations, a session drains first.           *)
(*                                                                         *)
(* Abstracted: frames, urls, names and byte counts; Download::cancel,      *)
(* which only asks Chrome to end the download.                             *)
(***************************************************************************)
EXTENDS Naturals, Sequences

CONSTANTS
  Kinds,     \* "isolated" and "default"
  Callers,   \* tasks that expect, await and save one download each
  Guids,     \* the downloads Chrome starts
  None

VARIABLES
  kind,
  slot,      \* DownloadManagerSlotState, or the OnceCell of a page
  canceled,  \* DownloadManager::cancel
  directory, \* is there a download directory?
  reducer,   \* "none", "select", "publish" or "ended"
  announced, \* the download whose begin event is being published
  status,    \* DownloadManager::statuses
  senders,   \* DownloadManager::subscribers
  updates,   \* what each subscriber has been sent
  caller, got, outcome,    \* each caller: its step, its download, its result
  closer,    \* the close of the owner
  begins, ends, source     \* Chrome's two event streams, and are they open?

managerVars == <<slot, canceled, directory, reducer, announced, status, senders>>
callerVars == <<updates, caller, got, outcome>>
chromeDownloads == <<begins, ends, source>>
downloadVars == <<kind, managerVars, callerVars, closer, chromeDownloads>>


Final == {"completed", "canceled", "closed"}
Closing == closer # "open"

Becomes(c, pc) == caller' = [caller EXCEPT ![c] = pc]
Fails(c) == Becomes(c, "failed")

\* Operations that hold a permit of the owner.  The task that initialises the
\* manager of a session holds the permits of the call that started it.
Admitted ==
  {c \in Callers : caller[c] \in {"get", "create", "act", "receive", "wait", "copy"}}

\* Mutant: a save gives up its permit once the download has ended.
DrainedOfWaits == {c \in Admitted : caller[c] # "copy"} = {}

Drained == Admitted = {} /\ (kind = "isolated" => slot # "initializing")

-----------------------------------------------------------------------------
(* The manager *)

Created ==
  /\ canceled' = FALSE /\ directory' = (kind = "isolated") /\ reducer' = "select"

\* DownloadManagerSlot::get; a caller that finds the slot initializing waits.
Get(c) ==
  /\ caller[c] = "get" /\ slot # "initializing"
  /\ CASE slot = "ready" -> Becomes(c, "act") /\ senders' = senders \cup {c} /\ UNCHANGED slot
       [] slot = "empty" /\ kind = "isolated" ->
            slot' = "initializing" /\ UNCHANGED <<caller, senders>>
       [] slot = "empty" /\ kind = "default" ->
            slot' = "initializing" /\ Becomes(c, "create") /\ UNCHANGED senders
       [] OTHER -> Fails(c) /\ UNCHANGED <<slot, senders>>
  /\ UNCHANGED <<kind, canceled, directory, reducer, announced, status,
                 updates, got, outcome, closer, chromeDownloads>>

\* The spawned initialisation of a session ends; a failure is kept.
Initialized ==
  /\ kind = "isolated" /\ slot = "initializing"
  /\ \/ slot' = "ready" /\ Created
     \/ slot' = "failed" /\ UNCHANGED <<canceled, directory, reducer>>
  /\ UNCHANGED <<kind, announced, status, senders, callerVars, closer, chromeDownloads>>

\* The first caller initialises the cell of a page; the next one may try again.
CreateDefault(c) ==
  /\ caller[c] = "create"
  /\ \/ slot' = "ready" /\ Created /\ Becomes(c, "get")
     \/ slot' = "empty" /\ Fails(c) /\ UNCHANGED <<canceled, directory, reducer>>
  /\ UNCHANGED <<kind, announced, status, senders, updates, got, outcome, closer, chromeDownloads>>

\* Mutant: progress that comes late replaces a closed status.
FinishLate(st, g, how) ==
  IF st[g] \in {"absent", "open", "closed"} THEN [st EXCEPT ![g] = how] ELSE st
Known(st, g) == IF st[g] = "absent" THEN [st EXCEPT ![g] = "open"] ELSE st

\* DownloadStatus::close and DownloadStatus::finish: the first outcome stays.
Close(st) == [g \in Guids |-> IF st[g] = "open" THEN "closed" ELSE st[g]]
Finish(st, g, how) == IF st[g] \in {"absent", "open"} THEN [st EXCEPT ![g] = how] ELSE st

(* The reducer: its select has no order between the two streams *)

ReduceBegin ==
  /\ reducer = "select" /\ begins # <<>>
  /\ status' = Known(status, Head(begins))
  /\ announced' = Head(begins) /\ begins' = Tail(begins) /\ reducer' = "publish"
  /\ UNCHANGED <<kind, slot, canceled, directory, senders, callerVars, closer, ends, source>>

Publish ==
  /\ reducer = "publish" /\ reducer' = "select"
  /\ updates' = [c \in Callers |-> IF c \in senders THEN Append(updates[c], announced) ELSE updates[c]]
  /\ announced' = None
  /\ UNCHANGED <<kind, slot, canceled, directory, status, senders,
                 caller, got, outcome, closer, chromeDownloads>>

ReduceProgress ==
  /\ reducer = "select" /\ ends # <<>>
  /\ status' = Finish(status, Head(ends).g, Head(ends).how)
  /\ ends' = Tail(ends)
  /\ UNCHANGED <<kind, slot, canceled, directory, reducer, announced, senders,
                 callerVars, closer, begins, source>>

ReducerEnds ==
  /\ reducer = "select" /\ reducer' = "ended"
  /\ \/ canceled /\ UNCHANGED <<status, senders>>
     \/ ~source /\ (begins = <<>> \/ ends = <<>>) /\ status' = Close(status) /\ senders' = {}
  /\ UNCHANGED <<kind, slot, canceled, directory, announced, callerVars, closer, chromeDownloads>>

-----------------------------------------------------------------------------
(* expect_download, Download::wait and Download::save_as *)

Expect(c) ==
  /\ caller[c] = "new"
  /\ IF Closing THEN Fails(c) ELSE Becomes(c, "get")
  /\ UNCHANGED <<kind, managerVars, updates, got, outcome, closer, chromeDownloads>>

\* The caller's action makes Chrome start a download, or does not.
Act(c) ==
  /\ caller[c] = "act" /\ Becomes(c, "receive")
  /\ \/ \E g \in Guids : /\ \A d \in Callers : got[d] # g
                         /\ g \notin {begins[i] : i \in 1 .. Len(begins)}
                         /\ status[g] = "absent" /\ announced # g /\ source
                         /\ begins' = Append(begins, g)
     \/ UNCHANGED begins
  /\ UNCHANGED <<kind, managerVars, updates, got, outcome, closer, ends, source>>

Receive(c) ==
  /\ caller[c] = "receive" /\ updates[c] # <<>>
  /\ got' = [got EXCEPT ![c] = Head(updates[c])]
  /\ status' = Known(status, Head(updates[c]))
  /\ Becomes(c, "have")
  /\ UNCHANGED <<kind, slot, canceled, directory, reducer, announced, senders,
                 updates, outcome, closer, chromeDownloads>>

\* The sender has gone, or the wait has timed out.
NothingReceived(c) ==
  /\ caller[c] = "receive" /\ updates[c] = <<>>
  /\ Fails(c) /\ senders' = senders \ {c}
  /\ UNCHANGED <<kind, slot, canceled, directory, reducer, announced, status,
                 updates, got, outcome, closer, chromeDownloads>>

Wait(c) ==
  /\ caller[c] = "have"
  /\ IF Closing THEN Fails(c) ELSE Becomes(c, "wait")
  /\ UNCHANGED <<kind, managerVars, updates, got, outcome, closer, chromeDownloads>>

\* A completed download of an isolated session is copied from its directory.
WaitEnds(c) ==
  /\ caller[c] = "wait" /\ status[got[c]] \in Final
  /\ outcome' = [outcome EXCEPT ![c] = status[got[c]]]
  /\ Becomes(c, IF kind = "isolated" /\ status[got[c]] = "completed" THEN "copy" ELSE "done")
  /\ UNCHANGED <<kind, managerVars, updates, got, closer, chromeDownloads>>

Copied(c) ==
  /\ caller[c] = "copy" /\ Becomes(c, "done")
  /\ UNCHANGED <<kind, managerVars, updates, got, outcome, closer, chromeDownloads>>

-----------------------------------------------------------------------------
(* Closing the owner *)

StartClose ==
  /\ closer = "open"
  /\ closer' = IF kind = "default" THEN "begin" ELSE "drain"
  /\ UNCHANGED <<kind, managerVars, callerVars, chromeDownloads>>

\* Mutant: the waits are not ended before the operations are drained.
BeginCloseKeepingWaits ==
  /\ closer \in {"begin", "again"}
  /\ IF slot = "ready" THEN canceled' = TRUE ELSE UNCHANGED canceled
  /\ slot' = IF kind = "isolated" THEN IF slot = "ready" THEN "closing" ELSE "closed" ELSE slot
  /\ closer' = IF closer = "begin" THEN "clear" ELSE "clear again"
  /\ UNCHANGED <<kind, directory, reducer, announced, status, senders, callerVars, chromeDownloads>>

\* DownloadManagerSlot::begin_close or begin_side_effect_close of a page: the
\* statuses are closed, then the senders are dropped.
BeginClose ==
  /\ closer \in {"begin", "again"}
  /\ IF slot = "ready" THEN canceled' = TRUE /\ status' = Close(status)
                       ELSE UNCHANGED <<canceled, status>>
  /\ slot' = IF kind = "isolated" THEN IF slot = "ready" THEN "closing" ELSE "closed" ELSE slot
  /\ closer' = IF closer = "begin" THEN "clear" ELSE "clear again"
  /\ UNCHANGED <<kind, directory, reducer, announced, senders, callerVars, chromeDownloads>>

ClearSenders ==
  /\ closer \in {"clear", "clear again"}
  /\ senders' = IF slot \in {"ready", "closing"} THEN {} ELSE senders
  /\ closer' = IF closer = "clear" THEN "drain" ELSE "finish"
  /\ UNCHANGED <<kind, slot, canceled, directory, reducer, announced, status,
                 callerVars, chromeDownloads>>

Drain ==
  /\ closer = "drain" /\ Drained
  /\ closer' = "again"
  /\ UNCHANGED <<kind, managerVars, callerVars, chromeDownloads>>

\* finish_close: closes again, joins the reducer, removes the directory
FinishClose ==
  /\ closer = "finish" /\ reducer \in {"none", "ended"}
  /\ directory' = FALSE /\ closer' = "closed"
  /\ UNCHANGED <<kind, slot, canceled, reducer, announced, status, senders,
                 callerVars, chromeDownloads>>

-----------------------------------------------------------------------------
(* Chrome *)

DownloadEnds ==
  \E g \in Guids, how \in {"completed", "canceled"} :
    /\ source
    /\ g \in {begins[i] : i \in 1 .. Len(begins)} \/ status[g] # "absent"
    /\ g \notin {ends[i].g : i \in 1 .. Len(ends)} /\ status[g] \in {"absent", "open"}
    /\ ends' = Append(ends, [g |-> g, how |-> how])
    /\ UNCHANGED <<kind, managerVars, callerVars, closer, begins, source>>

SourceLost ==
  /\ source /\ source' = FALSE
  /\ UNCHANGED <<kind, managerVars, callerVars, closer, begins, ends>>

-----------------------------------------------------------------------------
Init ==
  /\ kind \in Kinds
  /\ slot = "empty" /\ canceled = FALSE /\ directory = FALSE
  /\ reducer = "none" /\ announced = None
  /\ status = [g \in Guids |-> "absent"]
  /\ senders = {} /\ updates = [c \in Callers |-> <<>>]
  /\ caller = [c \in Callers |-> "new"]
  /\ got = [c \in Callers |-> None] /\ outcome = [c \in Callers |-> "none"]
  /\ closer = "open" /\ begins = <<>> /\ ends = <<>> /\ source = TRUE

\* What tokio runs and what has a deadline; Chrome owes nothing.
Progress ==
  \/ Initialized \/ ReduceBegin \/ Publish \/ ReduceProgress \/ ReducerEnds
  \/ BeginClose \/ ClearSenders \/ Drain \/ FinishClose
  \/ \E c \in Callers :
       \/ Get(c) \/ CreateDefault(c) \/ Act(c) \/ Receive(c) \/ NothingReceived(c)
       \/ Wait(c) \/ WaitEnds(c) \/ Copied(c)

Next ==
  \/ Progress
  \/ \E c \in Callers : Expect(c)
  \/ StartClose \/ DownloadEnds \/ SourceLost

Spec == Init /\ [][Next]_downloadVars /\ WF_downloadVars(Progress)

-----------------------------------------------------------------------------
(* Properties *)

(* Everybody who waits for a download learns the same outcome, although its *)
(* end, the close and the loss of the connection race.                      *)
OneOutcome ==
  \A c, d \in Callers :
    (outcome[c] # "none" /\ outcome[d] # "none" /\ got[c] = got[d]) => outcome[c] = outcome[d]

(* The directory a completed download is copied from is there until the     *)
(* copy is made, and a closed owner leaves neither directory nor reducer.   *)
DirectoryOutlivesSaves ==
  /\ \A c \in Callers : caller[c] = "copy" => directory
  /\ closer = "closed" => ~directory /\ reducer \in {"none", "ended"}

(* The close of a page returns, whatever Chrome does with the downloads     *)
(* that are awaited.                                                        *)
PageCloseReturns == (kind = "default" /\ Closing) ~> closer = "closed"

(* "Every explicit close() returns a CloseReport" (README.md:16)            *)
EveryCloseReturns == Closing ~> closer = "closed"

(* Whoever awaits a download learns its one outcome, and the directory it   *)
(* is copied from is there until the copy is made.                          *)
DownloadsAreSettled == OneOutcome /\ DirectoryOutlivesSaves
=============================================================================
