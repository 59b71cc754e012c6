---------------------------- MODULE EventStreams ----------------------------
(***************************************************************************)
(* The events of one page (runtime/event.rs, runtime/page.rs): a hub with   *)
(* the unbounded streams of its subscribers, the reasons that close it, the *)
(* first terminal failure of a route, and the collector of a diagnostic     *)
(* (runtime/diagnostic.rs), which reads one of the streams within budgets.  *)
(*                                                                          *)
(* Abstracted: an event is its size as a retained diagnostic event, 0 when  *)
(* it is not one; identities and times of observation are left out.         *)
(***************************************************************************)
EXTENDS Naturals, Sequences, SequencesExt, FiniteSetsExt

CONSTANTS
  Streams,            \* handles of subscribers
  Sizes,              \* sizes of the events, 0: not a diagnostic event
  EventBudget, ByteBudget,
  MaxEvents,          \* bound on the events published
  CloseReasons,       \* ScopeClosed, or TargetReplaced when the target was destroyed
  Errors,             \* terminal failures of routes
  None

VARIABLES
  hub,        \* closed: terminal reason, next: sequence, members: live senders
  stream,     \* of each handle: phase, queue of items, joined: next when it was asked for
  page,       \* OperationGate of the page: open, closing, closed
  terminal,   \* TerminalRouteState: first error, and whether failures were kept
  closers,    \* reasons with which the hub is about to be closed
  diag,       \* DiagnosticCollector and DiagnosticEvents
  bundle,     \* DiagnosticBundle: phase and its two parts
  published,  \* ghost: sizes of the events of the page, in order
  taken       \* ghost: items each handle has read

evVars == <<hub, stream, page, terminal, closers, diag, bundle, published, taken>>

Reasons == CloseReasons \cup {"SourceClosed", "RouteFailed"}
Event(n, size) == [seq |-> n, size |-> size, end |-> None]
End(reason) == [seq |-> 0, size |-> 0, end |-> reason]
IsEnd(item) == item.end # None
Live(s) == stream[s].phase \in {"joined", "preparing", "open"}

-----------------------------------------------------------------------------
(* The hub *)

\* Mutant: a subscriber of a closed hub waits for an event that never comes.
JoinSilently(s) ==
  /\ stream' = [stream EXCEPT ![s] = [phase |-> "joined", queue |-> <<>>, joined |-> hub.next]]
  /\ hub' = IF hub.closed = None THEN [hub EXCEPT !.members = @ \cup {s}] ELSE hub

\* subscribe: a closed hub answers with its terminal at once.
Join(s) ==
  IF hub.closed # None
  THEN /\ stream' = [stream EXCEPT ![s] = [phase |-> "joined", queue |-> <<End(hub.closed)>>, joined |-> hub.next]]
       /\ UNCHANGED hub
  ELSE /\ stream' = [stream EXCEPT ![s] = [phase |-> "joined", queue |-> <<>>, joined |-> hub.next]]
       /\ hub' = [hub EXCEPT !.members = @ \cup {s}]

\* subscribe_events: the stream is made before anything is awaited.
Subscribe(s) ==
  /\ stream[s].phase = "none"
  /\ Join(s)
  /\ UNCHANGED <<page, terminal, closers, diag, bundle, published, taken>>

\* Mutant: the sender of a dropped stream stays in the hub.
LeaveSilently(s) ==
  /\ stream' = [stream EXCEPT ![s].phase = "dropped", ![s].queue = <<>>]
  /\ UNCHANGED hub

\* TypedEventStream::drop.
Leave(s) ==
  /\ stream' = [stream EXCEPT ![s].phase = "dropped", ![s].queue = <<>>]
  /\ hub' = [hub EXCEPT !.members = @ \ {s}]

\* After a terminal failure of a route the stream only tells that failure.
Admit(s) ==
  /\ stream[s].phase = "joined"
  /\ IF terminal.error # None THEN stream' = [stream EXCEPT ![s].phase = "open"] /\ UNCHANGED hub
     ELSE IF page # "open" THEN Leave(s)
     ELSE stream' = [stream EXCEPT ![s].phase = "preparing"] /\ UNCHANGED hub
  /\ UNCHANGED <<page, terminal, closers, diag, bundle, published, taken>>

\* frame_store_admitted and enable_runtime_events, which may fail.
Prepared(s) ==
  /\ stream[s].phase = "preparing"
  /\ \/ stream' = [stream EXCEPT ![s].phase = "open"] /\ UNCHANGED hub
     \/ Leave(s)
  /\ UNCHANGED <<page, terminal, closers, diag, bundle, published, taken>>

\* publish_with_identity, also of the events Runtime.enable replays.
Publish(size) ==
  /\ hub.closed = None /\ Len(published) < MaxEvents
  /\ hub' = [hub EXCEPT !.next = @ + 1]
  /\ stream' = [s \in Streams |->
       IF s \in hub.members THEN [stream[s] EXCEPT !.queue = Append(@, Event(hub.next, size))] ELSE stream[s]]
  /\ published' = Append(published, size)
  /\ UNCHANGED <<page, terminal, closers, diag, bundle, taken>>

\* Mutant: a later reason replaces the first one.
CloseTerminalAgain(reason) ==
  /\ hub' = [hub EXCEPT !.closed = reason, !.members = {}]
  /\ stream' = [s \in Streams |->
       IF s \in hub.members THEN [stream[s] EXCEPT !.queue = Append(@, End(reason))] ELSE stream[s]]

\* close_terminal and the drop of the hub: the first reason is the terminal of every stream.
CloseTerminal(reason) ==
  IF hub.closed # None THEN UNCHANGED <<hub, stream>>
  ELSE /\ hub' = [hub EXCEPT !.closed = reason, !.members = {}]
       /\ stream' = [s \in Streams |->
            IF s \in hub.members THEN [stream[s] EXCEPT !.queue = Append(@, End(reason))] ELSE stream[s]]

CloseHub(reason) ==
  /\ reason \in closers
  /\ CloseTerminal(reason)
  /\ closers' = closers \ {reason}
  /\ UNCHANGED <<page, terminal, diag, bundle, published, taken>>

-----------------------------------------------------------------------------
(* The page *)

\* TerminalRouteState::record and record_terminal_route_failure: the hub is closed by the first
\* failure only; what could not be cleaned up is kept from each of them.
FailRoute(error) ==
  /\ error \notin terminal.kept
  /\ terminal' = [error |-> IF terminal.error = None THEN error ELSE terminal.error,
                  kept |-> terminal.kept \cup {error}]
  /\ closers' = IF terminal.error = None THEN closers \cup {"RouteFailed"} ELSE closers
  /\ UNCHANGED <<hub, stream, page, diag, bundle, published, taken>>

\* close, mark_closed_by_session, close_after_target_destroyed: the gate is closed, then the hub.
StartClose ==
  /\ page = "open" /\ page' = "closing"
  /\ UNCHANGED <<hub, stream, terminal, closers, diag, bundle, published, taken>>

FinishClose ==
  /\ page = "closing" /\ page' = "closed"
  /\ bundle.phase \notin {"snapshot", "screenshot"}
  /\ \E reason \in CloseReasons : closers' = closers \cup {reason}
  /\ UNCHANGED <<hub, stream, terminal, diag, bundle, published, taken>>

\* close_event_source: the reducer of the frames has lost its events.
SourceEnds ==
  /\ page = "open" /\ "SourceClosed" \notin closers /\ hub.closed = None
  /\ closers' = closers \cup {"SourceClosed"}
  /\ UNCHANGED <<hub, stream, page, terminal, diag, bundle, published, taken>>

-----------------------------------------------------------------------------
(* Subscribers *)

Take(s) ==
  /\ stream' = [stream EXCEPT ![s].queue = Tail(@)]
  /\ taken' = [taken EXCEPT ![s] = Append(@, Head(stream[s].queue))]

Read(s) ==
  /\ s # diag.stream /\ stream[s].phase = "open" /\ stream[s].queue # <<>>
  /\ Take(s)
  /\ UNCHANGED <<hub, page, terminal, closers, diag, bundle, published>>

Drop(s) ==
  /\ s # diag.stream /\ stream[s].phase = "open"
  /\ Leave(s)
  /\ UNCHANGED <<page, terminal, closers, diag, bundle, published, taken>>

-----------------------------------------------------------------------------
(* The collector *)

\* collector_from_stream.
Start(s) ==
  /\ diag.phase = "off" /\ stream[s].phase = "open" /\ taken[s] = <<>>
  /\ diag' = [diag EXCEPT !.phase = "on", !.stream = s]
  /\ UNCHANGED <<hub, stream, page, terminal, closers, bundle, published, taken>>

DeadlinePasses ==
  /\ diag.phase = "on" /\ ~diag.due
  /\ diag' = [diag EXCEPT !.due = TRUE]
  /\ UNCHANGED <<hub, stream, page, terminal, closers, bundle, published, taken>>

Finish ==
  /\ diag.phase = "on" /\ ~diag.cancelled
  /\ diag' = [diag EXCEPT !.cancelled = TRUE]
  /\ UNCHANGED <<hub, stream, page, terminal, closers, bundle, published, taken>>

EventFits == Len(diag.kept) < EventBudget
\* Mutant: the bytes already retained are checked, not those there would be.
ByteFitsAlready(size) == diag.bytes <= ByteBudget

ByteFits(size) == diag.bytes + size <= ByteBudget

\* An event is retained when both budgets have room, counted as omitted otherwise.
Observe(size) ==
  IF size = 0 THEN UNCHANGED diag
  ELSE IF EventFits /\ ByteFits(size)
  THEN diag' = [diag EXCEPT !.observed = @ + 1, !.bytes = @ + size, !.kept = Append(@, size)]
  ELSE diag' = [diag EXCEPT !.observed = @ + 1, !.omitted = @ + 1, !.omittedBytes = @ + size,
                            !.eventOmissions = IF EventFits THEN @ ELSE @ + 1,
                            !.byteOmissions = IF ByteFits(size) THEN @ ELSE @ + 1]

\* The select is biased: the deadline, the cancellation, then the stream.
Collect ==
  /\ diag.phase = "on" /\ ~diag.due /\ ~diag.cancelled /\ stream[diag.stream].queue # <<>>
  /\ LET item == Head(stream[diag.stream].queue) IN
       IF IsEnd(item) THEN diag' = [diag EXCEPT !.phase = "done", !.failure = "SourceClosed"]
       ELSE Observe(item.size)
  /\ Take(diag.stream)
  /\ UNCHANGED <<hub, page, terminal, closers, bundle, published>>

\* The task ends and its stream is dropped with it.
Stop ==
  /\ diag.phase = "on" /\ (diag.due \/ diag.cancelled)
  /\ diag' = [diag EXCEPT !.phase = "done", !.timedOut = diag.due]
  /\ Leave(diag.stream)
  /\ UNCHANGED <<page, terminal, closers, bundle, published, taken>>

\* DiagnosticCollector::drop aborts the task.
Abort ==
  /\ diag.phase = "on" /\ ~diag.cancelled
  /\ diag' = [diag EXCEPT !.phase = "aborted"]
  /\ Leave(diag.stream)
  /\ UNCHANGED <<page, terminal, closers, bundle, published, taken>>

\* bundle holds an operation of the page, its parts ask for theirs; what fails is one part.
Bundle ==
  /\ diag.phase = "done" /\ bundle.phase = "none"
  /\ bundle' = [bundle EXCEPT !.phase = IF page = "open" /\ terminal.error = None THEN "snapshot" ELSE "refused"]
  /\ UNCHANGED <<hub, stream, page, terminal, closers, diag, published, taken>>

\* DiagnosticPart::from_result; a page that closes refuses the part's own operation.
Part == IF page = "open" /\ terminal.error = None THEN {"value", "failure"} ELSE {"failure"}

TakeSnapshot ==
  /\ bundle.phase = "snapshot"
  /\ \E result \in Part, next \in {"screenshot", "done"} :
       bundle' = [bundle EXCEPT !.phase = next, !.snapshot = result,
                                !.open = next = "done" /\ page = "open"]
  /\ UNCHANGED <<hub, stream, page, terminal, closers, diag, published, taken>>

TakeScreenshot ==
  /\ bundle.phase = "screenshot"
  /\ \E result \in Part :
       bundle' = [bundle EXCEPT !.phase = "done", !.screenshot = result, !.open = page = "open"]
  /\ UNCHANGED <<hub, stream, page, terminal, closers, diag, published, taken>>

-----------------------------------------------------------------------------
(* Specification *)

Init ==
  /\ hub = [closed |-> None, next |-> 1, members |-> {}]
  /\ stream = [s \in Streams |-> [phase |-> "none", queue |-> <<>>, joined |-> 0]]
  /\ page = "open" /\ terminal = [error |-> None, kept |-> {}] /\ closers = {}
  /\ diag = [phase |-> "off", stream |-> None, due |-> FALSE, cancelled |-> FALSE, kept |-> <<>>, bytes |-> 0,
             observed |-> 0, omitted |-> 0, omittedBytes |-> 0, eventOmissions |-> 0,
             byteOmissions |-> 0, timedOut |-> FALSE, failure |-> None]
  /\ bundle = [phase |-> "none", snapshot |-> None, screenshot |-> None, open |-> FALSE]
  /\ published = <<>> /\ taken = [s \in Streams |-> <<>>]

Next ==
  \/ \E s \in Streams : Subscribe(s) \/ Admit(s) \/ Prepared(s) \/ Read(s) \/ Drop(s) \/ Start(s)
  \/ \E size \in Sizes : Publish(size)
  \/ \E reason \in Reasons : CloseHub(reason)
  \/ \E error \in Errors : FailRoute(error)
  \/ StartClose \/ FinishClose \/ SourceEnds
  \/ DeadlinePasses \/ Finish \/ Collect \/ Stop \/ Abort
  \/ Bundle \/ TakeSnapshot \/ TakeScreenshot

Spec == Init /\ [][Next]_evVars

-----------------------------------------------------------------------------
(* Properties *)

Told(s) == taken[s] \o stream[s].queue
Facts(s) == SelectSeq(Told(s), LAMBDA i : ~IsEnd(i))
Ends(s) == SelectSeq(Told(s), IsEnd)

\* A live stream has every event since its subscription was asked for, also
\* those that enabling Runtime caused, once and in order, and then the first
\* terminal of the hub, which no later close replaces.
NothingIsMissed ==
  \A s \in {t \in Streams : Live(t)} :
    /\ Facts(s) = [i \in 1..(hub.next - stream[s].joined) |->
                     Event(stream[s].joined + i - 1, published[stream[s].joined + i - 1])]
    /\ Ends(s) = IF hub.closed = None THEN <<>> ELSE <<End(hub.closed)>>
    /\ hub.closed # None => IsEnd(Last(Told(s)))

\* The hub sends to live streams only, and a failed route is told or about to be.
HubIsClean ==
  /\ hub.members = IF hub.closed = None THEN {s \in Streams : Live(s)} ELSE {}
  /\ terminal.error # None /\ hub.closed = None => "RouteFailed" \in closers

\* The collector accounts for every diagnostic event it has read: retained in
\* order within both budgets, or omitted for a budget that is counted.
CollectorAccounts ==
  LET all == IF diag.stream = None THEN <<>> ELSE taken[diag.stream]
      read == SelectSeq(all, LAMBDA i : i.size > 0) IN
  /\ diag.observed = Len(read)
  /\ diag.observed = Len(diag.kept) + diag.omitted
  /\ Len(diag.kept) <= EventBudget /\ diag.bytes <= ByteBudget
  /\ diag.bytes = FoldLeft(LAMBDA a, b : a + b, 0, diag.kept)
  /\ diag.bytes + diag.omittedBytes = FoldLeft(LAMBDA a, i : a + i.size, 0, read)
  /\ diag.omitted <= diag.eventOmissions + diag.byteOmissions
  /\ (diag.omitted = 0) = (diag.eventOmissions = 0 /\ diag.byteOmissions = 0)
  /\ \A i \in DOMAIN read : read[i].size > ByteBudget => diag.byteOmissions > 0
  /\ (diag.failure # None) = (\E i \in DOMAIN all : IsEnd(all[i]))

\* The page is not closed under a bundle, whose parts fail only for themselves.
BundleIsWhole ==
  /\ bundle.phase \in {"snapshot", "screenshot"} => page # "closed"
  /\ bundle.phase = "done" => bundle.snapshot # None

StreamsAreSound == NothingIsMissed /\ HubIsClean /\ CollectorAccounts /\ BundleIsWhole
=============================================================================
