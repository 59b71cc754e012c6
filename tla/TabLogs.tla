-------------------------------- MODULE TabLogs -------------------------------
(***************************************************************************)
(* The daemon's `network watch`, `debug block` and `debug unblock`          *)
(* (daemon/handler/network.rs): responses that match are collected until    *)
(* each has ended, up to a count; responses, ends and failures come from    *)
(* three subscriptions made one after the other and read in any order, so   *)
(* an end read before its response waits in a bounded buffer.               *)
(*                                                                          *)
(* Abstracted: a request matches or not; what a response says is data.      *)
(***************************************************************************)
EXTENDS Naturals, Sequences, FiniteSets, SequencesExt

CONSTANTS
  Requests,       \* requests of the page
  Counts,         \* values of --count
  Capacity,       \* TERMINAL_EVENT_CAPACITY
  None

VARIABLES
  want,        \* parameters: count (0: invalid), session
  pc, reason,  \* of the watch; stop_reason or error
  matches,     \* requests whose response matches
  request,     \* state of each request in the page, and how it ended
  blocked,     \* whether the page's requests are blocked
  listening,   \* subscriptions made, of the three
  arrived,     \* the streams: responses, finished, failed
  pending, terminals,  \* responses without an end, ends without a response
  responses,   \* requests reported, and as what
  dropped,     \* matching responses beyond the count
  seen         \* ghost: events the watch has read

nwVars == <<want, pc, reason, matches, request, blocked, listening, arrived, pending, terminals,
            responses, dropped, seen>>

Streams == {"response", "finished", "failed"}
Order(s) == CASE s = "response" -> 1 [] s = "finished" -> 2 [] OTHER -> 3
Reported == {responses[i].request : i \in DOMAIN responses}
Ends(code) == pc' = "ended" /\ reason' = code

-----------------------------------------------------------------------------
(* The handler *)

\* validate_network_watch_params and resolve_session_target.
Begin ==
  /\ pc = "begin"
  /\ IF want.count = 0 THEN Ends("InvalidArgument")
     ELSE IF want.session # "open" THEN Ends(want.session)
     ELSE pc' = "subscribing" /\ UNCHANGED reason
  /\ UNCHANGED <<want, matches, request, blocked, listening, arrived, pending, terminals, responses,
                 dropped, seen>>

\* The three subscriptions and Network.enable; the network of a tab is enabled already.
Subscribe ==
  /\ pc = "subscribing"
  /\ \/ /\ listening' = listening + 1
        /\ pc' = IF listening' = 3 THEN "watching" ELSE pc
        /\ UNCHANGED reason
     \/ Ends("DaemonError") /\ UNCHANGED listening
  /\ UNCHANGED <<want, matches, request, blocked, arrived, pending, terminals, responses, dropped, seen>>

Watching == pc = "watching" /\ Len(responses) < want.count

Stop(code) ==
  /\ Watching
  /\ Ends(code)
  /\ UNCHANGED <<want, matches, request, blocked, listening, arrived, pending, terminals, responses,
                 dropped, seen>>

TimeOut == Stop("timeout")

\* SelectedNetworkEvent::StreamClosed, or an event that cannot be read.
StreamStops == \E code \in {"event_stream_closed", "event_stream_error"} : Stop(code)

CountReached ==
  /\ pc = "watching" /\ Len(responses) >= want.count
  /\ Ends("count")
  /\ UNCHANGED <<want, matches, request, blocked, listening, arrived, pending, terminals, responses,
                 dropped, seen>>

Take(s) ==
  /\ arrived' = [arrived EXCEPT ![s] = Tail(@)]
  /\ seen' = seen \cup {<<s, Head(arrived[s])>>}

Report(q, how) == responses' = Append(responses, [request |-> q, how |-> how])

\* Mutant: responses already waiting for their end are not counted.
CanTrackMore == Len(responses) < want.count

\* can_track_matching_response.
CanTrack == Len(responses) + Cardinality(pending) < want.count

\* Mutant: an end read before its response is forgotten.
RecordUnended(q) == pending' = pending \cup {q} /\ UNCHANGED <<responses, terminals>>

\* record_response: the end may be here already.
RecordResponse(q) ==
  IF terminals[q] # None
  THEN /\ Report(q, terminals[q])
       /\ terminals' = [terminals EXCEPT ![q] = None]
       /\ UNCHANGED pending
  ELSE pending' = pending \cup {q} /\ UNCHANGED <<responses, terminals>>

ReadResponse ==
  /\ Watching /\ arrived["response"] # <<>>
  /\ LET q == Head(arrived["response"]) IN
       IF q \in matches /\ (q \in pending \/ CanTrack)
       THEN RecordResponse(q) /\ UNCHANGED dropped
       ELSE /\ terminals' = [terminals EXCEPT ![q] = None]
            /\ dropped' = IF q \in matches THEN dropped \cup {q} ELSE dropped
            /\ UNCHANGED <<pending, responses>>
  /\ Take("response")
  /\ UNCHANGED <<want, pc, reason, matches, request, blocked, listening>>

Buffered == {q \in Requests : terminals[q] # None}

\* Mutant: an end that finds the buffer full is dropped, the watch goes on.
OverflowsLate(q) == FALSE

\* TerminalBuffer::insert: the watch stops when the buffer is full, not when it overflows.
Overflows(q) == Cardinality(Buffered \cup {q}) >= Capacity

\* record_terminal and apply_terminal_record, of a finished or a failed request.
ReadEnd(s) ==
  /\ Watching /\ s # "response" /\ arrived[s] # <<>>
  /\ LET q == Head(arrived[s]) IN
       IF q \in pending
       THEN /\ Report(q, s) /\ pending' = pending \ {q}
            /\ UNCHANGED <<terminals, pc, reason>>
       ELSE /\ terminals' = IF Cardinality(Buffered) < Capacity THEN [terminals EXCEPT ![q] = s] ELSE terminals
            /\ IF Overflows(q) THEN Ends("terminal_buffer_overflow") ELSE UNCHANGED <<pc, reason>>
            /\ UNCHANGED <<pending, responses>>
  /\ Take(s)
  /\ UNCHANGED <<want, matches, request, blocked, listening, dropped>>

-----------------------------------------------------------------------------
(* Blocking, and the page *)

\* do_debug_block and do_debug_unblock: one list of patterns, replaced each time.
SetBlocked(value) ==
  /\ blocked # value /\ blocked' = value
  /\ UNCHANGED <<want, pc, reason, matches, request, listening, arrived, pending, terminals,
                 responses, dropped, seen>>

Tell(s, q) ==
  arrived' = IF listening >= Order(s) /\ pc # "ended" THEN [arrived EXCEPT ![s] = Append(@, q)] ELSE arrived

Answer(q) ==
  /\ request[q] = "sent" /\ ~blocked
  /\ request' = [request EXCEPT ![q] = "answered"]
  /\ Tell("response", q)
  /\ UNCHANGED <<want, pc, reason, matches, blocked, listening, pending, terminals, responses,
                 dropped, seen>>

\* A request fails with or without a response, a blocked one without.
EndOf(q, s) ==
  /\ s # "response"
  /\ request[q] = "answered" \/ (request[q] = "sent" /\ s = "failed")
  /\ request' = [request EXCEPT ![q] = s]
  /\ Tell(s, q)
  /\ UNCHANGED <<want, pc, reason, matches, blocked, listening, pending, terminals, responses,
                 dropped, seen>>

-----------------------------------------------------------------------------
(* Specification *)

WatchInit ==
  /\ want \in [count : Counts \cup {0}, session : {"open", "SessionNotFound", "TargetNotFound"}]
  /\ pc = "begin" /\ reason = None /\ matches \in SUBSET Requests
  /\ request = [q \in Requests |-> "sent"] /\ blocked = FALSE
  /\ listening = 0 /\ arrived = [s \in Streams |-> <<>>]
  /\ pending = {} /\ terminals = [q \in Requests |-> None] /\ responses = <<>> /\ dropped = {}
  /\ seen = {}

WatchNext ==
  \/ Begin \/ Subscribe \/ TimeOut \/ StreamStops \/ CountReached \/ ReadResponse
  \/ \E s \in Streams : ReadEnd(s)
  \/ \E value \in BOOLEAN : SetBlocked(value)
  \/ \E q \in Requests : Answer(q)
  \/ \E q \in Requests, s \in Streams : EndOf(q, s)

WatchSpec == WatchInit /\ [][WatchNext]_nwVars

-----------------------------------------------------------------------------
(* Properties *)

Ended(q) == \E s \in {"finished", "failed"} : <<s, q>> \in seen

\* What is kept is bounded by the count and the capacity of the buffer.
KeptIsBounded ==
  /\ Len(responses) + Cardinality(pending) <= want.count
  /\ Cardinality(Buffered) <= Capacity

\* In whatever order a matching response and its end are read, it is reported
\* once, as it has ended; it is left out only if it was told as dropped.
EveryMatchIsReported ==
  \A q \in matches :
    /\ <<"response", q>> \in seen /\ q \notin dropped => (q \in Reported) = Ended(q)
    /\ \A i, j \in DOMAIN responses : responses[i].request = responses[j].request => i = j

ReportsAreTrue ==
  \A i \in DOMAIN responses :
    /\ responses[i].request \in matches /\ responses[i].how = request[responses[i].request]
    /\ <<responses[i].how, responses[i].request>> \in seen

\* The reason told is the one that held.
StopIsTrue ==
  /\ reason = "count" => Len(responses) = want.count
  /\ reason \in {"timeout", "event_stream_closed", "event_stream_error"} => Len(responses) < want.count
  /\ (reason = "terminal_buffer_overflow") = (Cardinality(Buffered) = Capacity)

WatchIsSound == KeptIsBounded /\ EveryMatchIsReported /\ ReportsAreTrue /\ StopIsTrue

-----------------------------------------------------------------------------
(***************************************************************************)
(* The console log the daemon keeps of each tab (daemon/console.rs): one    *)
(* task per tab that reads the events of the tab's session, releases the    *)
(* objects they hold and appends an entry, while the tab is removed, and    *)
(* attached again (daemon/target_lifecycle.rs).                             *)
(*                                                                          *)
(* One tab of one session; each time it is attached it gets another session *)
(* in Chrome and another task.  An event is that session and its number.    *)
(***************************************************************************)
CONSTANTS
  Attachments, \* bound: times the tab is attached
  LogMax,      \* CONSOLE_LOG_MAX
  MaxEvents    \* bound: events of one session

VARIABLES
  tab,      \* the tab's attachment, or None when the session has no such tab
  log,      \* the tab's console_log
  token,    \* console_subscription_tokens: the attachment whose token it holds
  attacher, \* of each attachment: new, subscribed, added, cleared, spawned or refused
  task,     \* of each task: none, waiting, releasing, recording or ended
  cancelled, \* the tokens that are cancelled
  stream, emitted, taken, \* of each attachment's session in Chrome
  recorded, \* history: of each log, the entries ever appended
  overlapped \* history: tasks started while another had cleared the token and not set its own

consoleVars == <<tab, log, token, attacher, task, cancelled, stream, emitted, taken, recorded,
                overlapped>>

Runs == 1..Attachments

-----------------------------------------------------------------------------
(* Attachment *)

\* prepare_session_tab_subscriptions: the subscription comes before the domain
\* is enabled.
SubscribeConsole(i) ==
  /\ attacher[i] = "new"
  /\ attacher' = [attacher EXCEPT ![i] = "subscribed"]
  /\ UNCHANGED <<tab, log, token, task, cancelled, stream, emitted, taken, recorded, overlapped>>

\* The tab is added under the registration lock, unless it is there already.
AddTab(i) ==
  /\ attacher[i] = "subscribed"
  /\ IF tab # None THEN /\ attacher' = [attacher EXCEPT ![i] = "refused"]
                        /\ UNCHANGED <<tab, log>>
     ELSE /\ attacher' = [attacher EXCEPT ![i] = "added"]
          /\ tab' = i /\ log' = <<>>
  /\ UNCHANGED <<token, task, cancelled, stream, emitted, taken, recorded, overlapped>>

\* Mutant: the task of an earlier attachment goes on.
ClearNothing(i) ==
  /\ attacher[i] = "added"
  /\ attacher' = [attacher EXCEPT ![i] = "cleared"]
  /\ UNCHANGED <<tab, log, token, task, cancelled, stream, emitted, taken, recorded, overlapped>>

\* spawn_console_subscription_for_key: an earlier token of the tab is taken and
\* cancelled, ...
Clear(i) ==
  /\ attacher[i] = "added"
  /\ cancelled' = cancelled \cup ({token} \ {None}) /\ token' = None
  /\ attacher' = [attacher EXCEPT ![i] = "cleared"]
  /\ UNCHANGED <<tab, log, task, stream, emitted, taken, recorded, overlapped>>

\* ... the new one is inserted and the task runs.
Spawn(i) ==
  /\ attacher[i] = "cleared"
  /\ token' = i /\ task' = [task EXCEPT ![i] = "waiting"]
  /\ attacher' = [attacher EXCEPT ![i] = "spawned"]
  /\ overlapped' = IF \E j \in Runs \ {i} : attacher[j] = "cleared" THEN overlapped \cup {i} ELSE overlapped
  /\ UNCHANGED <<tab, log, cancelled, stream, emitted, taken, recorded>>

\* Mutant: the token is forgotten, not cancelled.
RemoveTabQuietly ==
  /\ tab # None /\ tab' = None /\ log' = <<>> /\ token' = None
  /\ UNCHANGED <<attacher, task, cancelled, stream, emitted, taken, recorded, overlapped>>

\* remove_session_tab, cancel_console_subscription.
RemoveTab ==
  /\ tab # None /\ tab' = None /\ log' = <<>>
  /\ cancelled' = cancelled \cup ({token} \ {None}) /\ token' = None
  /\ UNCHANGED <<attacher, task, stream, emitted, taken, recorded, overlapped>>

-----------------------------------------------------------------------------
(* The task: its select is not biased *)

TaskEnds(i) == task' = [task EXCEPT ![i] = "ended"] /\ cancelled' = cancelled \cup {i}

StopCancelled(i) ==
  /\ task[i] = "waiting" /\ i \in cancelled /\ TaskEnds(i)
  /\ UNCHANGED <<tab, log, token, attacher, stream, emitted, taken, recorded, overlapped>>

\* The next event; one that is malformed is skipped.
TakeEvent(i) ==
  /\ task[i] = "waiting" /\ stream[i] # <<>>
  /\ taken' = [taken EXCEPT ![i] = Head(stream[i])]
  /\ stream' = [stream EXCEPT ![i] = Tail(@)]
  /\ \/ task' = [task EXCEPT ![i] = "releasing"]
     \/ UNCHANGED task
  /\ UNCHANGED <<tab, log, token, attacher, cancelled, emitted, recorded, overlapped>>

\* The stream is broken or over.
StopBroken(i) ==
  /\ task[i] = "waiting" /\ TaskEnds(i)
  /\ UNCHANGED <<tab, log, token, attacher, stream, emitted, taken, recorded, overlapped>>

\* ReleaseObject for each object; a failure is only logged.
Release(i) ==
  /\ task[i] = "releasing"
  /\ task' = [task EXCEPT ![i] = "recording"]
  /\ UNCHANGED <<tab, log, token, attacher, cancelled, stream, emitted, taken, recorded, overlapped>>

\* Mutant: a full log loses its newest entry.
PushLosingLast(entry) == IF Len(log) >= LogMax THEN Append(Front(log), entry) ELSE Append(log, entry)

\* push_console_entry.
Push(entry) == Append(IF Len(log) >= LogMax THEN Tail(log) ELSE log, entry)

\* record_console_entry_for_session: by name; false ends the task.
Record(i) ==
  /\ task[i] = "recording"
  /\ IF tab = None THEN TaskEnds(i) /\ UNCHANGED <<log, recorded, overlapped>>
     ELSE LET entry == <<i, taken[i]>> IN
          /\ log' = Push(entry)
          /\ recorded' = [recorded EXCEPT ![tab] = Append(@, entry)]
          /\ task' = [task EXCEPT ![i] = "waiting"] /\ UNCHANGED cancelled
  /\ UNCHANGED <<tab, token, attacher, stream, emitted, taken, overlapped>>

-----------------------------------------------------------------------------
(* Chrome *)

\* A page logs: seen by the subscription of its session.
Emit(i) ==
  /\ attacher[i] \notin {"new", "refused"} /\ emitted[i] < MaxEvents
  /\ emitted' = [emitted EXCEPT ![i] = @ + 1]
  /\ stream' = [stream EXCEPT ![i] = Append(@, emitted[i] + 1)]
  /\ UNCHANGED <<tab, log, token, attacher, task, cancelled, taken, recorded, overlapped>>

-----------------------------------------------------------------------------
(* Specification *)

ConsoleInit ==
  /\ tab = None /\ log = <<>> /\ token = None
  /\ attacher = [i \in Runs |-> "new"] /\ task = [i \in Runs |-> "none"]
  /\ cancelled = {} /\ stream = [i \in Runs |-> <<>>]
  /\ emitted = [i \in Runs |-> 0] /\ taken = [i \in Runs |-> 0]
  /\ recorded = [i \in Runs |-> <<>>] /\ overlapped = {}

ConsoleNext ==
  \/ \E i \in Runs :
       \/ SubscribeConsole(i) \/ AddTab(i) \/ Clear(i) \/ Spawn(i) \/ StopCancelled(i) \/ TakeEvent(i)
       \/ StopBroken(i) \/ Release(i) \/ Record(i) \/ Emit(i)
  \/ RemoveTab

ConsoleSpec == ConsoleInit /\ [][ConsoleNext]_consoleVars

-----------------------------------------------------------------------------
(* Properties *)

Cancellable(i) == i \in cancelled \/ token = i

\* Every task that runs can be stopped: its token is the tab's or is cancelled,
\* unless two were started at once.
TasksAreHeld ==
  \A i \in Runs \ overlapped :
    task[i] \in {"waiting", "releasing", "recording"} => Cancellable(i)

\* A log is the end of what was recorded of the tab, each session's events in
\* their order.
LogIsTheEnd ==
  tab # None =>
    /\ Len(log) <= LogMax
    /\ log = SubSeq(recorded[tab], Len(recorded[tab]) - Len(log) + 1, Len(recorded[tab]))
    /\ Len(log) < LogMax => log = recorded[tab]
    /\ \A j, k \in DOMAIN log : j < k /\ log[j][1] = log[k][1] => log[j][2] < log[k][2]

ConsoleIsSound == TasksAreHeld /\ LogIsTheEnd
=============================================================================
