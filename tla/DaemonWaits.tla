------------------------------ MODULE DaemonWaits -----------------------------
(***************************************************************************)
(* The `wait` command of the daemon (daemon/handler/wait.rs, page/wait.rs): *)
(* a fixed delay, then a poll of the page at regular intervals, and for a   *)
(* network that is idle the events of three subscriptions, which are read   *)
(* before a poll is due.                                                    *)
(*                                                                          *)
(* Abstracted: the conditions of a poll are one value of the page; finished *)
(* and failed requests end in the same way; a unit of time is the poll      *)
(* interval.                                                                *)
(***************************************************************************)
EXTENDS Naturals, Sequences, FiniteSets

CONSTANTS
  Requests,       \* network requests of the page
  Delays,         \* values of --time
  Timeout, Quiet, \* time limit, NETWORK_IDLE_QUIET_MS, in poll intervals
  MaxClock,       \* bound on the time
  MaxFlips        \* bound on the changes of the page's value

VARIABLES
  want,      \* parameters: time (0: none), poll, idle
  session,   \* what the handler finds of the session and its tab
  value,     \* whether the page meets the conditions of a poll
  open,      \* requests in flight in the page
  done,      \* requests the page has finished
  starts, ends,          \* events delivered and not read
  subscribed,            \* subscriptions made: none, starts, all
  inFlight, idleSince,   \* NetworkIdleCounter
  clock, due, stage, met, result,
  early,     \* ghost: requests started before all subscriptions were made
  busy,      \* ghost: time at which a request was last in flight at a poll
  flips

dwVars == <<want, session, value, open, done, starts, ends, subscribed, inFlight, idleSince,
            clock, due, stage, met, result, early, busy, flips>>

Never == MaxClock + 1
Fails(code) == stage' = "ended" /\ result' = code

-----------------------------------------------------------------------------
(* The handler *)

\* from_params: at least one condition, a known load state.
Parse ==
  /\ stage = "parse"
  /\ IF want.time = 0 /\ ~want.poll /\ ~want.idle THEN Fails("InvalidArgument")
     ELSE stage' = "find" /\ UNCHANGED result
  /\ UNCHANGED <<want, session, value, open, done, starts, ends, subscribed, inFlight, idleSince,
                 clock, due, met, early, busy, flips>>

FindTab ==
  /\ stage = "find"
  /\ IF session = "open" THEN stage' = "delay" /\ due' = clock + want.time /\ UNCHANGED result
     ELSE Fails(CASE session = "none" -> "SessionNotFound"
                  [] session = "disconnected" -> "ChromeDisconnected"
                  [] session = "no-tab" -> "SessionNoTab"
                  [] session = "other-tab" -> "TargetNotFound") /\ UNCHANGED due
  /\ UNCHANGED <<want, session, value, open, done, starts, ends, subscribed, inFlight, idleSince,
                 clock, met, early, busy, flips>>

-----------------------------------------------------------------------------
(* wait_for_conditions *)

\* A delay longer than the time limit is refused; nothing else to wait for ends.
Delay ==
  /\ stage = "delay"
  /\ IF want.time > Timeout THEN Fails("Timeout") /\ UNCHANGED met
     ELSE /\ clock >= due
          /\ IF want.poll \/ want.idle
             THEN stage' = (IF want.idle THEN "subscribe" ELSE "loop") /\ UNCHANGED <<met, result>>
             ELSE Fails("ok") /\ met' = <<"time">>
  /\ UNCHANGED <<want, session, value, open, done, starts, ends, subscribed, inFlight, idleSince,
                 clock, due, early, busy, flips>>

SubscribeStarts ==
  /\ stage = "subscribe" /\ subscribed = "none"
  /\ subscribed' = "starts" /\ early' = early \cup open
  /\ UNCHANGED <<want, session, value, open, done, starts, ends, inFlight, idleSince, clock, due,
                 stage, met, result, busy, flips>>

\* Finished and failed; the counter starts idle.
SubscribeEnds ==
  /\ stage = "subscribe" /\ subscribed = "starts"
  /\ subscribed' = "all" /\ idleSince' = clock /\ stage' = "loop" /\ due' = clock
  /\ UNCHANGED <<want, session, value, open, done, starts, ends, inFlight, clock, met, result,
                 early, busy, flips>>

WaitTimesOut ==
  /\ stage = "loop" /\ clock >= Timeout /\ Fails("Timeout")
  /\ UNCHANGED <<want, session, value, open, done, starts, ends, subscribed, inFlight, idleSince,
                 clock, due, met, early, busy, flips>>

\* The events of a target that is gone end.
StreamEnds ==
  /\ stage = "loop" /\ want.idle /\ session = "gone" /\ Fails("DaemonError")
  /\ UNCHANGED <<want, session, value, open, done, starts, ends, subscribed, inFlight, idleSince,
                 clock, due, met, early, busy, flips>>

\* request_start
ReadStart ==
  /\ stage = "loop" /\ clock < Timeout /\ starts # <<>>
  /\ starts' = Tail(starts)
  /\ inFlight' = inFlight \cup {Head(starts)} /\ idleSince' = Never
  /\ UNCHANGED <<want, session, value, open, done, ends, subscribed, clock, due, stage, met, result,
                 early, busy, flips>>

\* Mutant: the end of a request the counter does not have starts a new quiet time too late.
ReadEndFirst ==
  /\ stage = "loop" /\ clock < Timeout /\ ends # <<>>
  /\ ends' = Tail(ends) /\ inFlight' = inFlight \ {Head(ends)}
  /\ idleSince' = IF inFlight' = {} /\ idleSince = Never THEN clock ELSE idleSince
  /\ UNCHANGED <<want, session, value, open, done, starts, subscribed, clock, due, stage, met, result,
                 early, busy, flips>>

\* request_end: select is biased, starts are read first.
ReadEnd ==
  /\ stage = "loop" /\ clock < Timeout /\ starts = <<>> /\ ends # <<>>
  /\ ends' = Tail(ends) /\ inFlight' = inFlight \ {Head(ends)}
  /\ idleSince' = IF inFlight' = {} /\ idleSince = Never THEN clock ELSE idleSince
  /\ UNCHANGED <<want, session, value, open, done, starts, subscribed, clock, due, stage, met, result,
                 early, busy, flips>>

\* Mutant: a poll that is due does not wait for the events.
PollUnbiased ==
  /\ stage = "loop" /\ clock < Timeout /\ clock >= due
  /\ due' = clock + 1 /\ stage' = IF want.poll THEN "asked" ELSE "check"
  /\ met' = <<>> /\ busy' = IF open \ early # {} THEN clock ELSE busy
  /\ UNCHANGED <<want, session, value, open, done, starts, ends, subscribed, inFlight, idleSince,
                 clock, result, early, flips>>

Poll ==
  /\ stage = "loop" /\ clock < Timeout /\ clock >= due /\ starts = <<>> /\ ends = <<>>
  /\ due' = clock + 1 /\ stage' = IF want.poll THEN "asked" ELSE "check"
  /\ met' = <<>> /\ busy' = IF open \ early # {} THEN clock ELSE busy
  /\ UNCHANGED <<want, session, value, open, done, starts, ends, subscribed, inFlight, idleSince,
                 clock, result, early, flips>>

\* Mutant: what the page cannot answer does not hold the wait up.
AnsweredLoosely ==
  /\ stage = "asked"
  /\ IF value \/ session = "gone" THEN stage' = "check" /\ met' = Append(met, "poll")
     ELSE stage' = "loop" /\ UNCHANGED met
  /\ UNCHANGED <<want, session, value, open, done, starts, ends, subscribed, inFlight, idleSince,
                 clock, due, result, early, busy, flips>>

\* check_poll_conditions: an error or an exception is a condition that is not met.
Answered ==
  /\ stage = "asked"
  /\ IF value /\ session # "gone" THEN stage' = "check" /\ met' = Append(met, "poll")
     ELSE stage' = "loop" /\ UNCHANGED met
  /\ UNCHANGED <<want, session, value, open, done, starts, ends, subscribed, inFlight, idleSince,
                 clock, due, result, early, busy, flips>>

\* is_idle_for_duration, and the answer; the script of the poll tells "time" too.
Check ==
  /\ stage = "check"
  /\ IF want.idle => idleSince # Never /\ clock >= idleSince + Quiet
     THEN /\ Fails("ok")
          /\ met' = (IF want.time # 0 THEN <<"time">> ELSE <<>>)
                      \o (IF want.time # 0 /\ want.poll THEN <<"time">> ELSE <<>>)
                      \o met \o (IF want.idle THEN <<"networkidle">> ELSE <<>>)
     ELSE stage' = "loop" /\ UNCHANGED <<met, result>>
  /\ UNCHANGED <<want, session, value, open, done, starts, ends, subscribed, inFlight, idleSince,
                 clock, due, early, busy, flips>>

-----------------------------------------------------------------------------
(* External: the page and time *)

Listening == IF want.idle THEN {"subscribe", "loop", "asked", "check"} ELSE {}

\* An event is delivered to the subscriptions there are.
Starts(r) ==
  /\ r \notin open \cup done /\ session = "open" /\ stage \in Listening
  /\ open' = open \cup {r}
  /\ starts' = IF subscribed # "none" THEN Append(starts, r) ELSE starts
  /\ early' = IF subscribed # "all" THEN early \cup {r} ELSE early
  /\ UNCHANGED <<want, session, value, done, ends, subscribed, inFlight, idleSince, clock, due, stage,
                 met, result, busy, flips>>

Finishes(r) ==
  /\ r \in open /\ session = "open" /\ stage \in Listening
  /\ open' = open \ {r} /\ done' = done \cup {r}
  /\ ends' = IF subscribed = "all" THEN Append(ends, r) ELSE ends
  /\ UNCHANGED <<want, session, value, starts, subscribed, inFlight, idleSince, clock, due, stage,
                 met, result, early, busy, flips>>

Flip ==
  /\ flips < MaxFlips /\ flips' = flips + 1 /\ stage \in {"loop", "asked"} /\ want.poll
  /\ value' = ~value
  /\ UNCHANGED <<want, session, open, done, starts, ends, subscribed, inFlight, idleSince, clock,
                 due, stage, met, result, early, busy>>

TargetLost ==
  /\ session = "open" /\ stage \in {"loop", "asked", "check"} /\ session' = "gone"
  /\ UNCHANGED <<want, value, open, done, starts, ends, subscribed, inFlight, idleSince, clock,
                 due, stage, met, result, early, busy, flips>>

\* What was delivered is read before the next poll is due.
Tick ==
  /\ stage \in {"delay", "loop", "asked"} /\ clock < MaxClock /\ clock' = clock + 1
  /\ stage = "loop" => starts = <<>> /\ ends = <<>> /\ clock < due
  /\ stage = "delay" => clock < due
  /\ UNCHANGED <<want, session, value, open, done, starts, ends, subscribed, inFlight, idleSince,
                 due, stage, met, result, early, busy, flips>>

-----------------------------------------------------------------------------
WaitInit ==
  /\ want \in [time : {0} \cup Delays, poll : BOOLEAN, idle : BOOLEAN]
  /\ session \in {"none", "disconnected", "no-tab", "other-tab", "open"}
  /\ value = FALSE /\ open = {} /\ done = {} /\ starts = <<>> /\ ends = <<>>
  /\ subscribed = "none" /\ inFlight = {} /\ idleSince = Never /\ clock = 0 /\ due = 0
  /\ stage = "parse" /\ met = <<>> /\ result = "none" /\ early = {} /\ busy = 0 /\ flips = 0

WaitNext ==
  \/ Parse \/ FindTab \/ Delay \/ SubscribeStarts \/ SubscribeEnds \/ WaitTimesOut \/ StreamEnds
  \/ ReadStart \/ ReadEnd \/ Poll \/ Answered \/ Check \/ Flip \/ TargetLost \/ Tick
  \/ \E r \in Requests : Starts(r) \/ Finishes(r)

WaitSpec == WaitInit /\ [][WaitNext]_dwVars

-----------------------------------------------------------------------------
(* Properties *)

(* The counter, with the events delivered and not read, has exactly the      *)
(* requests in flight in the page, apart from those that began before the    *)
(* wait listened: no end is taken before its start, and none is lost.        *)
Of(events) == {events[i] : i \in DOMAIN events}
CounterIsExact ==
  subscribed = "all" => (inFlight \cup Of(starts)) \ (Of(ends) \cup early) = open \ early

(* A wait for an idle network alone ends when no poll saw a request in      *)
(* flight during the quiet time.                                            *)
IdleWasQuiet ==
  (result = "ok" /\ want.idle /\ ~want.poll) => busy + Quiet <= clock \/ busy = 0

(* What the answer says was met was waited for, and nothing is left out.    *)
EveryConditionIsMet ==
  result = "ok" =>
    LET said == {met[i] : i \in DOMAIN met} IN
    /\ want.poll <=> "poll" \in said
    /\ want.idle <=> "networkidle" \in said
    /\ want.time # 0 <=> "time" \in said
    /\ clock >= want.time

(* A poll that ends the wait was answered by the page, which met the        *)
(* conditions then.                                                         *)
PageHasAnswered == (stage = "check" /\ want.poll) => value

DaemonWaitIsSound == CounterIsExact /\ IdleWasQuiet /\ EveryConditionIsMet /\ PageHasAnswered

-----------------------------------------------------------------------------
(***************************************************************************)
(* The daemon's `download` (daemon/handler/download.rs): under one lock for *)
(* the whole daemon, downloads of the tab's browser context are allowed     *)
(* into the caller's directory and their events enabled, an element is      *)
(* clicked, the first download that begins in the tab's main frame is       *)
(* followed to its end, and the behaviour is set back.                      *)
(*                                                                          *)
(* Abstracted: the calls are for tabs of one browser context; a directory   *)
(* is named for its caller; every wait for the deadline may find it passed;  *)
(* what a download is called and how many bytes have come is data.           *)
(***************************************************************************)
CONSTANTS
  Calls,          \* calls of the command
  Guids,          \* downloads of the browser context
  MaxOwn,         \* bound: downloads that no call's click starts
  None

VARIABLES
  given,       \* per call: its parameters and its tab
  pc, answer,  \* per call: where it is, what it answers
  holder,      \* DOWNLOAD_LOCK
  behavior,    \* of the context: "default" or the call whose directory is allowed
  reporting,   \* whether download events are enabled
  begins, progress, \* per call: its two event streams
  started,     \* per call: the download it follows
  download,    \* per download: state, frame, directory, and the call whose click made it
  restored     \* per call: whether the behaviour was set back; None before

ddVars == <<given, pc, answer, holder, behavior, reporting, begins, progress, started,
            download, restored>>

Frames == {"main", "other"}
\* Where the browser says a file is: in its directory, under a relative path,
\* or nowhere (no path, or none that resolves).
Files == {"there", "relative", "nowhere"}
NotBegun == [state |-> "none", frame |-> None, dir |-> None, by |-> None]
Subscribed(c) == pc[c] \in {"both", "click", "starting", "following", "restoring"}

Answers(c, code, next) ==
  /\ answer' = [answer EXCEPT ![c] = code]
  /\ pc' = [pc EXCEPT ![c] = next]

Moves(c, next) == pc' = [pc EXCEPT ![c] = next] /\ UNCHANGED answer

-----------------------------------------------------------------------------
(* handle_download *)

\* validate_download_params and resolve_session_target.
Begin(c) ==
  /\ pc[c] = "begin"
  /\ IF given[c] # "fine" THEN Answers(c, given[c], "ended") ELSE Moves(c, "waiting")
  /\ UNCHANGED <<given, holder, behavior, reporting, begins, progress, started, download,
                 restored>>

\* Mutant: the lock is not waited for.
LockAnyway(c) ==
  /\ pc[c] = "waiting" /\ Moves(c, "locked") /\ holder' = c
  /\ UNCHANGED <<given, behavior, reporting, begins, progress, started, download, restored>>

\* The lock, within the deadline.
Lock(c) ==
  /\ pc[c] = "waiting"
  /\ \/ holder = None /\ holder' = c /\ Moves(c, "locked")
     \/ holder # None /\ Answers(c, "Timeout", "ended") /\ UNCHANGED holder
  /\ UNCHANGED <<given, behavior, reporting, begins, progress, started, download, restored>>

\* The guard of the lock is dropped when the handler returns.
Leaves(c, code) == Answers(c, code, "ended") /\ holder' = None

\* Page.getFrameTree: the main frame of the tab.
FindFrame(c) ==
  /\ pc[c] = "locked"
  /\ \/ Moves(c, "framed") /\ UNCHANGED holder
     \/ Leaves(c, "DaemonError")
     \/ Leaves(c, "Timeout")
  /\ UNCHANGED <<given, behavior, reporting, begins, progress, started, download, restored>>

\* The streams of beginnings and of progress, one after the other.
Subscribe(c) ==
  /\ pc[c] \in {"framed", "one"}
  /\ \/ Moves(c, IF pc[c] = "framed" THEN "one" ELSE "both") /\ UNCHANGED holder
     \/ Leaves(c, "DaemonError")
  /\ UNCHANGED <<given, behavior, reporting, begins, progress, started, download, restored>>

\* Browser.setDownloadBehavior; an error or a timeout may find it set.
Allow(c) ==
  /\ pc[c] = "both"
  /\ \/ behavior' = c /\ reporting' = TRUE
     \/ UNCHANGED <<behavior, reporting>>
  /\ \/ behavior' = c /\ Moves(c, "click")
     \/ Answers(c, "DaemonError", "restoring")
     \/ Answers(c, "Timeout", "restoring")
  /\ UNCHANGED <<given, holder, begins, progress, started, download, restored>>

\* The click is an act of the rest of the time that observes nothing; it may
\* fail after the page has seen it.
Click(c) ==
  /\ pc[c] = "click"
  /\ \/ Answers(c, "Timeout", "restoring") /\ UNCHANGED <<download, begins>>
     \/ /\ \/ UNCHANGED <<download, begins>>
           \/ \E g \in Guids, f \in Frames :
                /\ download[g].state = "none"
                /\ download' = [download EXCEPT ![g] =
                                  [state |-> "running", frame |-> f, dir |-> behavior, by |-> c]]
                /\ begins' = [d \in Calls |->
                                IF Subscribed(d) /\ reporting THEN Append(begins[d], g) ELSE begins[d]]
        /\ Moves(c, "starting") \/ Answers(c, "act", "restoring")
  /\ UNCHANGED <<given, holder, behavior, reporting, progress, started, restored>>

\* Mutant: a download of any frame is taken for the click's.
MatchesAny(g) == TRUE

\* download_start_matches
Matches(g) == download[g].frame = "main"

ReadBegin(c) ==
  /\ pc[c] = "starting" /\ begins[c] # <<>>
  /\ LET g == Head(begins[c]) IN
       IF Matches(g) THEN started' = [started EXCEPT ![c] = g] /\ Moves(c, "following")
       ELSE UNCHANGED <<started, pc, answer>>
  /\ begins' = [begins EXCEPT ![c] = Tail(@)]
  /\ UNCHANGED <<given, holder, behavior, reporting, progress, download, restored>>

\* A stream fails or closes; the download is left to itself.
StreamStops(c) ==
  /\ pc[c] \in {"starting", "following"}
  /\ Answers(c, "DaemonError", "restoring")
  /\ UNCHANGED <<given, holder, behavior, reporting, begins, progress, started, download,
                 restored>>

\* Mutant: the download that timed out goes on.
CancelNothing(g) == UNCHANGED <<download, progress>>

\* cancel_download: an error is ignored.
CancelDownload(g) ==
  \/ /\ download[g].state = "running"
     /\ download' = [download EXCEPT ![g].state = "canceled"]
     /\ UNCHANGED progress
  \/ download[g].state \in {"completed", "canceled", "uncancelled"} /\ UNCHANGED <<download, progress>>
  \/ /\ download[g].state = "running"
     /\ download' = [download EXCEPT ![g].state = "uncancelled"]
     /\ UNCHANGED progress

TimeOut(c) ==
  /\ pc[c] \in {"starting", "following"}
  /\ Answers(c, "Timeout", "restoring")
  /\ IF pc[c] = "following" THEN CancelDownload(started[c]) ELSE UNCHANGED <<download, progress>>
  /\ UNCHANGED <<given, holder, behavior, reporting, begins, started, restored>>

\* Mutant: the path the browser tells is not compared with the directory.
ResolvedAnywhere(c, e) == IF e.file = "there" THEN "verified" ELSE "unverified"

\* resolve_download_path, of the caller's directory and the event's path: a
\* file that cannot be found is not verified.
Resolved(c, e) ==
  IF e.file = "nowhere" THEN "unverified"
  ELSE IF e.file = "there" /\ download[e.guid].dir = c THEN "verified" ELSE "DownloadFailed"

\* Mutant: progress of any download counts.
ClassifyAny(c, e) == IF e.state \in {"completed", "canceled"} THEN e.state ELSE None

\* classify_download_progress
Classify(c, e) ==
  IF e.guid = started[c] /\ e.state \in {"completed", "canceled"} THEN e.state ELSE None

ReadProgress(c) ==
  /\ pc[c] = "following" /\ progress[c] # <<>>
  /\ LET e == Head(progress[c]) IN
       CASE Classify(c, e) = "completed" -> Answers(c, Resolved(c, e), "restoring")
         [] Classify(c, e) = "canceled" -> Answers(c, "DownloadFailed", "restoring")
         [] OTHER -> UNCHANGED <<pc, answer>>
  /\ progress' = [progress EXCEPT ![c] = Tail(@)]
  /\ UNCHANGED <<given, holder, behavior, reporting, begins, started, download, restored>>

\* Mutant: only what succeeded is restored.
RestoreUnlessFailed(c) ==
  /\ pc[c] = "restoring"
  /\ IF answer[c] \in {"verified", "unverified"} THEN behavior' = "default" /\ reporting' = FALSE
     ELSE UNCHANGED <<behavior, reporting>>
  /\ Leaves(c, answer[c]) /\ restored' = [restored EXCEPT ![c] = TRUE]
  /\ UNCHANGED <<given, begins, progress, started, download>>

\* restore_download_behavior, in five seconds: its error replaces the answer,
\* but not that of a failed Browser.setDownloadBehavior.
Restore(c) ==
  /\ pc[c] = "restoring"
  /\ \/ behavior' = "default" /\ reporting' = FALSE
        /\ Leaves(c, answer[c])
        /\ restored' = [restored EXCEPT ![c] = TRUE]
     \/ /\ UNCHANGED <<behavior, reporting>>
        /\ Leaves(c, "DaemonError")
        /\ restored' = [restored EXCEPT ![c] = FALSE]
  /\ begins' = [begins EXCEPT ![c] = <<>>] /\ progress' = [progress EXCEPT ![c] = <<>>]
  /\ UNCHANGED <<given, started, download>>

-----------------------------------------------------------------------------
(* The browser *)

\* A page of the context starts a download of its own.
PageDownloads(g, f) ==
  /\ download[g].state = "none"
  /\ Cardinality({h \in Guids : download[h].state # "none" /\ download[h].by = None}) < MaxOwn
  /\ download' = [download EXCEPT ![g] = [state |-> "running", frame |-> f, dir |-> behavior, by |-> None]]
  /\ begins' = [c \in Calls |-> IF Subscribed(c) /\ reporting THEN Append(begins[c], g) ELSE begins[c]]
  /\ UNCHANGED <<given, pc, answer, holder, behavior, reporting, progress, started, restored>>

Tell(g, state, file) ==
  progress' = [c \in Calls |->
                 IF Subscribed(c) /\ reporting
                 THEN Append(progress[c], [guid |-> g, state |-> state, file |-> file])
                 ELSE progress[c]]

\* A download ends, where its directory was when it began.
DownloadEnds(g, state, file) ==
  /\ download[g].state \in {"running", "uncancelled"}
  /\ state = "canceled" => file = "nowhere"
  /\ download' = [download EXCEPT ![g].state = state]
  /\ Tell(g, state, file)
  /\ UNCHANGED <<given, pc, answer, holder, behavior, reporting, begins, started, restored>>

-----------------------------------------------------------------------------
(* Specification *)

DownloadInit ==
  /\ given \in [Calls -> {"fine", "InvalidArgument", "SessionNotFound"}]
  /\ pc = [c \in Calls |-> "begin"] /\ answer = [c \in Calls |-> None]
  /\ holder = None
  /\ behavior = "default" /\ reporting = FALSE
  /\ begins = [c \in Calls |-> <<>>] /\ progress = [c \in Calls |-> <<>>]
  /\ started = [c \in Calls |-> None] /\ download = [g \in Guids |-> NotBegun]
  /\ restored = [c \in Calls |-> None]

DownloadNext ==
  \/ \E c \in Calls :
       \/ Begin(c) \/ Lock(c) \/ FindFrame(c) \/ Subscribe(c) \/ Allow(c) \/ Click(c) \/ ReadBegin(c)
       \/ StreamStops(c) \/ TimeOut(c) \/ ReadProgress(c) \/ Restore(c)
  \/ \E g \in Guids :
       \/ \E f \in Frames : PageDownloads(g, f)
       \/ \E state \in {"completed", "canceled"}, file \in Files : DownloadEnds(g, state, file)

DownloadSpec == DownloadInit /\ [][DownloadNext]_ddVars

-----------------------------------------------------------------------------
(* Properties *)

\* While nobody holds the lock the behaviour is the default one, unless the
\* last call could not set it back, and then it answered an error; while a
\* call holds it, no other call changes it.
BehaviorIsRestored ==
  /\ holder = None =>
       \/ behavior = "default" /\ ~reporting
       \/ \E c \in Calls : restored[c] = FALSE /\ answer[c] = "DaemonError"
  /\ \A c, d \in Calls :
       pc[c] \in {"starting", "following"} /\ pc[d] \in {"starting", "following"} => c = d

\* A call that says "completed" followed a download of its tab's main frame to
\* its completion, and the file of one with a path is in the call's directory.
CompletionIsOwn ==
  \A c \in Calls :
    answer[c] \in {"verified", "unverified"} =>
      /\ started[c] # None
      /\ download[started[c]].state = "completed"
      /\ download[started[c]].frame = "main"
      /\ answer[c] = "verified" => download[started[c]].dir = c

\* A call that timed out leaves no download of its own running that the
\* browser could have cancelled.
TimeoutCancels ==
  \A c \in Calls :
    answer[c] = "Timeout" /\ started[c] # None => download[started[c]].state # "running"

DownloadCommandIsSound == BehaviorIsRestored /\ CompletionIsOwn /\ TimeoutCancels
=============================================================================
