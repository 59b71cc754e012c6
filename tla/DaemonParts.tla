------------------------------ MODULE DaemonParts ------------------------------
(***************************************************************************)
(* The binding of the daemon's sessions to browsers, and the handlers of   *)
(* wait, click download, network watch, the console log and the storage    *)
(* commands, with the names that their parameters and variables have       *)
(* beside the components of MCDaemon: for that module, and for proofs that *)
(* need no other component.                                                *)
(***************************************************************************)
EXTENDS SessionBinding, Sequences

CONSTANTS
  None,
  Loads,           \* DaemonWaits: requests of the page, of the waits and watches
  Delays, Quiet, MaxClock, MaxFlips, WaitTimeout,  \* DaemonWaits
  Calls, Guids, MaxOwn,                            \* DaemonWaits: click download
  Counts, Capacity, MaxEvents,                     \* TabLogs
  Attachments, LogMax,                             \* TabLogs: the console log
  StoreRequests, Commands, Contexts, Given         \* DaemonStorage

\* Times and counts are numbers, a buffer and a log hold something.
ASSUME HandlerAssumption ==
  /\ Delays \subseteq Nat /\ WaitTimeout \in Nat /\ Quiet \in Nat /\ MaxClock \in Nat
  /\ Counts \subseteq Nat /\ Capacity \in Nat \ {0}
  /\ Attachments \in Nat /\ LogMax \in Nat \ {0} /\ MaxEvents \in Nat
\* None is no other value.
ASSUME NoneAssumption ==
  /\ None \notin Calls \cup Guids /\ "default" \notin Calls
  /\ None \notin {"main", "verified", "unverified", "ok", "Timeout", "DaemonError",
                   "InvalidArgument", "SessionNotFound", "SessionNoTab", "TargetNotFound",
                   "ChromeDisconnected", "completed", "canceled", "finished", "failed",
                   "count", "timeout", "event_stream_closed", "event_stream_error",
                   "terminal_buffer_overflow"}
  /\ None \notin 1 .. Attachments /\ None \notin Contexts
\* The default context is there; what a request brings is not the mark of a
\* context that is not used yet.
ASSUME StorageAssumption ==
  "default" \in Contexts /\ \A names \in Given : "fresh" \notin names

VARIABLES
  waitWant, waitSession, value, open, done, starts, ends, subscribed, inFlight,
  idleSince, clock, due, stage, met, result, early, busy, flips,
  watchWant, watchPc, reason, matches, watchRequest, blocked, watchListening, arrived,
  watchPending, terminals, responses, dropped, seen,
  given, downPc, downAnswer, holder, behavior, reporting, begins, progress, started,
  download, restored,
  storeWant, storePc, storeAnswer, found, storeSession, storeConnection, alive, jar,
  entries, touched, disturbed,
  tab, log, token, attacher, task, cancelled, stream, emitted, taken, recorded,
  overlapped

Waits == INSTANCE DaemonWaits WITH Requests <- Loads, Timeout <- WaitTimeout, want <- waitWant,
  session <- waitSession, pc <- downPc, answer <- downAnswer
Logs == INSTANCE TabLogs WITH Requests <- Loads, want <- watchWant,
  pc <- watchPc, request <- watchRequest, listening <- watchListening,
  pending <- watchPending
Storage == INSTANCE DaemonStorage WITH Requests <- StoreRequests, want <- storeWant,
  pc <- storePc, answer <- storeAnswer, session <- storeSession,
  connection <- storeConnection

theWait == <<waitWant, waitSession, value, open, done, starts, ends, subscribed,
             inFlight, idleSince, clock, due, stage, met, result, early, busy, flips>>
theWatch == <<watchWant, watchPc, reason, matches, watchRequest, blocked,
              watchListening, arrived, watchPending, terminals, responses, dropped,
              seen>>
theDownload == <<given, downPc, downAnswer, holder, behavior, reporting, begins,
                 progress, started, download, restored>>
theStorage == <<storeWant, storePc, storeAnswer, found, storeSession, storeConnection,
                alive, jar, entries, touched, disturbed>>
theConsole == <<tab, log, token, attacher, task, cancelled, stream, emitted, taken,
                recorded, overlapped>>
================================================================================
