---------------------------- MODULE DaemonCommands ----------------------------
(***************************************************************************)
(* A command of `bk` (main.rs) and its request in the daemon: the scope of *)
(* the global options, the fields of the request (dispatch), their check   *)
(* and the session lock (daemon/handler/mod.rs), how long the client waits *)
(* (client.rs), and the file of `evaluate --append-to`.                    *)
(*                                                                         *)
(* Abstracted: the values of arguments, but for the type of a JSON file    *)
(* and the timeout; what a handler does; the fields of `act`, which module *)
(* TabActions checks.                                                      *)
(***************************************************************************)
EXTENDS Naturals, FiniteSets

CONSTANTS
  Timeouts,     \* seconds a caller may give with --timeout
  ResultSize,   \* bytes of the string that evaluate --append-to appends
  MaxRuns       \* bound on the runs of one command

VARIABLES
  cli,      \* the command, its optional arguments, options and timeout
  request,  \* its request
  json,     \* the type of the JSON in an argument or a file
  pc, answer,
  lock,     \* the lifecycle lock of a session that the daemon holds meanwhile
  file,     \* bytes of the result in the file of --append-to
  runs

cliVars == <<cli, request, json, pc, answer, lock, file, runs>>

Options == {"session", "target", "timeout", "no_state_diff"}
Both == {"session", "target"}
NoRequest == [cmd |-> "none", fields |-> {}, timeout |-> 0]

\* A leaf of the Command enum: the command of its request, the fields it always
\* has, those of optional arguments, and the options it passes on.
Row(name, cmd, always, maybe, passes) ==
  [name |-> name, cmd |-> cmd, always |-> always, maybe |-> maybe, passes |-> passes]

PageRows ==
  {Row("connect", "connect", {}, {}, {"session"}),
   Row("snapshot", "snapshot", {"full", "no_page_text", "wait"}, {"max_tokens"}, Both \cup {"timeout"}),
   Row("act", "act", {}, {"kind"}, Options),
   Row("navigate", "navigate", {}, {"url", "back", "forward", "reload"}, Both \cup {"timeout"}),
   Row("open", "open", {"url"}, {}, {"session"}),
   Row("close", "close", {}, {}, Both),
   Row("tabs", "tabs", {}, {}, {"session"}),
   Row("attach", "attach", {}, {"pattern"}, Both)}

EffectRows ==
  {Row("evaluate", "evaluate", {"expression"}, {}, Both \cup {"timeout"}),
   Row("network-watch", "network.watch", {"pattern", "count"}, {}, Both \cup {"timeout"}),
   Row("download", "download", {"ref", "output_dir"}, {}, Both \cup {"timeout"}),
   Row("screenshot", "screenshot", {"full_page", "labels"}, {"output", "selector"}, Both)}

\* --timeout or its default is always sent.
WaitRows ==
  {Row("wait", "wait", {"timeout"},
       {"selector", "text", "text_gone", "url", "load_state", "fn", "time"}, Both \cup {"timeout"})}

SessionRows ==
  {Row("session-close", "session.close", {}, {}, {"session"}),
   Row("session-list", "session.list", {}, {}, {}),
   Row("session-cookies-get", "session.cookies.get", {}, {}, {"session"}),
   Row("session-cookies-set", "session.cookies.set", {"cookies"}, {}, {"session"}),
   Row("session-cookies-clear", "session.cookies.clear", {}, {}, {"session"}),
   Row("session-storage-get", "session.storage.local.get", {"key"}, {}, Both),
   Row("session-storage-set", "session.storage.local.set", {"key", "value"}, {}, Both),
   Row("session-storage-export", "session.storage.export", {}, {}, Both),
   Row("session-storage-import", "session.storage.import", {"state"}, {}, Both)}

BrowserRows ==
  {Row("status", "daemon.status", {}, {}, {}),
   Row("daemon-stop", "daemon.stop", {}, {}, {}),
   Row("daemon-status", "daemon.status", {}, {}, {}),
   Row("browser-connect", "browser.connect", {"host"}, {}, {"session"}),
   Row("browser-discover", "browser.discover", {}, {"path"}, {"session"}),
   Row("browser-list", "browser.list", {}, {}, {}),
   Row("browser-disconnect", "browser.disconnect", {"host"}, {}, {})}

InspectRows ==
  {Row("find", "find", {"selector", "include_text"}, {"attributes", "max"}, Both),
   Row("search", "search", {"text", "regex"}, {"scope", "context", "max"}, Both),
   Row("html", "html", {}, {"selector"}, Both),
   Row("console", "console", {"level"}, {"limit"}, Both),
   Row("pdf", "pdf", {}, {"output", "landscape", "background"}, Both)}

DialogRows ==
  {Row("dialog-list", "dialog.list", {}, {}, {"session"}),
   Row("dialog-accept", "dialog.accept", {}, {"text"}, Both),
   Row("dialog-dismiss", "dialog.dismiss", {}, {}, Both),
   Row("dialog-policy", "dialog.policy", {}, {"policy"}, {"session"}),
   Row("debug-block", "debug.block", {"pattern"}, {}, Both),
   Row("debug-unblock", "debug.unblock", {}, {}, Both),
   Row("debug-cdp", "debug.cdp", {"method", "params"}, {}, Both)}

Rows == PageRows \cup EffectRows \cup WaitRows \cup SessionRows \cup BrowserRows
          \cup InspectRows \cup DialogRows
RowOf(name) == CHOOSE row \in Rows : row.name = name

-----------------------------------------------------------------------------
(* The scope of the global options *)

UsesSession(name) ==
  name \notin {"status", "session-list", "daemon-stop", "daemon-status", "browser-list",
               "browser-disconnect"}

UsesTarget(name) ==
  name \in {"snapshot", "act", "navigate", "close", "attach", "evaluate", "screenshot", "wait",
            "session-storage-get", "session-storage-set", "session-storage-export",
            "session-storage-import", "find", "search", "html", "console", "network-watch",
            "download", "pdf", "dialog-accept", "dialog-dismiss",
            "debug-block", "debug-unblock", "debug-cdp"}

UsesTimeout(name) ==
  name \in {"snapshot", "act", "navigate", "evaluate", "wait", "network-watch", "download"}

Supports(name, option) ==
  CASE option = "session" -> UsesSession(name)
    [] option = "target" -> UsesTarget(name)
    [] option = "timeout" -> UsesTimeout(name)
    [] option = "no_state_diff" -> name = "act"

Scope ==
  /\ pc = "cli"
  /\ IF \A option \in cli.options : Supports(cli.name, option)
     THEN pc' = "build" /\ UNCHANGED answer
     ELSE pc' = "ended" /\ answer' = "usage"
  /\ UNCHANGED <<cli, request, json, lock, file, runs>>

\* An unreadable file, a path that cannot be resolved: no request.
CannotBuild ==
  /\ pc = "build"
  /\ RowOf(cli.name).always \cap {"cookies", "state", "params", "output_dir", "expression"} # {}
       \/ "output" \in cli.given
  /\ pc' = "ended" /\ answer' = "local-error"
  /\ UNCHANGED <<cli, request, json, lock, file, runs>>

\* Mutant: commands that wait forget the option.
BuildWithoutTimeout ==
  /\ pc = "build"
  /\ LET row == RowOf(cli.name) IN
     request' = [cmd |-> row.cmd,
                 fields |-> row.always \cup cli.given \cup (cli.options \cap (row.passes \ {"timeout"})),
                 timeout |-> 0]
  /\ pc' = "sent" /\ UNCHANGED <<cli, json, answer, lock, file, runs>>

Build ==
  /\ pc = "build"
  /\ LET row == RowOf(cli.name) IN
     request' = [cmd |-> row.cmd,
                 fields |-> row.always \cup cli.given \cup (cli.options \cap row.passes),
                 timeout |-> IF "timeout" \in cli.options \cap row.passes THEN cli.timeout
                             ELSE IF cli.name = "wait" THEN 30 ELSE 0]
  /\ pc' = "sent" /\ UNCHANGED <<cli, json, answer, lock, file, runs>>

-----------------------------------------------------------------------------
(* The daemon's check: allowed_request_fields and RequestFieldType *)

AllowedOfTabs(cmd) ==
  CASE cmd \in {"connect", "tabs", "session.close", "session.cookies.get",
                "session.cookies.clear", "dialog.list"} -> {"session"}
    [] cmd = "open" -> {"url", "session"}
    [] cmd = "snapshot" -> Both \cup {"wait", "full", "no_page_text", "timeout", "max_tokens"}
    [] cmd = "navigate" -> Both \cup {"url", "back", "forward", "reload", "timeout"}
    [] cmd = "attach" -> Both \cup {"pattern"}
    [] cmd \in {"close", "session.storage.export", "debug.unblock", "dialog.dismiss"} -> Both
    [] cmd = "session.cookies.set" -> {"session", "cookies"}
    [] cmd = "session.storage.local.get" -> Both \cup {"key"}
    [] cmd = "session.storage.local.set" -> Both \cup {"key", "value"}
    [] cmd = "session.storage.import" -> Both \cup {"state"}
    [] cmd = "evaluate" -> Both \cup {"expression", "timeout"}
    [] cmd = "screenshot" -> Both \cup {"full_page", "output", "selector", "labels"}
    [] cmd = "wait" -> Both \cup {"time", "selector", "text", "text_gone", "url", "load_state", "fn",
                                  "timeout"}
    [] OTHER -> {}

AllowedOfTools(cmd) ==
  CASE cmd = "find" -> Both \cup {"selector", "attributes", "max", "include_text"}
    [] cmd = "search" -> Both \cup {"text", "regex", "scope", "context", "max"}
    [] cmd = "html" -> Both \cup {"selector"}
    [] cmd = "console" -> Both \cup {"level", "limit"}
    [] cmd = "pdf" -> Both \cup {"output", "landscape", "background"}
    [] cmd = "browser.connect" -> {"host", "session"}
    [] cmd = "browser.discover" -> {"path", "session"}
    [] cmd = "browser.disconnect" -> {"host"}
    [] cmd = "debug.block" -> Both \cup {"pattern"}
    [] cmd = "network.watch" -> Both \cup {"pattern", "count", "timeout"}
    [] cmd = "download" -> Both \cup {"ref", "output_dir", "timeout"}
    [] cmd = "debug.cdp" -> Both \cup {"method", "params"}
    [] cmd = "dialog.accept" -> Both \cup {"text"}
    [] cmd = "dialog.policy" -> {"session", "policy"}
    [] OTHER -> {}

Allowed(cmd) == AllowedOfTabs(cmd) \cup AllowedOfTools(cmd)

\* The fields that a caller's JSON fills; all others have the type of their argument.
Wanted(field) ==
  CASE field = "cookies" -> {"array"}
    [] field \in {"state", "params"} -> {"object"}
    [] OTHER -> {"array", "object", "other"}

\* Mutant: the command of `browser discover` is unknown to the check of fields.
WellFormedWithoutPath(r) ==
  \/ r.cmd = "act"
  \/ \A field \in r.fields : field \in Allowed(r.cmd) \ {"path"} /\ json \in Wanted(field)

WellFormed(r) ==
  \/ r.cmd = "act"
  \/ \A field \in r.fields : field \in Allowed(r.cmd) /\ json \in Wanted(field)

\* request_session_name: commands that run under the lock of their session.
SessionBound(cmd) ==
  cmd \notin {"connect", "session.list", "daemon.status", "daemon.stop", "browser.connect",
              "browser.discover", "browser.list", "browser.disconnect"}
SessionOf(r) == IF "session" \in r.fields THEN "named" ELSE "default"

Refuse ==
  /\ pc = "sent" /\ ~WellFormed(request)
  /\ pc' = "ended" /\ answer' = "InvalidArgument"
  /\ UNCHANGED <<cli, request, json, lock, file, runs>>

\* handle_request: session.close alone takes the lock for writing.
Dispatch ==
  /\ pc = "sent" /\ WellFormed(request)
  /\ lock' = IF SessionBound(request.cmd)
             THEN [of |-> SessionOf(request),
                   mode |-> IF request.cmd = "session.close" THEN "write" ELSE "read"]
             ELSE [of |-> "none", mode |-> "none"]
  /\ pc' = "handled" /\ UNCHANGED <<cli, request, json, answer, file, runs>>

-----------------------------------------------------------------------------
(* The answer *)

Bigger(a, b) == IF a < b THEN b ELSE a
Smaller(a, b) == IF a < b THEN a ELSE b

\* request_timeout: the client's patience, in seconds.
Patience ==
  Smaller(600, Bigger(30, (IF request.timeout = 0 THEN 30 ELSE request.timeout) + 5))

\* What a handler with one deadline takes at most.
Takes == IF request.timeout = 0 THEN 30 ELSE request.timeout

NoLock == [of |-> "none", mode |-> "none"]

Answer ==
  /\ pc = "handled" /\ lock' = NoLock
  /\ \/ pc' = "ended" /\ answer' = "error"
     \/ /\ pc' = IF cli.append THEN "append" ELSE "ended"
        /\ answer' = "ok"
  /\ UNCHANGED <<cli, request, json, file, runs>>

\* The client goes away; the handler has the lock until it ends.
GiveUp ==
  /\ pc = "handled" /\ Takes > Patience /\ lock' = NoLock
  /\ pc' = "ended" /\ answer' = "timed-out"
  /\ UNCHANGED <<cli, request, json, file, runs>>

-----------------------------------------------------------------------------
(* evaluate --append-to: one write at the end of the file *)

\* Not a string, a directory, a link: nothing was written.
RefuseAppend ==
  /\ pc = "append" /\ pc' = "ended" /\ answer' = "InvalidArgument"
  /\ UNCHANGED <<cli, request, json, lock, file, runs>>

\* Mutant: a short write may be repeated.
WriteRetried ==
  /\ pc = "append" /\ pc' = "ended"
  /\ \E written \in 0 .. ResultSize :
       /\ file' = file + written
       /\ answer' = IF written < ResultSize THEN "retry-is-safe" ELSE "ok"
  /\ UNCHANGED <<cli, request, json, lock, runs>>

\* write_single_append: the bytes of one write, which a flush may fail after.
Write ==
  /\ pc = "append" /\ pc' = "ended"
  /\ \E written \in 0 .. ResultSize :
       /\ file' = file + written
       /\ answer' \in IF written = 0 THEN {"retry-is-safe"}
                      ELSE IF written < ResultSize THEN {"do-not-retry"}
                      ELSE {"ok", "do-not-retry"}
  /\ UNCHANGED <<cli, request, json, lock, runs>>

\* The caller does what the error suggests.
Retry ==
  /\ pc = "ended" /\ answer = "retry-is-safe" /\ runs < MaxRuns /\ runs' = runs + 1
  /\ pc' = "cli" /\ answer' = "none" /\ request' = NoRequest
  /\ UNCHANGED <<cli, json, lock, file>>

-----------------------------------------------------------------------------
CommandInit ==
  /\ \E name \in {row.name : row \in Rows} :
     \E given \in SUBSET RowOf(name).maybe, options \in SUBSET Options,
        timeout \in Timeouts, append \in BOOLEAN :
       /\ name = "wait" => given # {}
       /\ append => name = "evaluate"
       /\ cli = [name |-> name, given |-> given, options |-> options, append |-> append,
                 timeout |-> IF "timeout" \in options THEN timeout ELSE 0]
  /\ request = NoRequest /\ json \in {"array", "object", "other"} /\ pc = "cli" /\ answer = "none"
  /\ (RowOf(cli.name).always \cap {"cookies", "state", "params"} = {} => json = "object")
  /\ lock = NoLock /\ file = 0 /\ runs = 1

CommandNext ==
  \/ Scope \/ CannotBuild \/ Build \/ Refuse \/ Dispatch \/ Answer \/ GiveUp
  \/ RefuseAppend \/ Write \/ Retry

CommandSpec == CommandInit /\ [][CommandNext]_cliVars

-----------------------------------------------------------------------------
(* Properties *)

(* Every request the CLI builds passes the daemon's list of fields: it is   *)
(* refused for the JSON the caller gave only.                               *)
RequestsAreAccepted ==
  (answer = "InvalidArgument" /\ ~cli.append) =>
    \E field \in request.fields : json \notin Wanted(field)

(* An option the command accepts reaches the daemon, which allows it        *)
(* (main.rs: options that do not affect the command are rejected).          *)
OptionsHaveAnEffect ==
  pc \in {"sent", "handled"} =>
    /\ cli.options \subseteq request.fields
    /\ "timeout" \in cli.options => request.timeout = cli.timeout

(* A command on the tabs or the state of a session holds that session's     *)
(* lock while it runs, the others hold none.                                *)
SessionIsLocked ==
  pc = "handled" =>
    IF "target" \in Allowed(request.cmd) \/ request.cmd = "act"
    THEN lock.of = (IF "session" \in cli.options THEN "named" ELSE "default")
    ELSE lock.mode = "write" <=> cli.name = "session-close"

(* A client outlives the one deadline of the handler it waits for, up to    *)
(* the ten minutes it waits at most.                                        *)
ClientIsPatient ==
  (answer = "timed-out") => request.timeout > 595

(* Doing what the error says never appends the result twice.                *)
AppendsOnce == file <= ResultSize

CommandsAreSound ==
  RequestsAreAccepted /\ OptionsHaveAnEffect /\ SessionIsLocked /\ ClientIsPatient /\ AppendsOnce

-----------------------------------------------------------------------------
(***************************************************************************)
(* The processes of `bk`: clients that start a daemon when none answers    *)
(* (client.rs), daemons that exclude each other with a file lock and       *)
(* announce their port in a file (daemon/mod.rs), the connection of a      *)
(* client (daemon/server.rs, daemon/protocol.rs), `daemon stop` (main.rs)  *)
(* and the state file across restarts and crashes (daemon/persist.rs).     *)
(*                                                                         *)
(* Abstracted: what is in the state file, but that it can be loaded or     *)
(* not; what requests do, but for daemon.stop; time, but for the order of  *)
(* a time limit and what it limits.                                        *)
(***************************************************************************)
CONSTANTS
  Clients,      \* client processes
  Ports,        \* TCP ports that the system may hand out
  MaxDaemons,   \* bound on the daemon processes ever spawned
  MaxCrashes,   \* bound on the daemons that are killed
  None

VARIABLES
  daemon,     \* daemon processes, by number
  daemonLock,       \* the daemon that holds ~/.bk/daemon.lock
  portFile,   \* what ~/.bk/daemon.port holds
  stateFile,  \* whether ~/.bk/state.json can be loaded
  config,     \* whether ~/.bk/config.toml is valid
  stranger,   \* a port that a program which is no daemon listens on
  client, spawned, crashes

processVars == <<daemon, daemonLock, portFile, stateFile, config, stranger, client, spawned, crashes>>

Daemons == 1 .. MaxDaemons
NoDaemon == [pc |-> "none", port |-> None, listens |-> FALSE, shutdown |-> FALSE,
             persists |-> FALSE, saving |-> FALSE]
Alive(d) == daemon[d].pc \notin {"none", "gone"}
Listener(port) == {d \in Daemons : Alive(d) /\ daemon[d].listens /\ daemon[d].port = port}
Free(port) == Listener(port) = {} /\ stranger # port

Go(d, next) == daemon' = [daemon EXCEPT ![d].pc = next]
Client(c, next) == client' = [client EXCEPT ![c].pc = next]
Ends(c, result) == client' = [client EXCEPT ![c].pc = "ended", ![c].result = result]

\* The system closes what a process had open: its lock, its listener.
Exits(d) ==
  /\ daemon' = [daemon EXCEPT ![d].pc = "gone", ![d].listens = FALSE, ![d].saving = FALSE]
  /\ daemonLock' = IF daemonLock = d THEN None ELSE daemonLock

-----------------------------------------------------------------------------
(* A daemon starts: start_daemon_with_paths *)

\* Mutant: a stale port file is removed before the lock is tried.
TryLockAfterCleaning(d) ==
  /\ daemon[d].pc = "spawned" /\ portFile' = None
  /\ IF daemonLock = None THEN daemonLock' = d /\ Go(d, "locked") ELSE Exits(d)
  /\ UNCHANGED <<stateFile, config, stranger, client, spawned, crashes>>

\* try_acquire_daemon_lock: the second daemon leaves the files alone.
TryLock(d) ==
  /\ daemon[d].pc = "spawned"
  /\ IF daemonLock = None THEN daemonLock' = d /\ Go(d, "locked") ELSE Exits(d)
  /\ UNCHANGED <<portFile, stateFile, config, stranger, client, spawned, crashes>>

RemoveStale(d) ==
  /\ daemon[d].pc = "locked" /\ portFile' = None /\ Go(d, "cleaned")
  /\ UNCHANGED <<daemonLock, stateFile, config, stranger, client, spawned, crashes>>

LoadConfig(d) ==
  /\ daemon[d].pc = "cleaned"
  /\ IF config = "valid" THEN Go(d, "configured") /\ UNCHANGED daemonLock ELSE Exits(d)
  /\ UNCHANGED <<portFile, stateFile, config, stranger, client, spawned, crashes>>

\* prepare_loaded_state: a file that cannot be loaded turns persistence off.
Restore(d) ==
  /\ daemon[d].pc = "configured"
  /\ daemon' = [daemon EXCEPT ![d].pc = "restored", ![d].persists = stateFile # "damaged"]
  /\ UNCHANGED <<daemonLock, portFile, stateFile, config, stranger, client, spawned, crashes>>

Bind(d) ==
  /\ daemon[d].pc = "restored"
  /\ \/ \E port \in Ports : Free(port) /\
          daemon' = [daemon EXCEPT ![d].pc = "bound", ![d].port = port, ![d].listens = TRUE]
        /\ UNCHANGED daemonLock
     \/ Exits(d)
  /\ UNCHANGED <<portFile, stateFile, config, stranger, client, spawned, crashes>>

\* std::fs::write: the file is truncated, then written.
TruncatePort(d) ==
  /\ daemon[d].pc = "bound" /\ portFile' = "empty" /\ Go(d, "writing")
  /\ UNCHANGED <<daemonLock, stateFile, config, stranger, client, spawned, crashes>>

WritePort(d) ==
  /\ daemon[d].pc = "writing" /\ portFile' = daemon[d].port /\ Go(d, "ready")
  /\ UNCHANGED <<daemonLock, stateFile, config, stranger, client, spawned, crashes>>

-----------------------------------------------------------------------------
(* The state file *)

\* Mutant: the file is truncated and written.
SaveInPlace(d) ==
  /\ daemon[d].pc \in {"ready", "stopping"} /\ daemon[d].persists /\ ~daemon[d].saving
  /\ daemon' = [daemon EXCEPT ![d].saving = TRUE] /\ stateFile' = "damaged"
  /\ UNCHANGED <<daemonLock, portFile, config, stranger, client, spawned, crashes>>

\* do_persist: a temporary file first.
Save(d) ==
  /\ daemon[d].pc \in {"ready", "stopping"} /\ daemon[d].persists /\ ~daemon[d].saving
  /\ daemon' = [daemon EXCEPT ![d].saving = TRUE]
  /\ UNCHANGED <<daemonLock, portFile, stateFile, config, stranger, client, spawned, crashes>>

\* NamedTempFile::persist, or an error that removes it.
Saved(d) ==
  /\ Alive(d) /\ daemon[d].saving /\ daemon' = [daemon EXCEPT ![d].saving = FALSE]
  /\ stateFile' \in {stateFile, "valid"}
  /\ UNCHANGED <<daemonLock, portFile, config, stranger, client, spawned, crashes>>

-----------------------------------------------------------------------------
(* The connections of a daemon: handle_connection *)

Serves(c) == client[c].to # None /\ Alive(client[c].to)

AnswerPing(c) ==
  /\ client[c].pc = "ping" /\ Serves(c)
  /\ client' = [client EXCEPT ![c].pc = "connected", ![c].pinged = TRUE]
  /\ UNCHANGED <<daemon, daemonLock, portFile, stateFile, config, stranger, spawned, crashes>>

\* A request that cannot be parsed is answered, and ends the connection too.
AnswerClient(c) ==
  /\ client[c].pc = "asked" /\ client[c].kind = "run" /\ Serves(c)
  /\ \E result \in {"ok", "error"} : Ends(c, result)
  /\ UNCHANGED <<daemon, daemonLock, portFile, stateFile, config, stranger, spawned, crashes>>

\* Nothing was read for CONNECTION_IDLE_TIMEOUT.
IdleClose(c) ==
  /\ client[c].pc = "connected" /\ Serves(c) /\ client' = [client EXCEPT ![c].to = None]
  /\ UNCHANGED <<daemon, daemonLock, portFile, stateFile, config, stranger, spawned, crashes>>

\* handle_daemon_stop: sessions are closed and saved.
HandleStop(c) ==
  /\ client[c].pc = "asked" /\ client[c].kind = "stop" /\ Serves(c)
  /\ ~daemon[client[c].to].saving /\ Client(c, "handled")
  /\ UNCHANGED <<daemon, daemonLock, portFile, stateFile, config, stranger, spawned, crashes>>

\* Mutant: the shutdown is signalled, then the response is written.
AnswerStopLate(c) ==
  /\ client[c].pc = "handled" /\ Serves(c)
  /\ IF daemon[client[c].to].shutdown
     THEN Client(c, "stopped") /\ UNCHANGED daemon
     ELSE daemon' = [daemon EXCEPT ![client[c].to].shutdown = TRUE] /\ UNCHANGED client
  /\ UNCHANGED <<daemonLock, portFile, stateFile, config, stranger, spawned, crashes>>

\* write_response_then_shutdown_if_daemon_stop
AnswerStop(c) ==
  /\ client[c].pc = "handled" /\ Serves(c)
  /\ Client(c, "stopped") /\ daemon' = [daemon EXCEPT ![client[c].to].shutdown = TRUE]
  /\ UNCHANGED <<daemonLock, portFile, stateFile, config, stranger, spawned, crashes>>

\* The accept loop sees the signal and drops the listener.
StopListening(d) ==
  /\ Alive(d) /\ daemon[d].shutdown /\ daemon[d].listens
  /\ daemon' = [daemon EXCEPT ![d].listens = FALSE]
  /\ UNCHANGED <<daemonLock, portFile, stateFile, config, stranger, client, spawned, crashes>>

-----------------------------------------------------------------------------
(* A daemon ends: run_daemon_start *)

\* daemon.stop, or Ctrl+C.
Signalled(d) ==
  \/ daemon[d].shutdown /\ UNCHANGED crashes
  \/ crashes < MaxCrashes /\ crashes' = crashes + 1

\* Mutant: the lock is dropped with the result of start_daemon.
ShutDownUnlocked(d) ==
  /\ daemon[d].pc = "ready" /\ Signalled(d) /\ Go(d, "stopping") /\ daemonLock' = None
  /\ UNCHANGED <<portFile, stateFile, config, stranger, client, spawned>>

ShutDown(d) ==
  /\ daemon[d].pc = "ready" /\ Signalled(d) /\ Go(d, "stopping")
  /\ UNCHANGED <<daemonLock, portFile, stateFile, config, stranger, client, spawned>>

CleanUp(d) ==
  /\ daemon[d].pc = "stopping" /\ portFile' = None /\ Go(d, "exiting")
  /\ UNCHANGED <<daemonLock, stateFile, config, stranger, client, spawned, crashes>>

Exit(d) ==
  /\ daemon[d].pc = "exiting" /\ Exits(d)
  /\ UNCHANGED <<portFile, stateFile, config, stranger, client, spawned, crashes>>

Crash(d) ==
  /\ Alive(d) /\ crashes < MaxCrashes /\ crashes' = crashes + 1 /\ Exits(d)
  /\ UNCHANGED <<portFile, stateFile, config, stranger, client, spawned>>

-----------------------------------------------------------------------------
(* A client: connect_or_start, connect_only *)

\* try_connect_from_port_file
ReadPort(c) ==
  /\ client[c].pc \in {"begin", "poll"}
  /\ client' = [client EXCEPT ![c].port = portFile,
                              ![c].pc = IF portFile \in Ports THEN "dial" ELSE "failed"]
  /\ UNCHANGED <<daemon, daemonLock, portFile, stateFile, config, stranger, spawned, crashes>>

\* TcpStream::connect
Dial(c) ==
  /\ client[c].pc = "dial"
  /\ \/ \E d \in Listener(client[c].port) :
          client' = [client EXCEPT ![c].pc = "ping", ![c].to = d]
     \/ Listener(client[c].port) = {} /\ stranger = client[c].port
        /\ client' = [client EXCEPT ![c].pc = "ping", ![c].to = None]
     \/ Free(client[c].port) /\ Client(c, "failed")
  /\ UNCHANGED <<daemon, daemonLock, portFile, stateFile, config, stranger, spawned, crashes>>

\* The handshake is not answered, or times out.
NoPing(c) ==
  /\ client[c].pc = "ping" /\ client' = [client EXCEPT ![c].pc = "failed", ![c].to = None]
  /\ UNCHANGED <<daemon, daemonLock, portFile, stateFile, config, stranger, spawned, crashes>>

\* start_daemon_background, once; a client that polls tries again.
Start(c) ==
  /\ client[c].pc = "failed" /\ client[c].kind = "run"
  /\ IF client[c].started
     THEN Client(c, "poll") /\ UNCHANGED <<daemon, spawned>>
     ELSE IF config = "invalid"
     THEN Ends(c, "invalid-config") /\ UNCHANGED <<daemon, spawned>>
     ELSE /\ spawned < MaxDaemons /\ spawned' = spawned + 1
          /\ daemon' = [daemon EXCEPT ![spawned + 1].pc = "spawned"]
          /\ client' = [client EXCEPT ![c].pc = "poll", ![c].started = TRUE]
  /\ UNCHANGED <<daemonLock, portFile, stateFile, config, stranger, crashes>>

NotRunning(c) ==
  /\ client[c].pc = "failed" /\ client[c].kind = "stop" /\ Ends(c, "not-running")
  /\ UNCHANGED <<daemon, daemonLock, portFile, stateFile, config, stranger, spawned, crashes>>

\* DAEMON_START_TIMEOUT
ClientGivesUp(c) ==
  /\ client[c].pc \in {"poll", "dial", "ping"} /\ client[c].started
  /\ client' = [client EXCEPT ![c].pc = "ended", ![c].result = "no-daemon", ![c].to = None]
  /\ UNCHANGED <<daemon, daemonLock, portFile, stateFile, config, stranger, spawned, crashes>>

Send(c) ==
  /\ client[c].pc = "connected"
  /\ IF Serves(c) THEN Client(c, "asked") ELSE Ends(c, "closed")
  /\ UNCHANGED <<daemon, daemonLock, portFile, stateFile, config, stranger, spawned, crashes>>

\* The daemon went away before its response.
Closed(c) ==
  /\ client[c].pc \in {"asked", "handled"} /\ ~Serves(c) /\ Ends(c, "closed")
  /\ UNCHANGED <<daemon, daemonLock, portFile, stateFile, config, stranger, spawned, crashes>>

\* wait_for_daemon_exit reads the port file once, then tries that port.
ReadPortOfStopped(c) ==
  /\ client[c].pc = "stopped"
  /\ IF portFile \in Ports
     THEN client' = [client EXCEPT ![c].pc = "waiting", ![c].port = portFile]
     ELSE Ends(c, "stopped")
  /\ UNCHANGED <<daemon, daemonLock, portFile, stateFile, config, stranger, spawned, crashes>>

AwaitExit(c) ==
  /\ client[c].pc = "waiting"
  /\ \/ Free(client[c].port) /\ Ends(c, "stopped")
     \/ ~Free(client[c].port) /\ Ends(c, "still-running")
  /\ UNCHANGED <<daemon, daemonLock, portFile, stateFile, config, stranger, spawned, crashes>>

-----------------------------------------------------------------------------
(* External: another program *)

OtherProgram ==
  /\ stranger = None /\ stranger' \in {port \in Ports : Free(port)}
  /\ UNCHANGED <<daemon, daemonLock, portFile, stateFile, config, client, spawned, crashes>>

-----------------------------------------------------------------------------
\* A port file may be left from a daemon that crashed.
ProcessInit ==
  /\ daemon = [d \in Daemons |-> NoDaemon] /\ daemonLock = None
  /\ portFile \in {None} \cup Ports /\ stateFile \in {"valid", "damaged"}
  /\ config \in {"valid", "invalid"} /\ stranger = None /\ spawned = 0 /\ crashes = 0
  /\ client \in [Clients -> {[kind |-> kind, pc |-> "begin", port |-> None, to |-> None,
                              started |-> FALSE, pinged |-> FALSE, result |-> "none"] :
                             kind \in {"run", "stop"}}]

OfDaemon(d) ==
  \/ TryLock(d) \/ RemoveStale(d) \/ LoadConfig(d) \/ Restore(d) \/ Bind(d)
  \/ TruncatePort(d) \/ WritePort(d) \/ Save(d) \/ Saved(d) \/ StopListening(d)
  \/ ShutDown(d) \/ CleanUp(d) \/ Exit(d) \/ Crash(d)

OfClient(c) ==
  \/ AnswerPing(c) \/ AnswerClient(c) \/ IdleClose(c) \/ HandleStop(c) \/ AnswerStop(c)
  \/ ReadPort(c) \/ Dial(c) \/ NoPing(c) \/ Start(c) \/ NotRunning(c) \/ ClientGivesUp(c)
  \/ Send(c) \/ Closed(c) \/ ReadPortOfStopped(c) \/ AwaitExit(c)

ProcessNext ==
  \/ \E d \in Daemons : OfDaemon(d)
  \/ \E c \in Clients : OfClient(c)
  \/ OtherProgram

ProcessSpec == ProcessInit /\ [][ProcessNext]_processVars

-----------------------------------------------------------------------------
(* Properties *)

Started(d) == daemon[d].pc \notin {"none", "gone", "spawned"}

(* At most one daemon has passed the lock: it alone writes the port file    *)
(* and the state file, from its start to its end.                           *)
OneDaemonServes ==
  \A d, e \in Daemons : Started(d) /\ Started(e) => d = e

(* While a daemon is ready the port file holds its port, whatever daemons   *)
(* failed to start, crashed or stopped before.                              *)
PortFileIsTrue ==
  \A d \in Daemons : daemon[d].pc = "ready" => portFile = daemon[d].port

(* A client sends its request to a daemon that answered its ping, never to  *)
(* a program that took the port of one that is gone.                        *)
ClientsFindADaemon ==
  \A c \in Clients : client[c].pc \in {"asked", "handled"} =>
    client[c].to # None /\ (Alive(client[c].to) => Started(client[c].to))

(* `daemon stop` is answered before its daemon exits, unless it was killed. *)
StopIsAnswered ==
  crashes = 0 => \A c \in Clients :
    client[c].kind = "stop" /\ client[c].pc \in {"asked", "handled"} =>
      \/ Serves(c)
      \/ \E other \in Clients \ {c} : client[other].kind = "stop"

(* The daemon saves to a state file that can be loaded and to no other: one  *)
(* that could not be loaded stays as it is, and no crash leaves half a file. *)
StateFileIsKept ==
  \A d \in Daemons :
    daemon[d].pc \in {"restored", "bound", "writing", "ready", "stopping"} =>
      (daemon[d].persists <=> stateFile = "valid")

DaemonIsFound ==
  OneDaemonServes /\ PortFileIsTrue /\ ClientsFindADaemon /\ StopIsAnswered /\ StateFileIsKept

(* main.rs: after daemon.stop, wait for the daemon process to actually      *)
(* exit. It may still hold the lock: its listener is closed, or its port    *)
(* file removed, before it exits.                                           *)
StopWaitsForExit ==
  \A c \in Clients :
    client[c].result = "stopped" => client[c].to = None \/ ~Alive(client[c].to)
=============================================================================
