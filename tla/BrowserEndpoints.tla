--------------------------- MODULE BrowserEndpoints ---------------------------
(***************************************************************************)
(* How a running browser is found: bk setup, which waits until the user has *)
(* enabled remote debugging (main.rs run_setup, browser/finder.rs), and the *)
(* daemon's browser.discover and browser.connect (browser/discover.rs,      *)
(* browser/mod.rs, daemon/handler/browser.rs), which register connections   *)
(* under host:port.                                                         *)
(*                                                                          *)
(* Chrome and Edge each have a profile directory with a DevToolsActivePort  *)
(* file; the machine is one, so that each of its host names reaches the     *)
(* same ports.                                                              *)
(***************************************************************************)
EXTENDS Naturals, Sequences, SequencesExt

CONSTANTS
  Ports,      \* debugging ports
  Targets,    \* endpoints a client names: records [scheme, user, host, port, path, query]
  Polls,      \* bound of the program: attempts of bk setup (30)
  MaxCommands, \* bound: commands sent to the daemon
  None, Bad

Browsers == {"Chrome", "Edge"}
File == [port : Ports, browser : Browsers \cup {None, "gone"}]

VARIABLES
  executables, \* the browsers whose executable exists at a known path
  files,      \* of each profile: None, Bad or a File
  listening,  \* of each port: a browser, "stranger" or None
  setup, polls, \* bk setup: where it is, and how often it has looked
  told,       \* the browser setup tells of
  readable,   \* history: some file could be read when setup looked last
  browsers,   \* DaemonState::browsers: of each key the browser it is connected to, and
              \* whether it still is
  request, plan, answer, commands \* a command of the daemon

discoveryVars == <<executables, files, listening, setup, polls, told, readable, browsers, request,
                  plan, answer, commands>>
world == <<executables, files, listening>>
settingUp == <<setup, polls, told, readable>>
daemon == <<browsers, request, plan, answer, commands>>

-----------------------------------------------------------------------------
(* Places *)

\* detect_installed_browser: Chrome's install paths before Edge's.
Detected == IF "Chrome" \in executables THEN "Chrome" ELSE "Edge"

\* chrome_user_data_dirs, then edge_user_data_dirs.
Places == <<"Chrome", "Edge">>

\* parse_devtools_active_port.
Parsed(f) == f \in File

\* Mutant: the first file there is.
FirstPort == LET there == SelectSeq(Places, LAMBDA b : files[b] # None)
             IN  there # <<>> /\ Parsed(files[Head(there)])

\* find_devtools_port: the first file that can be read.
FindPort == \E i \in 1..Len(Places) : Parsed(files[Places[i]])

-----------------------------------------------------------------------------
(* bk setup *)

Detect ==
  /\ setup = "new"
  /\ IF executables = {} THEN setup' = "absent" /\ UNCHANGED told
     ELSE setup' = "check" /\ told' = Detected
  /\ UNCHANGED <<world, daemon, polls, readable>>

Check ==
  /\ setup = "check" /\ setup' = IF FindPort THEN "ready" ELSE "prompt"
  /\ UNCHANGED <<world, daemon, polls, told, readable>>

Enter ==
  /\ setup = "prompt" /\ setup' \in {"polling", "failed"}
  /\ UNCHANGED <<world, daemon, polls, told, readable>>

\* One look a second; after the last one setup gives up a second later.
Poll ==
  /\ setup = "polling"
  /\ polls' = polls + 1
  /\ readable' = (\E b \in Browsers : files[b] \in File)
  /\ setup' = IF FindPort THEN "ready" ELSE IF polls' = Polls THEN "timeout" ELSE "polling"
  /\ UNCHANGED <<world, daemon, told>>

Setup == Detect \/ Check \/ Enter \/ Poll

-----------------------------------------------------------------------------
(* The daemon *)

\* parse_browser_endpoint: an explicit port, no credentials, no query; over
\* http nothing but the host.  The key is normalised, the target of a direct
\* connection is not.
Lower(h) == IF h = "LOCALHOST" THEN "localhost" ELSE h

Accepts(t) ==
  /\ t.port # None
  /\ t.scheme \in {None, "http", "ws"} /\ ~t.user /\ t.host # None /\ ~t.query
  /\ t.scheme # "ws" => t.path = None

\* Mutant: the port of the URL, which is none where it is the scheme's default.
KeyOfUrl(t) == <<Lower(t.host), IF t.port = 1 THEN None ELSE t.port>>

\* endpoint_key: the host of the URL and the explicit port.
Key(t) == <<Lower(t.host), t.port>>

\* What connect_to_browser is given: a port, and the browser a path names.
Endpoint(t) == [port |-> t.port, direct |-> t.scheme = "ws", path |-> t.path]

Refusal(status) == [status |-> status, browser |-> None, named |-> None]

\* do_browser_connect.
AskConnect(t) ==
  /\ request = "none" /\ commands < MaxCommands /\ commands' = commands + 1
  /\ IF Accepts(t) THEN /\ request' = "connecting"
                        /\ plan' = [key |-> Key(t), to |-> Endpoint(t), named |-> t.path]
                        /\ UNCHANGED answer
     ELSE answer' = Refusal("refused") /\ UNCHANGED <<request, plan>>
  /\ UNCHANGED <<world, settingUp, browsers>>

\* Mutant: the port of the file, and whoever listens there.
PathlessEndpoint(f) == [port |-> f.port, direct |-> FALSE, path |-> None]

\* The path of the file makes a direct connection, its lack one by HTTP.
FileEndpoint(f) == [port |-> f.port, direct |-> f.browser # None, path |-> f.browser]

\* do_browser_discover: of Chrome's default place, or a path of the caller's.
AskDiscover(b) ==
  /\ request = "none" /\ commands < MaxCommands /\ commands' = commands + 1
  /\ IF Parsed(files[b])
     THEN /\ request' = "connecting"
          /\ plan' = [key |-> <<"localhost", files[b].port>>, to |-> FileEndpoint(files[b]),
                      named |-> files[b].browser]
          /\ UNCHANGED answer
     ELSE answer' = Refusal("unreadable") /\ UNCHANGED <<request, plan>>
  /\ UNCHANGED <<world, settingUp, browsers>>

\* CDP::connect: a direct connection finds the browser of its path, one by HTTP
\* the browser that listens.
Reached(e) == LET at == listening[e.port] IN IF e.direct /\ e.path # at THEN None ELSE at

\* get_or_connect_browser_with_url: a connection that is registered under the
\* key is used as it is.
GetOrConnect ==
  /\ request = "connecting" /\ request' = "none" /\ plan' = None
  /\ \/ /\ plan.key \in DOMAIN browsers /\ UNCHANGED browsers
        /\ answer' = [status |-> "already_connected", browser |-> browsers[plan.key].browser, named |-> plan.named]
     \/ /\ plan.key \notin DOMAIN browsers /\ Reached(plan.to) # None
        /\ browsers' = [k \in DOMAIN browsers \cup {plan.key} |->
                          IF k = plan.key THEN [browser |-> Reached(plan.to), live |-> TRUE]
                          ELSE browsers[k]]
        /\ answer' = [status |-> "connected", browser |-> Reached(plan.to), named |-> plan.named]
     \/ plan.key \notin DOMAIN browsers /\ answer' = Refusal("failed") /\ UNCHANGED browsers
  /\ UNCHANGED <<world, settingUp, commands>>

Alive(b) == \E p \in Ports : listening[p] = b

\* The disconnect monitor removes a connection that is lost.
Lose(k) ==
  /\ k \in DOMAIN browsers /\ ~browsers[k].live
  /\ browsers' = [l \in DOMAIN browsers \ {k} |-> browsers[l]]
  /\ UNCHANGED <<world, settingUp, request, plan, answer, commands>>

-----------------------------------------------------------------------------
(* The machine *)

\* The user enables remote debugging: the browser listens and writes its file.
Enable(b, p) ==
  /\ ~Alive(b) /\ listening[p] = None
  /\ listening' = [listening EXCEPT ![p] = b]
  /\ files' \in {[files EXCEPT ![b] = f] : f \in {Bad} \cup [port : {p}, browser : {b, None}]}
  /\ UNCHANGED <<executables, settingUp, daemon>>

\* A file half written is finished.
Finish(b, p) ==
  /\ listening[p] = b /\ files[b] = Bad
  /\ files' = [files EXCEPT ![b] = [port |-> p, browser |-> b]]
  /\ UNCHANGED <<executables, listening, settingUp, daemon>>

\* A browser exits and may leave its file, which names a browser that is gone.
\* What connections there were to it are being lost.
Exit(p) ==
  /\ listening[p] \in Browsers
  /\ listening' = [listening EXCEPT ![p] = None]
  /\ LET b == listening[p]
         left == IF Parsed(files[b]) THEN [files[b] EXCEPT !.browser = IF @ = None THEN None ELSE "gone"]
                 ELSE files[b]
     IN  files' \in {[files EXCEPT ![b] = f] : f \in {None, left}}
  /\ browsers' = [k \in DOMAIN browsers |->
                    [browsers[k] EXCEPT !.live = @ /\ browsers[k].browser # listening[p]]]
  /\ UNCHANGED <<executables, settingUp, request, plan, answer, commands>>

DiscoveryInit ==
  /\ executables \in SUBSET Browsers
  /\ files \in [Browsers -> {None, Bad} \cup [port : Ports, browser : {None, "gone"}]]
  /\ listening \in {[p \in Ports |-> None]} \cup {[q \in Ports |-> IF q = p THEN "stranger" ELSE None] : p \in Ports}
  /\ setup = "new" /\ polls = 0 /\ told = None /\ readable = FALSE
  /\ browsers = <<>> /\ request = "none" /\ plan = None /\ answer = Refusal(None) /\ commands = 0

DiscoveryNext ==
  \/ Setup
  \/ \E t \in Targets : AskConnect(t)
  \/ \E b \in Browsers : AskDiscover(b)
  \/ GetOrConnect
  \/ \E k \in DOMAIN browsers : Lose(k)
  \/ \E b \in Browsers, p \in Ports : Enable(b, p) \/ Finish(b, p)
  \/ \E p \in Ports : Exit(p)

DiscoverySpec == DiscoveryInit /\ [][DiscoveryNext]_discoveryVars

-----------------------------------------------------------------------------
(* Properties *)

\* A new connection of browser.discover or of a ws:// endpoint is to the
\* browser that the file or the path names, never to another that has taken the
\* port of one that is gone.  (A registered one is not asked who it is.)
ConnectsToTheNamed ==
  (answer.status = "connected" /\ answer.named # None) => answer.browser = answer.named

\* Connections are registered under the address they were made to: the browser
\* of a key listens on the key's port, or the connection is lost.
KeyIsItsAddress ==
  \A k \in DOMAIN browsers :
    /\ k[2] \in Ports
    /\ browsers[k].live => listening[k[2]] = browsers[k].browser

\* bk setup names a browser that is installed, and gives up only if no file
\* could be read when it looked last, Chrome's or Edge's.
SetupIsTrue ==
  /\ setup \in {"ready", "timeout"} => told \in executables
  /\ setup = "timeout" => ~readable /\ polls = Polls

DiscoveryIsSound == ConnectsToTheNamed /\ KeyIsItsAddress /\ SetupIsTrue

-----------------------------------------------------------------------------
(***************************************************************************)
(* BrowserRuntime::launch (runtime/launch.rs, runtime/browser.rs): Chrome   *)
(* is spawned on a profile with a free debugging port and found again by    *)
(* the DevToolsActivePort file it writes into the profile; or, connected to *)
(* an endpoint of the caller's, it is attached to.  Then the end of the     *)
(* runtime, by a close or with the connection.                              *)
(*                                                                          *)
(* The profile is a temporary one, or a directory of the caller's, which    *)
(* may hold the file of an earlier browser, or that of one still running    *)
(* on it.  A file names a port and, unless Chrome left it out, the browser  *)
(* ("ours", "other", or "gone" for one that has exited).                    *)
(***************************************************************************)
CONSTANTS
  RawArgs    \* sets of raw arguments: records [flag, valued]

Flags == {"--headless", "--no-headless", "--proxy-server", "--proxy-bypass-list",
          "--no-proxy-server", "--proxy-pac-url", "--proxy-auto-detect"}
ProfileFile == [port : Ports, browser : {None, "ours", "other", "gone"}]

VARIABLES
  options,    \* LaunchOptions: [args, headless, executable, dir]
  installed,  \* the channels of Chrome whose known path exists
  pc, why,    \* the launch and, when it has failed, in which step
  profile,    \* "caller", "none", "temporary" (made by this launch) or "removed"
  file,       \* DevToolsActivePort of the profile: None, Bad or a File
  child, args, \* the process, and the arguments it was spawned with
  listens,  \* of each port, the browser that listens
  inUse,      \* whether the other browser runs on the caller's profile
  expired,    \* the deadline has passed
  endpoint, connection, \* what was found, and the browser the CDP connection is to
  uncertain,  \* the error, or the report of the close, tells of a process that still runs
  events,     \* the runtime's event hub: None, "open" or the reason it was closed with
  closer,     \* the runtime's close: None, "draining", "disconnected", "killing" or "done"
  before,     \* history: the profile held a file when the launch began
  lostFirst   \* history: the connection was lost before a close began

chosen == <<options, installed, inUse, before>>
process == <<child, args>>
runtime == <<events, closer, lostFirst>>
launchVars == <<chosen, process, runtime, pc, why, profile, file, listens, expired, endpoint,
               connection, uncertain>>

-----------------------------------------------------------------------------
(* The call *)

\* Mutant: a flag that is given a value is another string than the flag.
ChangesWhenBare(a) == a.flag \in Flags /\ ~a.valued

\* changes_typed_launch_truth.
Changes(a) == a.flag \in Flags

Fail(step) == pc' = "failed" /\ why' = step

\* launch_browser: raw arguments that contradict the typed options are refused
\* before anything is looked for or made.
Validate ==
  /\ pc = "new" /\ options.mode = "launch"
  /\ IF \E a \in options.args : Changes(a) THEN Fail("arguments") ELSE pc' = "find" /\ UNCHANGED why
  /\ UNCHANGED <<chosen, runtime, process, profile, file, listens, expired, endpoint, connection, uncertain>>

\* BrowserFinder: the channels by priority, of which the first is taken that is
\* there.
Channels == <<"chrome", "chrome-beta", "chrome-dev", "chrome-canary", "chromium">>
Found == SelectSeq(Channels, LAMBDA c : c \in installed)

\* The caller's executable, or the first known path that exists; then the
\* caller's directory, or a temporary one.
Find ==
  /\ pc = "find"
  /\ IF options.executable = "search" /\ Found = <<>>
     THEN Fail("find") /\ UNCHANGED profile
     ELSE /\ pc' = "spawn" /\ UNCHANGED why
          /\ profile' = IF options.dir = "caller" THEN "caller" ELSE "temporary"
  /\ UNCHANGED <<chosen, runtime, process, file, listens, expired, endpoint, connection, uncertain>>

\* LaunchCommand::build and spawn: the raw arguments, then the typed ones.
Build(raw) ==
  {a.flag : a \in raw} \cup (IF options.headless THEN {"--headless"} ELSE {})

\* A spawn that fails drops the temporary directory with the error.
Spawn ==
  /\ pc = "spawn"
  /\ \/ /\ child' = "starting" /\ args' = Build(options.args) /\ pc' = "wait"
        /\ UNCHANGED <<why, profile>>
     \/ /\ Fail("spawn")
        /\ profile' = IF profile = "temporary" THEN "removed" ELSE profile
        /\ UNCHANGED process
  /\ UNCHANGED <<chosen, runtime, file, listens, expired, endpoint, connection, uncertain>>

\* wait_for_debug_endpoint: whether the child still runs, ...
TryWait ==
  /\ pc = "wait"
  /\ IF child = "exited" THEN pc' = "kill" /\ why' = "exited" ELSE pc' = "look" /\ UNCHANGED why
  /\ UNCHANGED <<chosen, runtime, process, profile, file, listens, expired, endpoint, connection, uncertain>>

\* ... then whether its file can be read, then whether the time is up; a file
\* that cannot be parsed is read again.
Look ==
  /\ pc = "look"
  /\ IF file \in ProfileFile THEN endpoint' = file /\ pc' = "connect" /\ UNCHANGED why
     ELSE IF expired THEN pc' = "kill" /\ why' = "timeout" /\ UNCHANGED endpoint
     ELSE pc' = "wait" /\ UNCHANGED <<why, endpoint>>
  /\ UNCHANGED <<chosen, runtime, process, profile, file, listens, expired, connection, uncertain>>

\* BrowserRuntime::connect: the endpoint is the caller's.
Attach ==
  /\ pc = "new" /\ options.mode = "attach" /\ pc' = "connect"
  /\ endpoint' \in [port : Ports, browser : {None, "other", "gone"}]
  /\ UNCHANGED <<chosen, process, runtime, why, profile, file, listens, expired, connection,
                uncertain>>

\* Mutant: whichever browser answers on the port.
ReachedByPort == listens[endpoint.port]

\* The browser on the endpoint's port: the one it names, or whichever answers
\* there when it names none.
ReachedBrowser == LET at == listens[endpoint.port]
           IN  IF endpoint.browser \in {None, at} THEN at ELSE None

\* CDP::connect; it may time out however it is.
Connect ==
  /\ pc = "connect"
  /\ \/ ReachedBrowser # None /\ connection' = ReachedBrowser /\ pc' = "metadata" /\ UNCHANGED why
     \/ pc' = "kill" /\ why' = "connect" /\ UNCHANGED connection
  /\ UNCHANGED <<chosen, runtime, process, profile, file, listens, expired, endpoint, uncertain>>

ChildAlive == connection \in {listens[p] : p \in Ports}

\* browser_metadata; after a failure the connection is closed first.
Metadata ==
  /\ pc = "metadata"
  /\ \/ ChildAlive /\ pc' = "ready" /\ events' = "open" /\ UNCHANGED <<why, connection>>
     \/ pc' = "kill" /\ why' = "metadata" /\ connection' = None /\ UNCHANGED events
  /\ UNCHANGED <<chosen, closer, lostFirst, process, profile, file, listens, expired, endpoint, uncertain>>

Stopped == IF child \in {"none", "exited"} THEN child ELSE "killed"
StopsListening == listens' = [p \in Ports |-> IF listens[p] = "ours" THEN None ELSE listens[p]]
DropProfile == profile' = IF profile = "temporary" THEN "removed" ELSE profile

\* Mutant: the directory is kept.
DropKeeping(c) == child' = c /\ StopsListening /\ profile' = profile

\* LaunchedBrowser dropped: kill_on_drop, then the temporary directory.
Drop(c) == child' = c /\ StopsListening /\ DropProfile

\* Mutant: the process is left to the drop, which does not wait and cannot report.
KillQuietly ==
  /\ pc = "kill" /\ pc' = "failed" /\ DropProfile
  /\ child' \in {Stopped, child}
  /\ IF child' = child THEN UNCHANGED listens ELSE StopsListening
  /\ UNCHANGED <<chosen, runtime, why, file, args, expired, endpoint, connection, uncertain>>

\* terminate_child: a child that has exited counts as killed; a kill that fails
\* is told with the error, and the drop cannot do better.
Kill ==
  /\ pc = "kill" /\ pc' = "failed"
  /\ \/ Drop(Stopped) /\ UNCHANGED uncertain
     \/ /\ child \in {"starting", "up"} /\ uncertain' = TRUE
        /\ DropProfile /\ UNCHANGED <<child, listens>>
  /\ UNCHANGED <<chosen, runtime, why, file, args, expired, endpoint, connection>>

\* The caller drops the future where it waits.
Cancel ==
  /\ pc \in {"wait", "connect", "metadata", "kill"} /\ pc' = "dropped"
  /\ connection' = None
  /\ Drop(Stopped)
  /\ UNCHANGED <<chosen, runtime, why, file, args, expired, endpoint, uncertain>>

Launch == Validate \/ Attach \/ Find \/ Spawn \/ TryWait \/ Look \/ Connect \/ Metadata \/ Kill \/ Cancel

-----------------------------------------------------------------------------
(* The runtime *)

\* The gate leaves Open; what else the close drains is another module's.
BeginClose ==
  /\ pc = "ready" /\ closer = None /\ closer' = "draining"
  /\ UNCHANGED <<chosen, process, events, lostFirst, pc, why, profile, file, listens, expired,
                endpoint, connection, uncertain>>

\* cdp.close(), and its end is awaited.
Disconnect ==
  /\ closer = "draining" /\ closer' = "killing" /\ connection' = None
  /\ UNCHANGED <<chosen, process, events, lostFirst, pc, why, profile, file, listens, expired,
                endpoint, uncertain>>

\* The launched process is killed, or the report says that it could not be;
\* the events end.
FinishClose ==
  /\ closer = "killing" /\ closer' = "done"
  /\ \/ Drop(Stopped) /\ UNCHANGED uncertain
     \/ child \in {"starting", "up"} /\ uncertain' = TRUE /\ DropProfile /\ UNCHANGED <<child, listens>>
  /\ events' = IF events = "open" THEN "ScopeClosed" ELSE events
  /\ UNCHANGED <<chosen, args, lostFirst, pc, why, file, expired, endpoint, connection>>

\* The connection breaks.
LoseConnection ==
  /\ pc = "ready" /\ connection # None /\ connection' = None
  /\ lostFirst' = (closer = None)
  /\ UNCHANGED <<chosen, process, events, closer, pc, why, profile, file, listens, expired,
                endpoint, uncertain>>

\* Mutant: whatever ended the connection, it was lost.
WatchBlindly ==
  /\ pc = "ready" /\ connection = None /\ events = "open" /\ events' = "Disconnected"
  /\ UNCHANGED <<chosen, process, closer, lostFirst, pc, why, profile, file, listens, expired,
                endpoint, connection, uncertain>>

\* The task of BrowserRuntime::new, when the connection has ended.
Watch ==
  /\ pc = "ready" /\ connection = None /\ events = "open"
  /\ events' = IF closer = None THEN "Disconnected" ELSE "ScopeClosed"
  /\ UNCHANGED <<chosen, process, closer, lostFirst, pc, why, profile, file, listens, expired,
                endpoint, connection, uncertain>>

-----------------------------------------------------------------------------
(* Around it: Chrome, the other browser and the time *)

\* Chrome listens on a port of its own, or, when its profile is in use, hands
\* over to the browser there and exits.
ChromeStarts ==
  /\ child = "starting"
  /\ IF inUse THEN child' = "exited" /\ UNCHANGED listens
     ELSE /\ child' = "up"
          /\ \E p \in Ports : listens[p] = None /\ listens' = [listens EXCEPT ![p] = "ours"]
  /\ UNCHANGED <<chosen, runtime, pc, why, profile, file, args, expired, endpoint, connection, uncertain>>

\* The file is made, and then written.
ChromePublishes ==
  /\ child = "up"
  /\ \E p \in Ports :
       /\ listens[p] = "ours" /\ file \notin {[port |-> p, browser |-> b] : b \in {None, "ours"}}
       /\ file' \in (IF file = Bad THEN {[port |-> p, browser |-> b] : b \in {None, "ours"}} ELSE {Bad})
  /\ UNCHANGED <<chosen, runtime, process, pc, why, profile, listens, expired, endpoint, connection, uncertain>>

ChromeExits ==
  /\ child \in {"starting", "up"} /\ child' = "exited" /\ StopsListening
  /\ UNCHANGED <<chosen, runtime, pc, why, profile, file, args, expired, endpoint, connection, uncertain>>

\* Another browser is started, on a port that is free.
OtherStarts(p) ==
  /\ "other" \notin {listens[q] : q \in Ports} /\ listens[p] = None
  /\ listens' = [listens EXCEPT ![p] = "other"]
  /\ UNCHANGED <<chosen, runtime, process, pc, why, profile, file, expired, endpoint, connection, uncertain>>

TimePasses ==
  /\ pc \in {"wait", "look"} /\ ~expired /\ expired' = TRUE
  /\ UNCHANGED <<chosen, runtime, process, pc, why, profile, file, listens, endpoint, connection, uncertain>>

\* A file found in the caller's directory is that of the browser that runs on
\* it, or was left by one that does not run any more.
LaunchInit ==
  /\ options \in [mode : {"launch", "attach"}, args : RawArgs, headless : BOOLEAN, executable : {"given", "search"},
                  dir : {"caller", "none"}]
  /\ installed \in {{}, {"chrome-beta", "chromium"}} /\ inUse \in (IF options.dir = "caller" THEN BOOLEAN ELSE {FALSE})
  /\ pc = "new" /\ why = None /\ profile = options.dir /\ child = "none" /\ args = {}
  /\ listens \in {[p \in Ports |-> None]} \cup {[q \in Ports |-> IF q = p THEN "other" ELSE None] : p \in Ports}
  /\ inUse => "other" \in {listens[p] : p \in Ports}
  /\ file \in (IF options.dir # "caller" THEN {None}
               ELSE IF inUse
               THEN {[port |-> p, browser |-> b] : p \in {q \in Ports : listens[q] = "other"},
                                                  b \in {None, "other"}}
               ELSE {None} \cup [port : Ports, browser : {None, "gone"}])
  /\ expired = FALSE /\ endpoint = None /\ connection = None /\ uncertain = FALSE
  /\ before = (file # None) /\ events = None /\ closer = None /\ lostFirst = FALSE

LaunchNext ==
  \/ Launch \/ BeginClose \/ Disconnect \/ FinishClose \/ LoseConnection \/ Watch
  \/ ChromeStarts \/ ChromePublishes \/ ChromeExits
  \/ \E p \in Ports : OtherStarts(p)
  \/ TimePasses

LaunchSpec == LaunchInit /\ [][LaunchNext]_launchVars

-----------------------------------------------------------------------------
(* Properties *)

TypeOK ==
  /\ pc \in {"new", "find", "spawn", "wait", "look", "connect", "metadata", "kill", "ready",
             "failed", "dropped"}
  /\ file \in {None, Bad} \cup ProfileFile /\ endpoint \in {None} \cup ProfileFile
  /\ child \in {"none", "starting", "up", "exited", "killed"}
  /\ profile \in {"caller", "none", "temporary", "removed"}
  /\ listens \in [Ports -> {None, "ours", "other"}]
  /\ connection \in {None, "ours", "other"}

\* runtime/browser.rs:271 "connects through its dynamic CDP endpoint": on a
\* profile that held no file, with a browser named in the file, it is that
\* browser and no other; whatever the file said, one that has gone is not taken
\* for it.
ConnectsToItsBrowser ==
  (pc = "ready" /\ options.mode = "launch" /\ endpoint.browser # None /\ ~before) =>
    connection \in {"ours", None}

\* A launch that does not return a runtime leaves no process, no directory of
\* its own and no connection, or says that it could not stop the process.
FailureLeavesNothing ==
  (pc \in {"failed", "dropped"}) =>
    /\ child \in {"none", "exited", "killed"} \/ uncertain
    /\ profile # "temporary" /\ connection = None

\* Headless and proxy are as the typed options say, whatever raw arguments were
\* given: capabilities are derived from them.  Arguments are refused before a
\* browser is looked for, a directory made or a process spawned.
OptionsAreKept ==
  /\ child # "none" => ("--headless" \in args) = options.headless /\ args \cap (Flags \ {"--headless"}) = {}
  /\ why = "arguments" => child = "none" /\ profile = options.dir

\* A closed runtime has stopped the process it launched, or tells that it could
\* not; what it tells its listeners is a loss
\* only if the connection was lost before anyone asked for the close.
EndIsTold ==
  /\ closer = "done" => (child \in {"none", "exited", "killed"} \/ uncertain) /\ profile # "temporary"
                        /\ events # "open" /\ connection = None
  /\ events = "Disconnected" => lostFirst

LaunchIsSound == TypeOK /\ EndIsTold /\ ConnectsToItsBrowser /\ FailureLeavesNothing /\ OptionsAreKept
=============================================================================
