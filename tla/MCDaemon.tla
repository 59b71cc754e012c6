----------------------------- MODULE MCDaemon ---------------------------------
(***************************************************************************)
(* Components of the daemon and its clients side by side, for one run of   *)
(* TLC: the tabs of its sessions and their binding to browsers, commands   *)
(* from their arguments to the request, processes, handlers, and how a     *)
(* browser is launched and found.  They share nothing here, so a           *)
(* behaviour moves one of them, chosen in its initial state; the bindings  *)
(* stay where they start and the variables of the others are None.         *)
(***************************************************************************)
EXTENDS DaemonParts, TLC

CONSTANTS
  Bad,
  Isolated, Targets, Clients, Watcher, Sweeper, MaxTabs,           \* SessionTabs
  Timeouts, ResultSize, MaxRuns,                          \* DaemonCommands
  Processes, Ports, MaxDaemons, MaxCrashes,               \* DaemonCommands
  a1,                                                     \* of DaemonParts: one of Calls
  DebugPorts, Endpoints, RawArgs, Polls, MaxCommands      \* BrowserEndpoints

VARIABLES
  moving,  \* the component
  tabs, active, tabsPending, listed, idle, target, home, opener, sessionsOf, created,
  tabsDestroyed, work,
  savedFile, read, savedMemory, disabled, savedPc, live, title, savedContexts, attached,
  savedDestroyed, changed, event, bind, bound,
  cli, cliRequest, json, cliPc, cliAnswer, lock, cliFile, runs,
  daemon, daemonLock, portFile, stateFile, config, stranger, client, spawned, crashes,
  options, installed, launchPc, why, profile, launchFile, child, args, listens, inUse,
  expired, endpoint, launchConnection, uncertain, events, closer, before, lostFirst,
  executables, files, discListening, setup, polls, told, readable, discBrowsers,
  discRequest, plan, discAnswer, commands

Tabs == INSTANCE SessionTabs WITH pending <- tabsPending, destroyed <- tabsDestroyed
Saved == INSTANCE SavedSessions WITH Targets <- 1 .. 3, MaxChanges <- 1,
  file <- savedFile, memory <- savedMemory, pc <- savedPc, contexts <- savedContexts,
  destroyed <- savedDestroyed
Commanding == INSTANCE DaemonCommands WITH Clients <- Processes, request <- cliRequest,
  pc <- cliPc, answer <- cliAnswer, file <- cliFile
Reaching == INSTANCE BrowserEndpoints WITH Ports <- DebugPorts, Targets <- Endpoints,
  pc <- launchPc, file <- launchFile, connection <- launchConnection,
  listening <- discListening, browsers <- discBrowsers, request <- discRequest,
  answer <- discAnswer

theTabs == <<tabs, active, tabsPending, listed, idle, target, home, opener, sessionsOf,
             created, tabsDestroyed, work>>
theSaved == <<savedFile, read, savedMemory, disabled, savedPc, live, title,
              savedContexts, attached, savedDestroyed, changed, event, bind, bound>>
theBinding == <<browsers, watchers, sessions, bindLock, dialLock, job, signal, writer,
                file, stale, made, closed, contexts, ctxCount, run>>
theCommand == <<cli, cliRequest, json, cliPc, cliAnswer, lock, cliFile, runs>>
theProcess == <<daemon, daemonLock, portFile, stateFile, config, stranger, client,
                spawned, crashes>>
theLaunch == <<options, installed, launchPc, why, profile, launchFile, child, args,
               listens, inUse, expired, endpoint, launchConnection, uncertain, events,
               closer, before, lostFirst>>
theDiscovery == <<executables, files, discListening, setup, polls, told, readable,
                  discBrowsers, discRequest, plan, discAnswer, commands>>
everything == <<moving, theTabs, theSaved, theBinding, theCommand, theProcess, theWait,
                theWatch, theDownload, theStorage, theConsole, theLaunch, theDiscovery>>

\* Launch: at most one raw argument.
MCRawArgs == {{}} \cup {{[flag |-> f, valued |-> TRUE]} : f \in {"--lang", "--headless", "--proxy-server"}}
\* Discovery: three spellings of one endpoint, and one without its path.
Endpoint(scheme, user, host, port, path) ==
  [scheme |-> scheme, user |-> user, host |-> host, port |-> port, path |-> path, query |-> FALSE]
MCEndpoints == {Endpoint(None, FALSE, "LOCALHOST", 1, None), Endpoint("http", FALSE, "127.0.0.1", None, None),
              Endpoint("ws", FALSE, "localhost", 1, "Chrome"), Endpoint("ws", TRUE, "localhost", 1, "Chrome")}

Symmetric == Permutations(Targets) \cup Permutations(Clients)

\* Times and sizes are numbers; None and Bad are no other value.
ASSUME CommandAssumption == Timeouts \subseteq Nat /\ ResultSize \in Nat
ASSUME ProcessAssumption ==
  /\ MaxDaemons \in Nat /\ MaxCrashes \in Nat
  /\ None \notin Ports \cup 1 .. MaxDaemons
ASSUME EndpointAssumption ==
  /\ \A t \in Endpoints : t.port \in DebugPorts \cup {None}
  /\ None \notin DebugPorts
  /\ None \notin {"connected", "Chrome", "Edge", "stranger", "ours", "other", "arguments",
                   "open", "Disconnected", "ScopeClosed", "draining", "killing", "done"}
  /\ {None, Bad} \cap Reaching!File = {} /\ {None, Bad} \cap Reaching!ProfileFile = {}

-----------------------------------------------------------------------------
(* A component that does not move is not there.                           *)
NoTabs == /\ tabs = None /\ active = None /\ tabsPending = None /\ listed = None
          /\ idle = None /\ target = None /\ home = None /\ opener = None
          /\ sessionsOf = None /\ created = None /\ tabsDestroyed = None /\ work = None
NoSaved == /\ savedFile = None /\ read = None /\ savedMemory = None /\ disabled = None
           /\ savedPc = None /\ live = None /\ title = None /\ savedContexts = None
           /\ attached = None /\ savedDestroyed = None /\ changed = None /\ event = None
           /\ bind = None /\ bound = None
NoCommand == /\ cli = None /\ cliRequest = None /\ json = None /\ cliPc = None
             /\ cliAnswer = None /\ lock = None /\ cliFile = None /\ runs = None
NoProcess == /\ daemon = None /\ daemonLock = None /\ portFile = None
             /\ stateFile = None /\ config = None /\ stranger = None /\ client = None
             /\ spawned = None /\ crashes = None
NoWait == /\ waitWant = None /\ waitSession = None /\ value = None /\ open = None
          /\ done = None /\ starts = None /\ ends = None /\ subscribed = None
          /\ inFlight = None /\ idleSince = None /\ clock = None /\ due = None
          /\ stage = None /\ met = None /\ result = None /\ early = None /\ busy = None
          /\ flips = None
NoWatch == /\ watchWant = None /\ watchPc = None /\ reason = None /\ matches = None
           /\ watchRequest = None /\ blocked = None /\ watchListening = None
           /\ arrived = None /\ watchPending = None /\ terminals = None
           /\ responses = None /\ dropped = None /\ seen = None
NoDownload == /\ given = None /\ downPc = None /\ downAnswer = None /\ holder = None
              /\ behavior = None /\ reporting = None /\ begins = None /\ progress = None
              /\ started = None /\ download = None /\ restored = None
NoStorage == /\ storeWant = None /\ storePc = None /\ storeAnswer = None /\ found = None
             /\ storeSession = None /\ storeConnection = None /\ alive = None
             /\ jar = None /\ entries = None /\ touched = None /\ disturbed = None
NoConsole == /\ tab = None /\ log = None /\ token = None /\ attacher = None
             /\ task = None /\ cancelled = None /\ stream = None /\ emitted = None
             /\ taken = None /\ recorded = None /\ overlapped = None
NoLaunch == /\ options = None /\ installed = None /\ launchPc = None /\ why = None
            /\ profile = None /\ launchFile = None /\ child = None /\ args = None
            /\ listens = None /\ inUse = None /\ expired = None /\ endpoint = None
            /\ launchConnection = None /\ uncertain = None /\ events = None
            /\ closer = None /\ before = None /\ lostFirst = None
NoDiscovery == /\ executables = None /\ files = None /\ discListening = None
               /\ setup = None /\ polls = None /\ told = None /\ readable = None
               /\ discBrowsers = None /\ discRequest = None /\ plan = None
               /\ discAnswer = None /\ commands = None

DaemonInit ==
  /\ moving \in {"tabs", "saved", "binding", "cli", "process", "wait", "watch",
                "download", "storage", "console", "launch", "discovery"}
  /\ IF moving = "tabs" THEN Tabs!Init ELSE NoTabs
  /\ IF moving = "saved" THEN Saved!Init ELSE NoSaved
  /\ Init
  /\ IF moving = "cli" THEN Commanding!CommandInit ELSE NoCommand
  /\ IF moving = "process" THEN Commanding!ProcessInit ELSE NoProcess
  /\ IF moving = "wait" THEN Waits!WaitInit ELSE NoWait
  /\ IF moving = "watch" THEN Logs!WatchInit ELSE NoWatch
  /\ IF moving = "download"
     THEN /\ Waits!DownloadInit
          /\ \A c \in Calls \ {a1} : given[c] = "fine"
     ELSE NoDownload
  /\ IF moving = "storage" THEN Storage!Init ELSE NoStorage
  /\ IF moving = "console" THEN Logs!ConsoleInit ELSE NoConsole
  /\ IF moving = "launch"
     THEN /\ Reaching!LaunchInit
          /\ options.mode = "attach" =>
               /\ options.args = {} /\ ~options.headless /\ options.dir = "none"
               /\ options.executable = "given" /\ installed # {}
          /\ installed = {} => options.executable = "search" /\ options.args = {}
          /\ options.headless \/ options.args # {} => options.dir = "none"
     ELSE NoLaunch
  /\ IF moving = "discovery"
     THEN /\ Reaching!DiscoveryInit
          /\ "Chrome" \in executables
          /\ files["Edge"] = None /\ files["Chrome"] \in {None, Bad, [port |-> 1, browser |-> "gone"]}
     ELSE NoDiscovery

StillBut(component) ==
  /\ UNCHANGED moving
  /\ component # "tabs" => UNCHANGED theTabs
  /\ component # "saved" => UNCHANGED theSaved
  /\ component # "binding" => UNCHANGED theBinding
  /\ component # "cli" => UNCHANGED theCommand
  /\ component # "process" => UNCHANGED theProcess
  /\ component # "wait" => UNCHANGED theWait
  /\ component # "watch" => UNCHANGED theWatch
  /\ component # "download" => UNCHANGED theDownload
  /\ component # "storage" => UNCHANGED theStorage
  /\ component # "console" => UNCHANGED theConsole
  /\ component # "launch" => UNCHANGED theLaunch
  /\ component # "discovery" => UNCHANGED theDiscovery

DaemonNext ==
  \/ moving = "tabs" /\ Tabs!Next /\ StillBut("tabs")
  \/ moving = "saved" /\ Saved!Next /\ StillBut("saved")
  \/ moving = "binding" /\ Next /\ StillBut("binding")
  \/ moving = "cli" /\ Commanding!CommandNext /\ StillBut("cli")
  \/ moving = "process" /\ Commanding!ProcessNext /\ StillBut("process")
  \/ moving = "wait" /\ Waits!WaitNext /\ StillBut("wait")
  \/ moving = "watch" /\ Logs!WatchNext /\ StillBut("watch")
  \/ moving = "download" /\ Waits!DownloadNext /\ StillBut("download")
  \/ moving = "storage" /\ Storage!Next /\ StillBut("storage")
  \/ moving = "console" /\ Logs!ConsoleNext /\ StillBut("console")
  \/ moving = "launch" /\ Reaching!LaunchNext /\ StillBut("launch")
  \/ /\ moving = "discovery" /\ Reaching!DiscoveryNext /\ StillBut("discovery")
     /\ setup' = "new" \/ commands' = 0

DaemonSpec == DaemonInit /\ [][DaemonNext]_everything

-----------------------------------------------------------------------------
(* Properties, of the component that moves; each is stated in its module   *)

(* What the daemon keeps of its tabs is what a restart accepts, agrees with*)
(* Chrome's targets, and leaks no attachment.                              *)
TabsAreKept ==
  /\ moving = "tabs" => Tabs!TabsAreSound
  /\ moving = "saved" => Saved!SavedSessionsAreSound

(* A command becomes a request that the daemon accepts, is sent to the one *)
(* daemon there is, and is answered while its client waits.                *)
CommandsReachTheDaemon ==
  /\ moving = "cli" => Commanding!CommandsAreSound
  /\ moving = "process" => Commanding!DaemonIsFound

(* What wait, network watch, click download, the console log and the storage*)
(* commands tell of the page has happened, nothing that they should tell is*)
(* missing, and a storage command stays in its context.                    *)
HandlersTellTheTruth ==
  /\ moving = "wait" => Waits!DaemonWaitIsSound
  /\ moving = "watch" => Logs!WatchIsSound
  /\ moving = "download" => Waits!DownloadCommandIsSound
  /\ moving = "console" => Logs!ConsoleIsSound
  /\ moving = "storage" => Storage!StorageCommandsAreSound

(* The connection is to the browser that was launched or named, and a failed*)
(* launch leaves nothing behind.                                           *)
BrowsersAreReached ==
  /\ moving = "launch" => Reaching!LaunchIsSound
  /\ moving = "discovery" => Reaching!DiscoveryIsSound
=============================================================================
