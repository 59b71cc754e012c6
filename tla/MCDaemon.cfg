\* Saved sessions: a default one with two tabs, an isolated one with one, one
\* edit of the file, one change.  Tabs: two targets, two requests beside the
\* watcher and the sweep, one tab per session.  Binding: two isolated
\* sessions, one host, two requests, two connections, one restart.
\* Processes: two clients, two daemons, two ports, one crash.  Wait and
\* watch: two requests.  Download: two calls, two downloads beside one of the
\* page's own.  Storage: one request beside other programs.  Console: two
\* attachments.  Timeouts: around the client's patience.
\* Other sets have the names of targets and of clients, so that few
\* permutations stand for the symmetry of all of them.
SPECIFICATION DaemonSpec
CONSTANTS
  None = None
  Bad = Bad
  Default = Default
  Isolated = Isolated
  Targets = {t1, t2}
  Clients = {c1, c2}
  Watcher = Watcher
  Sweeper = Sweeper
  MaxTabs = 1
  Named = {t1, t2}
  Hosts = {h}
  Requests = {c1, c2}
  Conns = {1, 2}
  MaxSessions = 1
  MaxContexts = 2
  MaxRestarts = 1
  Nobody = Nobody
  Timeouts = {5, 60, 595, 601}
  ResultSize = 2
  MaxRuns = 3
  Processes = {c1, c2}
  Ports = {t1, t2}
  MaxDaemons = 2
  MaxCrashes = 1
  Loads = {q1, q2}
  Delays = {1, 9}
  Quiet = 1
  MaxClock = 4
  MaxFlips = 1
  WaitTimeout = 3
  Counts = {1, 2}
  Capacity = 2
  MaxEvents = 2
  Calls = {a1, a2}
  a1 = a1
  Guids = {t1, t2}
  MaxOwn = 1
  StoreRequests = {r1}
  Commands = {"cookies.get", "cookies.set", "cookies.clear", "local.get", "local.set", "export", "import"}
  Contexts = {"default", x1, x2}
  Given = {{}, {"new"}}
  Attachments = 2
  LogMax = 2
  DebugPorts = {1, 2}
  Endpoints <- MCEndpoints
  RawArgs <- MCRawArgs
  Polls = 2
  MaxCommands = 2
SYMMETRY Symmetric
INVARIANTS
  
  
  
  HandlersTellTheTruth
  
\* Every component may end for good.
CHECK_DEADLOCK FALSE
