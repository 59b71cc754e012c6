----------------------------- MODULE MCPages ----------------------------------
(***************************************************************************)
(* Components of a page side by side, for one run of TLC: what is read     *)
(* from it, done to it, waited for and expected, its navigations and       *)
(* downloads, its event streams, the configuration of its routes,          *)
(* authentication states, and the contexts of isolated sessions.  They     *)
(* share nothing here, so a behaviour moves one of them, chosen in its     *)
(* initial state; the variables of the others are None.                    *)
(***************************************************************************)
EXTENDS PageParts, FiniteSets, Sequences

CONSTANTS
  MaxVersions, MaxUses, Savers,                           \* PageReads
  SnapshotBudgets, Texts, Envelope, Reason,
  TextSize, ModeTexts, ModeElements, ElementSizes, MaxElements,
  TokenBudgets, Markers, Empty, Unlimited,                \* PageBudgets
  NodeA, NodeB, Modifiers, Nothing,                       \* TabActions
  q1,                                                     \* NetworkWaits
  Streams, Sizes, EventBudget, ByteBudget, CloseReasons, Errors,  \* EventStreams
  Users, u1, MaxDialogs,                                  \* PageExpectations
  t1, t2,                                                 \* PageRoutes
  Depth, Widths,                                          \* PageActions
  Acts, MaxClicks,                                        \* PageActions
  Origins, Pages, Own, Entry, Stored, Filed, Nowhere,
  Sites, MaxJar, Bad, Opaque                              \* StorageState

VARIABLES
  moving,  \* the component
  readDoc, absent, known, readContext, readGroups, readClosing, readGuard, readRead,
  temp, file, saver,
  snap, stage, first,
  contentPage, contentShown, contentPc, low, high,
  layout, actTop, actChanges, era, actGroups, freeing, lost, actHeld, did, request,
  actTodo, failed, actAnswer, owned, point, object, results, pressed, actQueue,
  listening, lagged, popup, newTab, actRead,
  hub, stream, evPage, evTerminal, closers, diag, bundle, evPublished, taken,
  exKind, exPage, exClosing, exp, exAction, exInbox, handle, current, chooser, exShown,
  openings, closings, count, epochs, claims,
  box, width, geoTop, geoDocument, split, geoCall, quad, fence, used, geoChanges,
  earlier, returned,
  locDoc, locStore, locGroups, locClosing, act,
  cookies, storage, at, moved, authClosing, authJob, temporary,
  jarPc, filter, jar, jarSent, state, jarOutcome, after

\* Geometry: the inner frame is not scaled and not clipped, the outer is scaled.
Near == [at |-> 1, scale |-> 1, size |-> 4]
Far == [at |-> 2, scale |-> 2, size |-> 4]
Boxes == {Near, Far, [at |-> 0, scale |-> 2, size |-> 2]}
Tops == {[aperture |-> 20, page |-> 0], [aperture |-> 20, page |-> 3]}
Sources == {[lo |-> 0, hi |-> 1], [lo |-> 1, hi |-> 2]}
\* Cookies: hosts by label, each a sequence of characters, and paths by segment.
SomeHosts == {<<<<"a">>>>, <<<<"b">>, <<"a">>>>, <<<<"b", "a">>>>}
SomePaths == [segs : {<<<<"x">>>>}, slash : BOOLEAN] \cup
  {[segs |-> <<>>, slash |-> TRUE], [segs |-> <<<<"x", "y">>>>, slash |-> FALSE],
   [segs |-> <<<<"x">>, <<"y">>>>, slash |-> FALSE]}

Reads == INSTANCE PageReads WITH doc <- readDoc, context <- readContext,
  groups <- readGroups, closing <- readClosing, guard <- readGuard, read <- readRead
Budgets == INSTANCE PageBudgets WITH Budgets <- SnapshotBudgets, page <- contentPage,
  shown <- contentShown, pc <- contentPc
Actions == INSTANCE TabActions WITH MaxChanges <- 1, MaxEvents <- 1, top <- actTop,
  changes <- actChanges, groups <- actGroups, held <- actHeld, todo <- actTodo,
  answer <- actAnswer, queue <- actQueue, read <- actRead
EventStream == INSTANCE EventStreams WITH MaxEvents <- 2, page <- evPage,
  terminal <- evTerminal, published <- evPublished
Expectation == INSTANCE PageExpectations WITH kind <- exKind, page <- exPage,
  closing <- exClosing, action <- exAction, inbox <- exInbox, shown <- exShown
PageAction == INSTANCE PageActions WITH MaxChanges <- 2, top <- geoTop,
  document <- geoDocument, call <- geoCall, changes <- geoChanges, doc <- locDoc,
  store <- locStore, groups <- locGroups, closing <- locClosing
Storage == INSTANCE StorageState WITH Hosts <- SomeHosts, Paths <- SomePaths,
  closing <- authClosing, job <- authJob, pc <- jarPc, sent <- jarSent,
  outcome <- jarOutcome

theReads == <<readDoc, absent, known, readContext, readGroups, readClosing, readGuard,
              readRead, temp, file, saver>>
theBudget == <<snap, stage, first>>
theContent == <<contentPage, contentShown, contentPc, low, high>>
theActions == <<layout, actTop, actChanges, era, actGroups, freeing, lost, actHeld, did,
                request, actTodo, failed, actAnswer, owned, point, object, results,
                pressed, actQueue, listening, lagged, popup, newTab, actRead>>
theWait == <<wait, waitPage, waitPc, wake, waitClock, waitQueue, waitAnswer, waitGuard,
             previous, stableSince, result, waitChanges, changed, waitHeld>>
theNetWait == <<netWant, header, netPublished, inflight, netPc, netQueue, starts,
                snapshots, matched, netAction, netTold, netClock, due, quietSince,
                notified, busyAt, quietFor, netSent>>
theEventStream == <<hub, stream, evPage, evTerminal, closers, diag, bundle, evPublished,
                    taken>>
theExpectation == <<exKind, exPage, exClosing, exp, exAction, exInbox, handle, current,
                    chooser, exShown, openings, closings, count, epochs, claims>>
theAuxiliary == <<auxKind, parent, waiting, needs, asked, chrome, paused, configured,
                  auxInbox, reader, auxJob, record, routes, detached, detacher, auxPage,
                  report, auxTerminal, repeated>>
theConfiguration == <<options, route, configApplied, configTodo, override, undone, live,
                      configClosing>>
theGeometry == <<box, width, geoTop, geoDocument, split, geoCall, quad, fence, used,
                 geoChanges, earlier, returned>>
theNavigations == <<navDocument, loaded, starting, loaders, navStore, unapplied,
                    navApplied, navCall>>
theLocator == <<locDoc, locStore, locGroups, locClosing, act>>
theDownload == <<downKind, slot, canceled, directory, reducer, announced, status,
                 senders, updates, caller, got, downOutcome, closer, begins, ends,
                 source>>
theAuth == <<cookies, storage, at, moved, authClosing, authJob, temporary>>
theCookies == <<jarPc, filter, jar, jarSent, state, jarOutcome, after>>
theContexts == <<isoWant, runtime, isoCall, task, isoContext, entry, cleaner, granted,
                 session, isoTold>>
everything == <<moving, theReads, theBudget, theContent, theActions, theWait,
                theNetWait, theEventStream, theExpectation, theAuxiliary,
                theConfiguration, theGeometry, theNavigations, theLocator, theDownload,
                theAuth, theCookies, theContexts>>

-----------------------------------------------------------------------------
(* A component that does not move is not there.                           *)
NoReads == /\ readDoc = None /\ absent = None /\ known = None /\ readContext = None
           /\ readGroups = None /\ readClosing = None /\ readGuard = None
           /\ readRead = None /\ temp = None /\ file = None /\ saver = None
NoBudget == /\ snap = None /\ stage = None /\ first = None
NoContent == /\ contentPage = None /\ contentShown = None /\ contentPc = None
             /\ low = None /\ high = None
NoActions == /\ layout = None /\ actTop = None /\ actChanges = None /\ era = None
             /\ actGroups = None /\ freeing = None /\ lost = None /\ actHeld = None
             /\ did = None /\ request = None /\ actTodo = None /\ failed = None
             /\ actAnswer = None /\ owned = None /\ point = None /\ object = None
             /\ results = None /\ pressed = None /\ actQueue = None /\ listening = None
             /\ lagged = None /\ popup = None /\ newTab = None /\ actRead = None
NoWait == /\ wait = None /\ waitPage = None /\ waitPc = None /\ wake = None
          /\ waitClock = None /\ waitQueue = None /\ waitAnswer = None
          /\ waitGuard = None /\ previous = None /\ stableSince = None /\ result = None
          /\ waitChanges = None /\ changed = None /\ waitHeld = None
NoNetWait == /\ netWant = None /\ header = None /\ netPublished = None
             /\ inflight = None /\ netPc = None /\ netQueue = None /\ starts = None
             /\ snapshots = None /\ matched = None /\ netAction = None /\ netTold = None
             /\ netClock = None /\ due = None /\ quietSince = None /\ notified = None
             /\ busyAt = None /\ quietFor = None /\ netSent = None
NoEventStream == /\ hub = None /\ stream = None /\ evPage = None /\ evTerminal = None
                 /\ closers = None /\ diag = None /\ bundle = None /\ evPublished = None
                 /\ taken = None
NoExpectation == /\ exKind = None /\ exPage = None /\ exClosing = None /\ exp = None
                 /\ exAction = None /\ exInbox = None /\ handle = None /\ current = None
                 /\ chooser = None /\ exShown = None /\ openings = None
                 /\ closings = None /\ count = None /\ epochs = None /\ claims = None
NoAuxiliary == /\ auxKind = None /\ parent = None /\ waiting = None /\ needs = None
               /\ asked = None /\ chrome = None /\ paused = None /\ configured = None
               /\ auxInbox = None /\ reader = None /\ auxJob = None /\ record = None
               /\ routes = None /\ detached = None /\ detacher = None /\ auxPage = None
               /\ report = None /\ auxTerminal = None /\ repeated = None
NoConfiguration == /\ options = None /\ route = None /\ configApplied = None
                   /\ configTodo = None /\ override = None /\ undone = None
                   /\ live = None /\ configClosing = None
NoGeometry == /\ box = None /\ width = None /\ geoTop = None /\ geoDocument = None
              /\ split = None /\ geoCall = None /\ quad = None /\ fence = None
              /\ used = None /\ geoChanges = None /\ earlier = None /\ returned = None
NoNavigations == /\ navDocument = None /\ loaded = None /\ starting = None
                 /\ loaders = None /\ navStore = None /\ unapplied = None
                 /\ navApplied = None /\ navCall = None
NoLocator == /\ locDoc = None /\ locStore = None /\ locGroups = None
             /\ locClosing = None /\ act = None
NoDownload == /\ downKind = None /\ slot = None /\ canceled = None /\ directory = None
              /\ reducer = None /\ announced = None /\ status = None /\ senders = None
              /\ updates = None /\ caller = None /\ got = None /\ downOutcome = None
              /\ closer = None /\ begins = None /\ ends = None /\ source = None
NoAuth == /\ cookies = None /\ storage = None /\ at = None /\ moved = None
          /\ authClosing = None /\ authJob = None /\ temporary = None
NoCookies == /\ jarPc = None /\ filter = None /\ jar = None /\ jarSent = None
             /\ state = None /\ jarOutcome = None /\ after = None
NoContexts == /\ isoWant = None /\ runtime = None /\ isoCall = None /\ task = None
              /\ isoContext = None /\ entry = None /\ cleaner = None /\ granted = None
              /\ session = None /\ isoTold = None

Init ==
  /\ moving \in {"reads", "budget", "content", "actions", "waits", "netwaits",
                "streams", "expectations", "auxiliary", "configuration", "geometry",
                "navigation", "locator", "download", "auth", "cookies", "contexts"}
  /\ IF moving = "reads" THEN Reads!Init ELSE NoReads
  /\ IF moving = "budget" THEN Budgets!SnapshotInit ELSE NoBudget
  /\ IF moving = "content" THEN Budgets!ContentInit ELSE NoContent
  /\ IF moving = "actions" THEN Actions!Init ELSE NoActions
  /\ IF moving = "waits" THEN Wait!Init ELSE NoWait
  /\ IF moving = "netwaits"
     THEN /\ NetWait!Init
          /\ \A q \in NetRequests \ {q1} : header[q] = [base |-> None, raw |-> None]
     ELSE NoNetWait
  /\ IF moving = "streams" THEN EventStream!Init ELSE NoEventStream
  /\ IF moving = "expectations"
     THEN /\ Expectation!Init
          /\ \A u \in Users \ {u1} : exKind[u] = "dialog"
     ELSE NoExpectation
  /\ IF moving = "auxiliary"
     THEN /\ Routes!AuxiliaryInit
          /\ parent[t1] = Page /\ parent[t2] = t1 /\ auxKind[t2] = "shared" /\ waiting[t2]
          /\ auxKind[t1] # "worker" => needs /\ asked
          /\ needs \/ ~asked
     ELSE NoAuxiliary
  /\ IF moving = "configuration" THEN Routes!RouteInit ELSE NoConfiguration
  /\ IF moving = "geometry"
     THEN /\ PageAction!GeometryInit
          /\ geoTop.page = 0 /\ box[1] = Near /\ box[2] = Far
     ELSE NoGeometry
  /\ IF moving = "navigation" THEN Navigations!Init ELSE NoNavigations
  /\ IF moving = "locator" THEN PageAction!ActionInit ELSE NoLocator
  /\ IF moving = "download" THEN Download!Init ELSE NoDownload
  /\ IF moving = "auth" THEN Storage!AuthInit ELSE NoAuth
  /\ IF moving = "cookies" THEN Storage!CookieInit ELSE NoCookies
  /\ IF moving = "contexts" THEN Contexts!Init ELSE NoContexts

StillBut(component) ==
  /\ UNCHANGED moving
  /\ component # "reads" => UNCHANGED theReads
  /\ component # "budget" => UNCHANGED theBudget
  /\ component # "content" => UNCHANGED theContent
  /\ component # "actions" => UNCHANGED theActions
  /\ component # "waits" => UNCHANGED theWait
  /\ component # "netwaits" => UNCHANGED theNetWait
  /\ component # "streams" => UNCHANGED theEventStream
  /\ component # "expectations" => UNCHANGED theExpectation
  /\ component # "auxiliary" => UNCHANGED theAuxiliary
  /\ component # "configuration" => UNCHANGED theConfiguration
  /\ component # "geometry" => UNCHANGED theGeometry
  /\ component # "navigation" => UNCHANGED theNavigations
  /\ component # "locator" => UNCHANGED theLocator
  /\ component # "download" => UNCHANGED theDownload
  /\ component # "auth" => UNCHANGED theAuth
  /\ component # "cookies" => UNCHANGED theCookies
  /\ component # "contexts" => UNCHANGED theContexts

Next ==
  \/ moving = "reads" /\ Reads!Next /\ StillBut("reads")
  \/ moving = "budget" /\ Budgets!SnapshotNext /\ StillBut("budget")
  \/ moving = "content" /\ Budgets!ContentNext /\ StillBut("content")
  \/ moving = "actions" /\ Actions!Next /\ StillBut("actions")
  \/ moving = "waits" /\ Wait!Next /\ StillBut("waits")
  \/ /\ moving = "netwaits" /\ NetWait!Next /\ StillBut("netwaits")
     /\ \A q \in NetRequests :
          /\ q # q1 => netPublished'[q] \subseteq {"started"}
          /\ netWant.kind = "idle" => netPublished'[q] \subseteq {"started", "ended"}
  \/ moving = "streams" /\ EventStream!Next /\ StillBut("streams")
  \/ moving = "expectations" /\ Expectation!Next /\ StillBut("expectations")
  \/ moving = "auxiliary" /\ Routes!AuxiliaryNext /\ StillBut("auxiliary")
  \/ moving = "configuration" /\ Routes!RouteNext /\ StillBut("configuration")
  \/ moving = "geometry" /\ PageAction!GeometryNext /\ StillBut("geometry")
  \/ moving = "navigation" /\ Navigations!Next /\ StillBut("navigation")
  \/ moving = "locator" /\ PageAction!ActionNext /\ StillBut("locator")
  \/ moving = "download" /\ Download!Next /\ StillBut("download")
  \/ moving = "auth" /\ Storage!AuthNext /\ StillBut("auth")
  \/ moving = "cookies" /\ Storage!CookieNext /\ StillBut("cookies")
  \/ moving = "contexts" /\ Contexts!Next /\ StillBut("contexts")

Spec == Init /\ [][Next]_everything

-----------------------------------------------------------------------------
(* Properties, of the component that moves; each is stated in its module   *)

(* A read answers for the document it was made for, or says so; what is cut*)
(* to a budget fits it, and tells what was left out.                       *)
PageIsReadSoundly ==
  /\ moving = "reads" => Reads!ReadsAreSound
  /\ moving = "budget" => Budgets!SnapshotsFit
  /\ moving = "content" => Budgets!ShowsInBudget

(* A command acts on its element, leaves nothing pressed or forgotten and  *)
(* reports what it did; a point in nested frames is where the element is   *)
(* shown.                                                                  *)
PageIsActedOnSoundly ==
  /\ moving = "actions" => Actions!TabActionsAreSound
  /\ moving = "locator" => PageAction!ActionsAreSound
  /\ moving = "geometry" => PageAction!GeometryIsTrue

(* A wait ends because its condition was met within its time, and leaves   *)
(* nothing behind.                                                         *)
PagesWaitSoundly ==
  /\ moving = "waits" => Wait!WaitsAreSound
  /\ moving = "netwaits" => NetWait!NetworkWaitsAreSound

(* Each subscriber gets its events once and in order, or is told; a dialog *)
(* or chooser goes to one expectation, and each expectation learns its     *)
(* outcome.                                                                *)
PagesTellSoundly ==
  /\ moving = "streams" => EventStream!StreamsAreSound
  /\ moving = "expectations" => Expectation!ExpectationsAreSound

(* A route runs with its configuration or not at all, and the close of the *)
(* page takes back what was applied and accounts for every worker.         *)
RoutesAreConfigured ==
  /\ moving = "auxiliary" => Routes!AuxiliaryTargetsAreSound
  /\ moving = "configuration" => Routes!ConfigurationIsExact

(* A navigation reports a document of its own that has loaded, a created   *)
(* page is known to its frame store, and "not started" is true.            *)
NavigationsAreHonest ==
  /\ moving = "navigation" => Navigations!NavigationsAreHonest

(* Whoever awaits a download learns its one outcome, and the directory it is*)
(* copied from is there until the copy is made.                            *)
DownloadsAreSettled ==
  /\ moving = "download" => Download!DownloadsAreSettled

(* An open BrowserContext has an owner that disposes of it, or is named to *)
(* someone, and a session in use has its own.                              *)
ContextsAreOwned ==
  /\ moving = "contexts" => Contexts!ContextsAreOwned

(* A state is imported, exported or deleted exactly, or the error says how *)
(* far it came.                                                            *)
StateIsTold ==
  /\ moving = "auth" => Storage!ImportIsTold
  /\ moving = "cookies" => Storage!CookiesAreRight
=============================================================================
