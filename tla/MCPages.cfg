\* Reads: two documents, two savers.  Budgets: below, at and above what a
\* snapshot needs.  Actions: two elements, one change, one foreign event.
\* Network waits: q1 with headers and two facts queued at most.  Streams: one
\* subscriber beside the diagnostics, two events.  Expectations: u1 of either
\* kind beside one of a dialog.  Workers: one with a shared worker of its own.
\* Geometry: three frames, two changes.  Navigation: one call among three
\* documents.  Contexts: two calls, one permission.  Locator actions: one,
\* three documents.  Downloads: two callers, one download, both kinds of owner.
\* Authentication: two origins, two pages.
SPECIFICATION Spec
CONSTANTS
  None = None
  MaxVersions = 2
  MaxUses = 2
  Savers = {s1, s2}
  SnapshotBudgets = {18, 30, 80}
  Texts = {0, 20}
  Envelope = 12
  Reason = 9
  TextSize = 3
  ModeTexts = {3}
  ModeElements = 2
  ElementSizes = {4, 17}
  MaxElements = 3
  TokenBudgets = {16, 18, 19, Unlimited}
  Markers = 38
  Empty = 30
  Unlimited = Unlimited
  NodeA = NodeA
  NodeB = NodeB
  Modifiers = {"Control", "Shift"}
  Nothing = Nothing
  WaitTimeout = 4
  Stability = 2
  MaxWaitClock = 5
  MaxWaitChanges = 2
  NetRequests = {q1, q2}
  q1 = q1
  Predicates = {{"method", "status"}, {"header"}}
  Window = 2
  IdleTimeout = 3
  MaxQueue = 1
  MaxNetClock = 3
  Streams = {s}
  Sizes = {0, 3}
  EventBudget = 2
  ByteBudget = 3
  CloseReasons = {"ScopeClosed"}
  Errors = {e1}
  Users = {u1, u2}
  u1 = u1
  MaxDialogs = 1
  Targets = {t1, t2}
  TargetKinds = {"worker", "shared", "other", "malformed", "unnamed", "blank"}
  Page = Page
  t1 = t1
  t2 = t2
  Main = m
  RouteFrames = {f1}
  OptionSets = {{}, {"DeviceMetrics"}, {"DeviceMetrics", "UserAgent"}, {"Locale", "ExtraHttpHeaders"}, {"Timezone", "Geolocation"}, {"IgnoreCertificateErrors"}}
  Depth = 3
  Widths = {2, 4}
  Navs = {a}
  IsoCalls = {i1, i2}
  MaxPermissions = 1
  MaxDocuments = 3
  MaxUrls = 2
  Acts = {b}
  MaxClicks = 2
  Callers = {d1, d2}
  Guids = {g1}
  Origins = {o1, o2}
  Pages = {p1, p2}
  Own = Own
  Entry = Entry
  Stored = {k1, k2}
  Filed = {k2, k3}
  Nowhere = Nowhere
  Sites = {site}
  MaxJar = 2
  Bad = Bad
  Opaque = Opaque
INVARIANTS
  PageIsReadSoundly
  PageIsActedOnSoundly
  PagesWaitSoundly
  PagesTellSoundly
  RoutesAreConfigured
  NavigationsAreHonest
  DownloadsAreSettled
  ContextsAreOwned
  
\* Every component may end for good.
CHECK_DEADLOCK FALSE
