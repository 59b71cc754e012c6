\* The default session: three calls with either options.  The gate: three
\* operations, two callers.  A confirmed close: one call, two events of other
\* targets.  Downloads: a page, one caller.  Binding: one isolated session, one
\* host, a request beside two monitors, one restart.  Dialogs: one request.
SPECIFICATION ServicesSpec
CONSTANTS
  Calls = {c1, c2, c3}
  Options = {plain, granting}
  Granting = {granting}
  NoCall = NoCall
  Ops = {o1, o2, o3}
  Callers = {d1, d2}
  NoCaller = NoCaller
  Closers = {e1}
  Unrelated = 2
  Kinds = {"default"}
  Savers = {s1}
  Guids = {g1}
  None = None
  Default = Default
  Named = {n}
  Hosts = {h}
  Requests = {r1}
  Conns = {1, 2}
  MaxSessions = 1
  MaxContexts = 2
  MaxRestarts = 1
  Nobody = Nobody
  Answerers = {a1}
  Policies = {"manual", "auto"}
  MaxDialogs = 2
  MaxPolicies = 2
INVARIANTS
  OneDefaultSession
  PermissionsAreReset
  OneCloseOneReport
  SuccessMeansGone
PROPERTIES
  RuntimeCloseReturns
  CloseReturns
  ImplementsDrainedClose
  CallsEnd
  LossIsNoticed
  
\* Every component may end for good.
CHECK_DEADLOCK FALSE
