\* Every order of registrations, cleanups, cancellations and a close.
SPECIFICATION FairSpec
CONSTANTS
  t1 = t1
  t2 = t2
  t3 = t3
  c1 = c1
  Tokens = {t1, t2, t3}
  Resources = {t1, t2}
  ResourceOf <- SharedResource
  Explicit = {t1}
  Unfenced = {t3}
  Closers = {c1}
  NoToken = NoToken
INVARIANTS
  OneDriver
  ClosedMeansCleaned
  NoFailureLost
PROPERTIES
  CleanupAllReturns
CHECK_DEADLOCK FALSE
