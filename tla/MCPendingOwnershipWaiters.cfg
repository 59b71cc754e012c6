\* Two owners may wait in cleanup() beside the closer.
SPECIFICATION FairSpec
CONSTANTS
  t1 = t1
  t2 = t2
  t3 = t3
  c1 = c1
  Tokens = {t1, t2}
  Resources = {t1, t2}
  ResourceOf <- OwnResource
  Explicit = {t1, t2}
  Unfenced = {}
  Closers = {c1}
  NoToken = NoToken
PROPERTIES
  EveryCallReturns
CHECK_DEADLOCK FALSE
