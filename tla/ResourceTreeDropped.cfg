\* A default session whose handle may be dropped.
SPECIFICATION Spec
CONSTANTS
  Pages = {p1}
  Sessions <- Dropped
  NoPage = NoPage
INVARIANTS
  NoSilentOrphan
CHECK_DEADLOCK FALSE
