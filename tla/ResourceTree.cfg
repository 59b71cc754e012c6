\* Two pages of a default session whose handle is kept, or of an isolated one.
SPECIFICATION FairSpec
CONSTANTS
  Pages = {p1, p2}
  Sessions <- Polled
  NoPage = NoPage
INVARIANTS
  CleanupFollowsOperations
  OwnershipRetained
  CompleteCloseIsHonest
  NoSilentOrphan
PROPERTIES
  RuntimeCloseReturns
  DestroyedPageCloses
CHECK_DEADLOCK FALSE
