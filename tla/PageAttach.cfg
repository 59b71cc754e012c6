\* Two expectations and an attach_page call for one popup.
SPECIFICATION FairSpec
CONSTANTS
  Targets = {t1}
  Expectations = {e1, e2}
  Attachers = {a1}
  Kinds = {"Default", "Isolated"}
  Bound = 2
  Nobody = Nobody
INVARIANTS
  PopupsAreAccounted
PROPERTIES
  ClosesReturn
  AbortedPopupIsClosed
CHECK_DEADLOCK FALSE
