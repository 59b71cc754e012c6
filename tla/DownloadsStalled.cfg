\* An isolated session, one caller, one download.
SPECIFICATION Spec
CONSTANTS
  Kinds = {"isolated"}
  Callers = {d1}
  Guids = {g1}
  None = None
PROPERTIES
  EveryCloseReturns
CHECK_DEADLOCK FALSE
