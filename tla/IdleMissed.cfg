\* Two requests, a window of two ticks in a timeout of three.
SPECIFICATION Spec
CONSTANTS
  Requests = {q1, q2}
  Predicates = {{"method"}}
  Window = 2
  Timeout = 3
  MaxClock = 3
  MaxQueue = 1
  None = None
INVARIANT IdleIsFound
CHECK_DEADLOCK FALSE
