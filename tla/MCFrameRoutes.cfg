SPECIFICATION Spec
CONSTANTS
  top = top
  outer = outer
  inner = inner
  A = A
  B = B
  page = page
  Free = Free
  Frames = {top, outer, inner}
  Main = top
  Dynamic = {inner}
  ParentOf <- MCParentOf
  Sessions = {A, B}
  MainSession = page
  MaxFaults = 1
  MaxChoosers = 1
  DebugAssertions = FALSE
SYMMETRY Symmetric
INVARIANTS
  RoutesServeTheirFrames
CHECK_DEADLOCK FALSE
