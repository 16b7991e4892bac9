SPECIFICATION Spec
CONSTANTS
  Admins = {a1, a2}
  Root = a1
  TokenInUse = FALSE
  Requests = {p1, p2}
  MaxFailedAttempts = 2
  Pairs <- MCPairs
  MaxTime = 1
  None = None
SYMMETRY Symmetry
INVARIANT AdminInv
PROPERTIES OnlyRacesEmpty RightsMoveByRequest RefusedStaysRefused
CONSTRAINT Bound
CHECK_DEADLOCK FALSE
