SPECIFICATION Spec
CONSTANTS
  Horizon = 256
  Nodes = {n1, n2}
  Ledgers <- MCLedgers
  TrustedSets = {{n1, n2}}
  Fullness = {TRUE}
  Skews = {0, 1}
  Queried = {}
  EARLY = 1
  WALL = 2
  SET_EXPIRES = 4
  MayStop = FALSE
  MaxTime = 1
  MaxInFlight = 1
INVARIANTS
  TrustedCounted
  PendingIsNewest
PROPERTY
  SupportMovesForward
SYMMETRY Symmetry
CHECK_DEADLOCK FALSE
