SPECIFICATION Spec
CONSTANTS
  Horizon = 256
  Nodes = {n1}
  Ledgers <- MCLedgers
  TrustedSets = {{n1}}
  Fullness = {TRUE}
  Skews = {0, 1}
  Queried = {}
  EARLY = 1
  WALL = 2
  SET_EXPIRES = 4
  MayStop = FALSE
  MaxTime = 2
  MaxInFlight = 1
INVARIANT
  SupportIsCurrent
CHECK_DEADLOCK FALSE
