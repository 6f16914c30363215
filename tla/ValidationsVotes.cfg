SPECIFICATION Spec
CONSTANTS
  Horizon = 256
  Nodes = {n1}
  Ledgers <- MCRivals
  TrustedSets = {{}, {n1}}
  Fullness = {TRUE}
  Skews = {0}
  Queried <- MCRivals
  EARLY = 1
  WALL = 1
  SET_EXPIRES = 3
  MayStop = TRUE
  MaxTime = 5
  MaxInFlight = 1
INVARIANTS
  NoDoubleVotes
  
CHECK_DEADLOCK FALSE
