SPECIFICATION Spec
CONSTANTS
  root = root
  leaf = leaf
  Nodes = {root, leaf}
  State <- MCState
  Dirs = {"d1", "d2", "d3", "d4"}
  DeleteInterval = 1
  DeleteBatch = 1
  Grants <- MCGrants
  MaxCrashes = 1
  MaxSick = 1
INVARIANTS
  RestartFindsBackends
  
  KeptInterval
PROPERTIES
  StopEnds
CHECK_DEADLOCK FALSE
