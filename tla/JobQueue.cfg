SPECIFICATION FairSpec
CONSTANTS
  client = client
  path = path
  fetch = fetch
  none = none
  w1 = w1
  w2 = w2
  a1 = a1
  a2 = a2
  Types = {client, path, fetch}
  limit <- MCLimit
  priority <- MCPriority
  ClientType = client
  PathType = path
  NoType = none
  Workers = {w1, w2}
  Threads = {a1, a2}
  MaxJobs = 5
INVARIANTS
  WorkIsClaimed
  TokensMatchJobs
  
  
PROPERTIES
  
  JobsAreRun
CHECK_DEADLOCK FALSE
