SPECIFICATION Spec
CONSTANTS
  v1 = v1
  v2 = v2
  s1 = s1
  s2 = s2
  Validators = {v1, v2}
  Servers = {s1, s2}
  Host <- MCHost
  Ledgers <- MCLedgers
  Lists <- MCLists
  FirstLists <- MCFirstLists
  MaxChanges = 1
INVARIANTS
  NoDoubleSigning
PROPERTIES
  ImplementsAgreement
CHECK_DEADLOCK FALSE
