SPECIFICATION Spec
CONSTANTS
  Horizon = 256
  Ledgers <- MCLedgers
  Counts = {1, 2}
  MaxSupport = 5
  Reach = 1
INVARIANTS
  TrieIsCanonical
  MismatchIsFirstDifference
  SwitchNeedsSupport
  PreferredIsSafe
PROPERTY
  CountsValidators
