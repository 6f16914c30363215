SPECIFICATION Spec
CONSTANTS
  v1 = v1
  v2 = v2
  Validators = {v1, v2}
  Quorum = 1
  Ledgers <- MCLedgers
  Signed <- MCSigned
  Built <- MCBuilt
  Stored <- MCStored
  Rows <- MCRows
  MAX_LEDGER_GAP = 1
  HistorySize = 4
  MaxCalls = 2
  MaxRounds = 0
  MaxFailures = 1
INVARIANTS
  HistoryIsLinked
  CompleteIsSaved
SYMMETRY Symmetry
CHECK_DEADLOCK FALSE
