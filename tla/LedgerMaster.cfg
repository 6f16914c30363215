SPECIFICATION FairSpec
CONSTANTS
  v1 = v1
  v2 = v2
  Validators = {v1, v2}
  Quorum = 1
  Ledgers <- MCLedgers
  Signed <- MCSigned
  Built <- MCBuilt
  Stored <- MCStored
  Rows <- MCRows
  MAX_LEDGER_GAP = 2
  HistorySize = 0
  MaxCalls = 2
  MaxRounds = 1
  MaxFailures = 0
PROPERTIES
  PublishedInOrder
  ValidatedMovesForward
  ValidatedIsPublished
  QuorumIsNoticed
CHECK_DEADLOCK FALSE
