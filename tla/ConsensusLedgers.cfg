SPECIFICATION FairSpec
CONSTANTS
    p1 = p1  p2 = p2  t1 = t1  t2 = t2  L1 = L1  L2 = L2
    Peers = {p1, p2}
    Txs = {t1}
    Ledgers = {L1, L2}
    LedgerInfo <- MCTwoLedgers
    NoResult = NoResult
    SeqLeave = 9
    RecentLimit = 2
    Resolutions <- MCResolutions
    proposeFRESHNESS = 2
    proposeINTERVAL = 2
    ledgerIDLE_INTERVAL = 1
    ledgerMIN_CONSENSUS = 1
    ledgerMAX_CONSENSUS = 1
    ledgerMIN_CLOSE = 1
    avMIN_CONSENSUS_TIME = 2
    LongGap = 100
    Genesis = L1
    PeerMessages <- MCLedgerMessages
    TrustChanges <- MCTrustChanges
    RoundDelays = {1}
    PauseInputs <- MCPause
    MaxTime = 4
    QuietTime = 2
    MaxDepth = 1
INVARIANTS
    PositionsOfThisRound
    WrongLedgerKnown
    ProposalsInOrder
 
