SPECIFICATION Spec
CONSTANTS
    MaxId = 5
    MaxReorgs = 2
    MaxFaults = 0
    InitHead = 3
    Depth = 2
    Lag = 1
    From = 1
    BatchSize = 2
    QuietStart = TRUE
    CommitMayFail = FALSE
    Lagging = FALSE
    Tx <- MCTx
    Log <- MCLog
    Transfer <- MCTransfer
    TxsOf <- MCTxsOf
    LogsOf <- MCTxsOf
    TxOf <- MCTxOf
    ShortTopics = {}
CHECK_DEADLOCK FALSE
INVARIANTS
    TypeOK
    BalancesExact
PROPERTIES
    EventuallyCanonical
    BalancesKeepUp
