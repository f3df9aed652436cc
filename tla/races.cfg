SPECIFICATION Safety
CONSTANTS
    MaxId = 2
    MaxReorgs = 2
    MaxFaults = 1
    InitHead = 1
    Depth = 2
    Lag = 1
    From = 1
    BatchSize = 2
    QuietStart = FALSE
    CommitMayFail = TRUE
    Lagging = FALSE
    Tx <- MCTx
    Log <- MCLog
    Transfer <- MCTransfer
    TxsOf <- MCTxsOf
    LogsOf <- MCTxsOf
    TxOf <- MCTxOf
    ShortTopics = {}
CHECK_DEADLOCK FALSE
INVARIANTS
    PublishedIsStored
    StoredBlockComplete
PROPERTIES
    StrayRowsCrossed
    ImplementsBlockStore
    StreamFaithful
    DeletesOnlyStale
