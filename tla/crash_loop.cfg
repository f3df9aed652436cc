SPECIFICATION Spec
CONSTANTS
    MaxId = 2
    MaxReorgs = 1
    MaxFaults = 1
    InitHead = 2
    Depth = 1
    Lag = 1
    From = 1
    BatchSize = 2
    QuietStart = FALSE
    CommitMayFail = FALSE
    Lagging = FALSE
    Tx <- MCTx
    Log <- MCLog
    Transfer <- MCTransfer
    TxsOf <- MCTxsOf
    LogsOf <- MCTxsOf
    TxOf <- MCTxOf
    ShortTopics = {}
CHECK_DEADLOCK FALSE
PROPERTY BackfillReachesHead
