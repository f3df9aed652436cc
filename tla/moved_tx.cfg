SPECIFICATION Spec
CONSTANTS
    MaxId = 3
    MaxReorgs = 1
    MaxFaults = 0
    InitHead = 2
    Depth = 2
    Lag = 2
    From = 1
    BatchSize = 2
    QuietStart = TRUE
    CommitMayFail = FALSE
    Lagging = FALSE
    Tx <- MCTx
    Log <- MCLog
    Transfer <- MCTransfer
    TxsOf <- MCTxsOfMoved
    LogsOf <- MCLogsOfMoved
    TxOf <- MCTxOfMoved
    ShortTopics = {}
CHECK_DEADLOCK FALSE
PROPERTY EventuallyComplete
