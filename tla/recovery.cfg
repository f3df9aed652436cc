SPECIFICATION Spec
CONSTANTS
    MaxId = 4
    MaxReorgs = 0
    MaxFaults = 2
    InitHead = 3
    Depth = 0
    Lag = 1
    From = 1
    BatchSize = 2
    QuietStart = FALSE
    CommitMayFail = TRUE
    Lagging = FALSE
    Tx <- MCTx
    Log <- MCLog
    Transfer <- MCTransfer
    TxsOf <- MCTxsOf
    LogsOf <- MCTxsOf
    TxOf <- MCTxOf
    ShortTopics = {2}
CHECK_DEADLOCK FALSE
INVARIANTS
    CursorCovered
    CreditsBounded
PROPERTIES
    BackfillCompletes
    ShutdownCompletes
    EndsInSteps
