SPECIFICATION BalancesSpec
CONSTANTS
    MaxId = 5
    MaxReorgs = 0
    MaxFaults = 2
    Lag = 1
    Tx <- MCTransfer
    Log <- MCTransfer
    Transfer <- MCTransfer
    TxsOf <- MCLogsOf
    LogsOf <- MCLogsOf
    TxOf <- MCTxOf
    ShortTopics = {}
    Base = 16
    LogData <- MCLogData
    Undecodable = Undecodable
    Meant <- MCMeant
CHECK_DEADLOCK FALSE
INVARIANTS
    TableIsLedger
PROPERTIES
    TransfersCounted
