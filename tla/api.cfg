SPECIFICATION ApiSpec
CONSTANTS
    MaxId = 2
    MaxReorgs = 1
    Tx <- MCTx
    Log <- MCLog
    Transfer = {}
    TxsOf <- MCTxsOf
    LogsOf <- MCLogsOf
    TxOf <- MCTxOf
    Absent = Absent
    Malformed = Malformed
    TooLarge = TooLarge
    TimeOf <- MCTimeOf
    SenderOf <- MCSender
    RecipientOf <- MCRecipient
    IndexOf <- MCIndexOf
    EmitterOf <- MCEmitter
    TopicsOf <- MCTopics
    Word = 16
    OffsetDefault = 3
    OffsetMax = 2
    RangeMaxTime = 5
    MaxTopics = 4
    Requests <- MCRequests
    Incoming <- MCIncoming
    MaxErrors = 1
INVARIANTS
    ApiTypeOK
    AnswersExact
    NotFoundHonest
    OwnTransactions
    OwnEvents
    NullsJustified
PROPERTIES
    RequestsEnd
