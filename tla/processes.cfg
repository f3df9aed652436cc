SPECIFICATION ProcessesSpec
CONSTANTS
    Unset = Unset
    Empty = Empty
    Malformed = Malformed
    Files <- MCFiles
    Environ <- MCEnviron
    Migrations = 2
    Buffer = 2
    MaxRequests = 1
    MaxOutages = 2
CHECK_DEADLOCK FALSE
PROPERTIES
    BothRun
    StopsWhenTold
    StreamFlows
