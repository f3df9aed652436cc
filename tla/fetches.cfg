SPECIFICATION FetchesSpec
CONSTANTS
    Batch = {f1, f2}
    Priority = {p}
    Interval = 2
    Budget = 10
    Pauses = {1, 5}
    MaxRequest = 1
    Latest = 1
    Horizon = 16
CHECK_DEADLOCK FALSE
INVARIANTS
    EndsInTime
    RetriedInBudget
PROPERTIES
    RateKept
    CallsEnd
