SPECIFICATION HubSpec
CONSTANTS
    c1 = c1
    c2 = c2
    Client = {c1, c2}
    Topic = {"events"}
    Filter <- MCFilter
    Payload <- OnePayload
    Wants <- SharedWants
    MaxAsks = 1
    MaxInvalid = 1
    MaxPayloads = 1
CHECK_DEADLOCK FALSE
INVARIANTS
    HubTypeOK
    OneDelete
    OnlyAsked
PROPERTIES
    ListsStill
    ClientsEnd
    FanOutEnds
