SPECIFICATION HubSafety
CONSTANTS
    c1 = c1
    c2 = c2
    Client = {c1}
    Topic = {"blocks"}
    Filter <- NoFilters
    Payload <- OnePayload
    Wants <- OneWants
    MaxAsks = 1
    MaxInvalid = 0
    MaxPayloads = 1
CHECK_DEADLOCK FALSE
INVARIANT RemovedFromAll
