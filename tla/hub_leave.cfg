SPECIFICATION HubSafety
CONSTANTS
    c1 = c1
    c2 = c2
    Client = {c1, c2}
    Topic = {"blocks"}
    Filter <- NoFilters
    Payload <- OnePayload
    Wants <- PairWants
    MaxAsks = 1
    MaxInvalid = 0
    MaxPayloads = 1
CHECK_DEADLOCK FALSE
INVARIANT PlacesHold
