CONSTANTS
    Sessions = 2
    MaxRequests = 1
    MaxResponses = 1
    StopsEarly = TRUE
    Aborts = {"replaced", "unreplaced"}
    Payloads <- MCPayloads
SPECIFICATION FairSpec
PROPERTIES
    CloseEnds
    RequestsArrive
    ResponsesArrive
    FirstSessionStarts
CHECK_DEADLOCK FALSE
