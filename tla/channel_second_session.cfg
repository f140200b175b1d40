CONSTANTS
    Sessions = 2
    MaxRequests = 1
    MaxResponses = 1
    StopsEarly = FALSE
    Aborts = {}
    Payloads <- OnlyPlain
SPECIFICATION FairSpec
PROPERTY SessionStarts
CHECK_DEADLOCK FALSE
