CONSTANTS
    Sessions = 2
    MaxRequests = 2
    MaxResponses = 2
    StopsEarly = TRUE
    Aborts = {"replaced", "unreplaced"}
    Payloads <- MCPayloads
SPECIFICATION Spec
INVARIANTS
    TypeOK
    RequestsKeepOrder
    ResponsesKeepOrder
    AbortIsolates
    OfferedOnlyWhenClosed
PROPERTY ImplementsDuplex
CHECK_DEADLOCK FALSE
