CONSTANTS
    Runs = {r1, r2, r3, r4}
    Kind = "future"
    InitialSize = 2
    MaxOutstanding = 2
    Aborts = "careful"
    CanDrop = TRUE
    Faults = {"create", "unexpected", "post"}
    MaxItems = 1
    NullItems = {}
SPECIFICATION MessageSpec
INVARIANTS
    AnswersAreOwn
    Exclusive
    AvailableAfterDone
    AvailableIsAlive
    RunningIsAbortable
PROPERTIES
    NoStray
    ImplementsLease
CHECK_DEADLOCK FALSE
