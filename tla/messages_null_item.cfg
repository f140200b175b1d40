CONSTANTS
    Runs = {r1, r2}
    Kind = "stream"
    InitialSize = 1
    MaxOutstanding = 1
    Aborts = "never"
    CanDrop = FALSE
    Faults = {}
    MaxItems = 2
    NullItems = {1}
SPECIFICATION MessageSpec
INVARIANT CompleteMeansAll
CHECK_DEADLOCK FALSE
