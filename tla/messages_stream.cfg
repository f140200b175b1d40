CONSTANTS
    Runs = {r1, r2, r3}
    Kind = "stream"
    InitialSize = 1
    MaxOutstanding = 3
    Aborts = "any"
    CanDrop = TRUE
    Faults = {"post"}
    MaxItems = 2
    NullItems = {}
SPECIFICATION MessageSpec
INVARIANTS
    MessageTypeOK
    OriginalsDeliver
    CompleteMeansAll
SYMMETRY Symmetry
CHECK_DEADLOCK FALSE
