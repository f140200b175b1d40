CONSTANTS
    Runs = {r1, r2, r3, r4}
    Kind = "future"
    InitialSize = 2
    MaxOutstanding = 4
    Aborts = "any"
    CanDrop = TRUE
    Faults = {"create", "unexpected", "post"}
SPECIFICATION Spec
INVARIANTS
    TypeOK
    BusySlotIsOwed
    PoolSizeBounded
    OriginalExclusive
    GenerationsDistinct
    WorkersAccountedFor
PROPERTY AbortSparesIdle
SYMMETRY Symmetry
CHECK_DEADLOCK FALSE
