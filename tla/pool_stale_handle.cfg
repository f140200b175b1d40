CONSTANTS
    Runs = {r1, r2, r3, r4}
    Kind = "future"
    InitialSize = 2
    MaxOutstanding = 2
    Aborts = "any"
    CanDrop = FALSE
    Faults = {}
SPECIFICATION Spec
INVARIANT ArmedHandleIsCurrent
CHECK_DEADLOCK FALSE
