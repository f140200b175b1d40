CONSTANTS
    Runs = {r1, r2, r3}
    Kind = "future"
    InitialSize = 1
    MaxOutstanding = 3
    Aborts = "never"
    CanDrop = FALSE
    Faults = {}
    MaxItems = 1
    NullItems = {}
SPECIFICATION MessageSpec
INVARIANT AnswersAreOwn
CHECK_DEADLOCK FALSE
