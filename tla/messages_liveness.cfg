CONSTANTS
    Runs = {r1, r2, r3}
    Kind = "callback"
    InitialSize = 2
    MaxOutstanding = 2
    Aborts = "never"
    CanDrop = FALSE
    Faults = {}
    MaxItems = 2
    NullItems = {}
SPECIFICATION FairMessageSpec
PROPERTIES
    EveryRunAnswered
    SlotsComeBack
CHECK_DEADLOCK FALSE
