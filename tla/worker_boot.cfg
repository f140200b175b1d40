CONSTANTS
    Heads <- MCHeads
    MaxEvents = 3
    Faults = {"create", "script", "load", "init"}
    Sources <- MCSources
    Typical <- Typicals
SPECIFICATION ProgramSpec
INVARIANTS
    TypeOK
    HandledInOrder
    LostOnlyBehindPanic
    ExpandsAsWritten
    DocumentedExpands
PROPERTY EventuallyHandled
CHECK_DEADLOCK FALSE
