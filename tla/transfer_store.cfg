CONSTANTS
    Objects = {o1, o2}
    Impls <- MCImpls
    IdCount = 7
    MaxMessages = 3
    MaxFields = 3
    MayNest = TRUE
    MayFail = TRUE
SPECIFICATION Spec
INVARIANTS
    TypeOK
    OwnObjects
    NothingCopied
    Intact
SYMMETRY Symmetry
CHECK_DEADLOCK FALSE
