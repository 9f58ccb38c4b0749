SPECIFICATION Spec
CONSTANTS
    Files <- ManyFiles
    Block = {1, 2}
    Counts = {2, 100}
    Users <- AllUsers
    Garbage = Garbage
    Nobody = Nobody
INVARIANTS
    RegisteredOnce
    TwoLevels
    SameTypeSameClass
    FitsItsSignal
    CrashesForAReason
    LeaksForAReason
