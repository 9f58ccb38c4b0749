SPECIFICATION Spec
CONSTANTS
    Word = 1073741824
    KnownCodes <- MCCodes
    TurboFrames <- MCTurboFrames
    Library <- MCLibrary
    MaxBlocks = 7
    MaxSteps = 3
    SequenceLength = 42
CHECK_DEADLOCK FALSE
INVARIANTS
    Restored
    WrittenAsDeclared
    
