SPECIFICATION Spec
CONSTANTS
    NumBlocks = 5
    MaxPorts = 2
    MaxRuns = 2
    Systems <- AllSystems
INVARIANTS
    NothingLost
    OrderRespected
    ChainsCombined
    StagesNeeded
PROPERTY Initializes
