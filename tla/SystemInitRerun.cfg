SPECIFICATION Spec
CONSTANTS
    NumBlocks = 7
    MaxPorts = 2
    MaxRuns = 2
    Systems <- ChainAndFork
PROPERTY Initializes
