SPECIFICATION Spec
CONSTANTS
    NumStages = 1
    NumPaths <- PathsPair
    MaxRuns = 2
    Main = Main
    TestRuns = 30
    MaxSteps = 1
PROPERTY Termination
CHECK_DEADLOCK FALSE
