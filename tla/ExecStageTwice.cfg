SPECIFICATION Spec
CONSTANTS
    NumStages = 1
    NumPaths <- PathsPair
    MaxRuns = 1
    Main = Main
    TestRuns = 30
    MaxSteps = 34
INVARIANT RunsNTimes

