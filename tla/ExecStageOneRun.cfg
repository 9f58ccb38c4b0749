SPECIFICATION Spec
CONSTANTS
    NumStages = 2
    NumPaths <- PathsThreadedBoth
    MaxRuns = 1
    Main = Main
    TestRuns = 2
    MaxSteps = 5
INVARIANTS
    TypeOK
    NoOverlap
    NoRaceOnShutdown
    CountsAgree
    ComparisonIsFair
    NoneLeftBehind
PROPERTIES
    Termination
    ForkJoinSpec
