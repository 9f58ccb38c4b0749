SPECIFICATION Spec
CONSTANTS
    NumBlocks = 4
    Aspect = {"type", "size"}
    Value = {1, 2}
    Kinds <- AllKinds
    Users <- OrdinaryUsers
    SharedPorts = FALSE
INVARIANTS
    RunsIfConsistent
    BuffersJoined
    SamplesDelivered
    NoRace
PROPERTY SoundSystemRuns
