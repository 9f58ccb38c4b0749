SPECIFICATION Spec
CONSTANTS
    NumBlocks = 4
    Aspect = {"type", "size"}
    Value = {1, 2}
    Kinds <- AllKinds
    Users <- SharingUsers
    SharedPorts = TRUE
INVARIANT BuffersJoined
