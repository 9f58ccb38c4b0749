SPECIFICATION ScriptSpec
CONSTANTS
    Declarations <- BlockParameters
    Arguments = {}
    MaxArgs = 3
    Names = {1, 2}
    Trees <- Trees1
    Expressed <- Expressions1
    Arrays <- Arrays1
    MaxAssignments = 2
    Word = 65536
INVARIANTS
    AddedIfAcceptable
    AsWritten
    MemoryIntact
    StopsForAReason
    RunsAsWritten
