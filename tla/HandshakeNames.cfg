SPECIFICATION Spec
CONSTANTS
    NumRank = 2
    Cpu = {0, 1, 2}
    CpuSets <- Own
    ChunkCounts <- TwoAndThree
    ImpatientSets <- Nobody
    CtlFails = FALSE
CHECK_DEADLOCK FALSE
INVARIANTS
    SameTrips
