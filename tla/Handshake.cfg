SPECIFICATION FairSpec
CONSTANTS
    NumRank = 3
    Cpu = {0, 1, 2}
    CpuSets <- AnyAffinity
    ChunkCounts <- OneOrTwo
    ImpatientSets <- NobodyOrAnybody
    CtlFails = TRUE
CHECK_DEADLOCK FALSE
INVARIANTS
    NoStateMissed
    MapIsComplete
    NobodyFills
    NamesComplete
PROPERTIES
    EverybodyLeaves
