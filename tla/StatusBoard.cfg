SPECIFICATION Spec
CONSTANTS
    Rank <- TwoRanks
    Cpu <- TwoCpus
    CpusOf <- OneEach
    HintOf <- TwoRegions
    WorkUnits = {2}
    MaxDepth = 2
    MaxCall <- FirstCalls
    MaxTime = 2
CHECK_DEADLOCK FALSE
INVARIANTS
    OwnerKept
    HintMatchesStack
    HintTimeConserved
PROPERTIES
    RestIsSeen
