SPECIFICATION FairSpec
CONSTANTS
    r1 = r1
    r2 = r2
    Region = {r1, r2}
    NoRegion = NoRegion
    Garbled = Garbled
    MaxRecord = 3
    MaxCalls = 7
    MaxDepth = 2
    MaxTime = 1
INVARIANTS
    TypeOK
    ShortRegionsIndexed
    RegionTableFits
    ControllerSurvives
    ControllerInStep
    CompletionsConserved
    RuntimeConserved
CHECK_DEADLOCK FALSE
PROPERTY LedgerSpec
