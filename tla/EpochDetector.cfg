SPECIFICATION Spec
CONSTANTS
    Region = {r1, r2, r3}
    HistorySize = 6
    BasePeriod = 2
    MinPeriod = 2
    StableHalves = 2
    UnstableHalves = 3
    ByName = TRUE
    MaxFree = 7
    MaxRecord = 26
    Repeats = {2, 3, 4}
    SettleTime = 12
SYMMETRY AnyRegion
CHECK_DEADLOCK FALSE
INVARIANTS
    DistancesExact
    PeriodIsPattern
    PeriodFound
PROPERTIES
    EpochEveryPeriod
    EpochsApart
