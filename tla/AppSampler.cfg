SPECIFICATION Spec
CONSTANTS
    NumProcess = 2
    Region <- TwoRegions
    Proxy = "MPI_Barrier"
    Filters <- ThreeFilters
    MaxCall = 5
CHECK_DEADLOCK FALSE
INVARIANTS
    NothingThrows
    CountsConserved
    EpochsCounted
