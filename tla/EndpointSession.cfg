SPECIFICATION FairSpec
CONSTANTS
    NumJob = 2
    Kind <- TwoKinds
    NumPolicy <- PolicyCounts
    NumSample <- SampleCounts
    MaxOpen = 2
CHECK_DEADLOCK FALSE
INVARIANTS
    TypeOK
    SizesMatch
    HostnamesReadable
PROPERTIES
    WaitsEnd
    UpdateServes
