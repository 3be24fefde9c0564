SPECIFICATION Spec
CONSTANTS
    Register <- Regs
    MsrControls <- Msr
    SstControls <- Sst
    InMemory <- Memory
    NameOf <- Names
    RegistersOf <- Writes
    MaskOf <- Masks
    PartsOf <- Ask
    EnableOf <- Enable
    Refusable = {"PL1_ENABLE", "RMID"}
    BatchLimit = 1
    FirstBits <- AllSame
    MaxCall = 6
    MaxFail = 1
CHECK_DEADLOCK FALSE
INVARIANTS
    RestoreUndoes
PROPERTIES
    BatchExact
