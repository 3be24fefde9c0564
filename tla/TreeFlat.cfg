SPECIFICATION FairSpec
CONSTANTS
    n1 = n1
    n2 = n2
    n3 = n3
    n4 = n4
    t1 = t1
    t2 = t2
    root = root
    Node = {n1, n2}
    Tree = {root}
    Root = root
    Parent <- FlatParent
    Host <- FlatHost
    Endpoint = FALSE
    FileBudget = 16
    RmPolicy <- NoRmPolicy
    MaxWrites = 0
    Tdp = 18
    MinPower = 8
    MaxPower = 18
    Delta = 4
    MinDelta = 2
    MaxStep = 6
INVARIANTS
    TypeOK
    NoneOutOfSync
    LockStep
    BudgetKept
PROPERTY BarrierSpec
