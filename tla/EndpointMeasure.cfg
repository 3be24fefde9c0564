SPECIFICATION FairSpec
CONSTANTS
    n1 = n1
    n2 = n2
    n3 = n3
    n4 = n4
    t1 = t1
    t2 = t2
    root = root
    Node = {n1, n2}
    Tree = {root}
    Root = root
    Parent <- FlatParent
    Host <- FlatHost
    Endpoint = TRUE
    FileBudget = 8
    RmPolicy <- TwoBudgets
    MaxWrites = 1
    Tdp = 12
    MinPower = 8
    MaxPower = 12
    Delta = 4
    MinDelta = 4
    MaxStep = 4
PROPERTIES
    MeasurementBegins
