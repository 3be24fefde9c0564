SPECIFICATION Spec
CONSTANTS
    n1 = n1
    n2 = n2
    n3 = n3
    n4 = n4
    t1 = t1
    t2 = t2
    root = root
    Node = {n1, n2, n3, n4}
    Tree = {root, t1, t2}
    Root = root
    Parent <- DeepParent
    Host <- DeepHost
    Endpoint = FALSE
    FileBudget = 8
    RmPolicy <- NoRmPolicy
    MaxWrites = 0
    Tdp = 12
    MinPower = 8
    MaxPower = 12
    Delta = 4
    MinDelta = 4
    MaxStep = 1
INVARIANTS
    MeasuredUnderBudget
