CONSTANTS
    f1 = f1
    f2 = f2
    p1 = p1
    p2 = p2
    p3 = p3
    p4 = p4
    k1 = k1
    k2 = k2
    k3 = k3
    X = X
    Y = Y
    FlowObj = {f1, f2}
    Packet = {p1, p2, p3, p4}
    Key <- MCKey
    Class <- MCClass
    Port <- MCPort
    Hash <- MCHash
    Recirc <- MCRecirc
    Slots = 2
    Program <- MCProgram
    Burst = 2
    MAX_FLOWS = 2
    MAX_RECIRC_DEPTH = 1
    IsPmd = TRUE
    Budgets <- OwnBudgets
    Null = Null
SPECIFICATION Spec
INVARIANTS OwnBatches
CHECK_DEADLOCK FALSE
