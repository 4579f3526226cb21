CONSTANTS
    DpObj = {d1, d2}
    VportObj = {v1, v2, v3}
    FlowObj = {f1, f2, f3}
    ActObj = {a1, a2, a3, a4}
    Cpu = {c1}
    Thread = {t1, t2}
    Ufid = {u1}
    Key = {k1, k2}
    MaxRoom = 2
    Room = {0, 1, 2}
    MaxPorts = 4
    Buckets = 2
    Fit = 1
    Null = Null
    Budgets <- MCBudgets
SPECIFICATION Spec
INVARIANTS HeldIsLive ActsHaveOneOwner NoTwins DumpReports
SYMMETRY Symmetric
CHECK_DEADLOCK FALSE
