CONSTANTS
    local = local
    p1 = p1
    p2 = p2
    c1 = c1
    c2 = c2
    Dev = {local, p1, p2}
    PmdDev = {p1, p2}
    Core = {c1, c2}
    Numa <- MCNuma
    MaxRxq = 2
    MaxTxq = 2
    MaxNo = 2
    Mask <- MCMask
    DefaultCores = {c1}
    Affinity <- MCAffinity
    Budgets <- MCBudgets
    Local = local
    NonPmd = NonPmd
    None = None
SPECIFICATION Spec
INVARIANTS OnePoller InUseIsOpen TxqUsedCounts OwnTxq AtRest
PROPERTIES Settles
CHECK_DEADLOCK FALSE
