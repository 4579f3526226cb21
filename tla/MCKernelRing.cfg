CONSTANTS
    RbSize = 5
    RbBatch = 2
    MaxPackets = 8
    MaxStarts = 3
    Tuple <- KernelTuple
    Zero <- KernelZero
SPECIFICATION FairKernel
INVARIANTS TermIsLast RingOrder NoTornCopy
PROPERTIES TermIsPublished HookReturns
