CONSTANTS
    NumThread = 3
    IntervalLen = 2
    Capacity = 2
    Batch = 2
    MaxPackets = 20
    MaxStray = 1
SPECIFICATION Spec
INVARIANTS InStep LastWorkersFile
CHECK_DEADLOCK FALSE
