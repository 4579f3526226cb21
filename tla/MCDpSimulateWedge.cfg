CONSTANTS
    RbSize = 6
    RbBatch = 2
    IntervalLen = 2
    MaxLen = 0
    MaxTs = 2
    Traces <- FillingTraces
    Tuple <- ReplayTuple
    Zero <- NoPacket
SPECIFICATION FairReplay
PROPERTY Terminates
CHECK_DEADLOCK FALSE
