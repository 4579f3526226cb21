CONSTANTS
    RbSize = 6
    RbBatch = 2
    IntervalLen = 2
    MaxLen = 5
    MaxTs = 7
    Traces <- MCTraces
    FlowOf <- MCFlowOf
    SizeOf <- MCSizeOf
    Tuple <- ReplayTuple
    Zero <- NoPacket
SPECIFICATION SpecFlows
INVARIANTS FilesAreIntervals TrueFilesAreIntervals ExtremesAreOfIntervals
PROPERTIES ImplementsChannel PublishedIsRead EndsOrWedges EndsWithRoom
CHECK_DEADLOCK FALSE
