CONSTANTS
    k0 = k0
    k1 = k1
    k2 = k2
    k3 = k3
    Key <- MCKey
    Depth = 2
    Width = 2
    Hash <- MCHash
    Bit = {1, 2}
    BitsOf <- MCBitsOf
    Limit = 16
    MaxSize = 1
    Traffic <- MCTraffic
    NumInterval = 2
SPECIFICATION SpecInference
INVARIANT RecordedIsTaken
CHECK_DEADLOCK FALSE
