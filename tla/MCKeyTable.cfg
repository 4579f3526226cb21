CONSTANTS
    k1 = k1
    k2 = k2
    k3 = k3
    k4 = k4
    Key <- MCKey
    NoKey = NoKey
    NumLists = 2
    ListLen = 2
    Hash <- MCHash
    EntryTo = 1
    Time <- MCTime
    Sizes = {1}
    MaxSize = 2
SPECIFICATION Spec
INVARIANT EachKeyOnce
PROPERTY ImplementsMap
CHECK_DEADLOCK FALSE
