CONSTANTS
    k1 = k1
    k2 = k2
    k3 = k3
    s1 = s1
    s2 = s2
    Key <- MCKey
    Sketch <- MCSketch
    Depth = 2
    Width = 2
    Hash <- MCHash
    Bit = {1, 2}
    BitsOf <- MCBitsOf
    Size = {1, 5}
    Limit = 8
    MaxOps = 5
SPECIFICATION Spec
INVARIANTS CountersAreSums AcceptsCompleted NeverUnderestimates MajorityFound
SYMMETRY Sketches
CHECK_DEADLOCK FALSE
