CONSTANTS
    k1 = k1
    k2 = k2
    k3 = k3
    v1 = v1
    v2 = v2
    nokey = nokey
    missing = missing
    Keys <- MCKeys
    Vals <- MCVals
    NoKey = nokey
    Missing = missing
    InitCapacity = 4
    HashRange = 4
    MaxCapacity = 8
SYMMETRY MCSymmetry
SPECIFICATION Spec
INVARIANT TombstonesCounted
