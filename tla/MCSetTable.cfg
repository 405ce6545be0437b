CONSTANTS
    s1 = s1
    s2 = s2
    e1 = e1
    e2 = e2

    noelem = noelem
    SetIds <- MCSetIds
    Elems <- MCElems
    NoElem = noelem
    InitCapacity = 4
    HashRange = 4
    MaxCapacity = 8
SYMMETRY MCSymmetry
SPECIFICATION Spec
INVARIANT TypeOK
INVARIANT NoDuplicateValues
PROPERTY AbstractSetSpec
