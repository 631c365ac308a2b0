CONSTANTS
    Keys = {k1, k2, k3, k4}
    Vals = {v1, v2}
    HashMax = 5
    InitialCapacity = 2
SPECIFICATION HashSpec
SYMMETRY Symmetry
INVARIANTS
    RobinHoodOrder
PROPERTY KeyValueSpec
