CONSTANTS
    t1 = t1
    t2 = t2
    k1 = k1
    k2 = k2
    Threads <- MCThreads
    Keys <- MCKeys
    hash <- MChash
    MaxBuckets = 2
    GenMod = 2
SPECIFICATION Spec
SYMMETRY Symmetry
INVARIANTS
    ReadersUndisturbed
    CloseCommitsAll
PROPERTY
    ImplementsKeyValue
CHECK_DEADLOCK FALSE
