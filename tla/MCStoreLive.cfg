CONSTANTS
    t1 = t1
    t2 = t2
    k1 = k1
    k2 = k2
    Threads <- MCThreads
    Keys <- MCOneKey
    hash <- MChash
    MaxBuckets = 2
    GenMod = 2
SPECIFICATION Spec
PROPERTIES
    CallsReturn
    InsertsGetCommitted
CHECK_DEADLOCK FALSE
