SPECIFICATION Spec
CONSTANTS
    Records = 2
    Buckets = 1
    MaxSpills = 1
    LateLoss = TRUE
INVARIANT
    OpenedIsWhole
CHECK_DEADLOCK FALSE
