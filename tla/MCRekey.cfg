SPECIFICATION Spec
CONSTANTS
    Records = 2
    Buckets = 3
    MaxSpills = 2
    LateLoss = FALSE
INVARIANTS
    ValuesStay
    OpenedIsWhole
    FailedCreateUndone
PROPERTIES
    RetrySucceeds
CHECK_DEADLOCK FALSE
