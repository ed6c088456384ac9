CONSTANTS
    MaxBlockSize = 130
    MaxBuckets = 40
    MaxHash = 130
    WordBits = 4
SPECIFICATION Spec
INVARIANTS
    IndexInRange
    ReopenKeepsShape
    FastAcceptsSpills
PROPERTY
    SplitIsLocal
CHECK_DEADLOCK FALSE
