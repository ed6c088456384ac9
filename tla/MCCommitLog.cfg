SPECIFICATION Spec
CONSTANTS
    InitBuckets = 1
    MaxCommits = 2
    MaxAppend = 1
    MaxGrow = 1
    SparseAppends = FALSE
INVARIANTS
    EveryPowerLossRecovers
PROPERTIES
    RecoverIsIdempotent
    RecoverTerminates
    ImplementsAtomicCommit
