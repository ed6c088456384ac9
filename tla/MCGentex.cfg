SPECIFICATION GenSpec
CONSTANTS
    Threads = {r1, r2, r3}
    GenMod = 2
INVARIANTS
    GenTypeOK
    OldReadersGone
    SleeperHasWaker
PROPERTY
    FinishReturns
