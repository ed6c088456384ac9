SPECIFICATION Spec
CONSTANTS
    Threads = {t1, t2, t3}
    Size = 2
    Backends = {b1, b2}
    None = None
INVARIANTS
    SemaphoreAgrees
    ProxyFollows
PROPERTIES
    ImplementsSessionPool
    PoolProgress
    TimedReturns
