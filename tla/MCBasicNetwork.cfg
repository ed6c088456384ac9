CONSTANTS
    p1 = p1
    p2 = p2
    p3 = p3
    None = None
    Peers <- MCPeers
    Delays <- MCDelays
    MaxTime = 1
    MaxSerial = 4
    MaxQueue = 3
SPECIFICATION Spec
SYMMETRY Symmetry
INVARIANTS
    PendingHasLink
    InOrder
    NoneOverdue
    ErasedOnce
    BfsShortest
CHECK_DEADLOCK FALSE
