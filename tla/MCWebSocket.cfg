SPECIFICATION Spec
CONSTANTS
    None = None
    BadFrames = TRUE
    PingAlso = TRUE
INVARIANTS
    OneWriter
    ClosingHandshake
PROPERTIES
    AbortsAreKnown
    ReadResumes
    CloseEnds
    WritersReturn
CHECK_DEADLOCK FALSE
