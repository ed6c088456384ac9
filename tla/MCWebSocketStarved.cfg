SPECIFICATION Spec
CONSTANTS
    None = None
    BadFrames = FALSE
    PingAlso = FALSE
PROPERTY
    WritersReturnAlways
