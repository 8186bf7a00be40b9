SPECIFICATION Spec
CONSTANTS
    Payloads = 2
    IdModulus = 2
    MaxFrames = 3
    MaxInFlight = 3
    LossyUntil = 3
    Reorders = TRUE
    MaxDups = 2
    None = None
INVARIANTS
    FrameIntegrity
PROPERTIES
    CompleteBlockReturned
CHECK_DEADLOCK FALSE
