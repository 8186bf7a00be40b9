SPECIFICATION LiveSpec
CONSTANTS
    Payloads = 2
    IdModulus = 4
    MaxFrames = 5
    MaxInFlight = 4
    LossyUntil = 3
    Reorders = FALSE
    MaxDups = 1
    None = None
PROPERTIES FeedSpec Recovers
CHECK_DEADLOCK FALSE
