SPECIFICATION LiveSpec
CONSTANTS
    MaxStarts = 3
    SlowCallbacks = FALSE
INVARIANTS
    NothingAfterStop
    FreshFrames
PROPERTIES
    StopBeforeRelease
    ControlIsReturned
    LossIsNoticed
