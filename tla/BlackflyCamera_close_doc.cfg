SPECIFICATION Spec
CONSTANTS
    MaxStarts = 1
    SlowCallbacks = FALSE
PROPERTIES
    CloseStopsStream
