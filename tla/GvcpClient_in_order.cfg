SPECIFICATION LiveSpec
CONSTANTS
    user = user
    heartbeat = heartbeat
    a = a
    b = b
    Callers = {user, heartbeat}
    Values = {a, b}
    NumIds = 3
    Retries = 2
    MaxCalls = 2
    MaxDups = 1
    Reorders = FALSE
    None = None
INVARIANTS WriteStays
PROPERTIES
    CallEnds
    RegisterSpec
CHECK_DEADLOCK FALSE
