SPECIFICATION Spec
CONSTANTS
    user = user
    heartbeat = heartbeat
    a = a
    b = b
    Callers = {user, heartbeat}
    Values = {a, b}
    NumIds = 2
    Retries = 1
    MaxCalls = 3
    MaxDups = 1
    Reorders = TRUE
    None = None
SYMMETRY Interchangeable 
INVARIANTS
    ReadsAreCurrent
    WritesAreApplied
CHECK_DEADLOCK FALSE
