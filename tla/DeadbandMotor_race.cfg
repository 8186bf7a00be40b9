SPECIFICATION MotorSpec
CONSTANTS
    Track = {0, 1, 2, 4}
    Deadband = 1
    Override = {}
    Fallback = 0
    Racing = TRUE
    MaxMoves = 2
PROPERTIES
    NoHang
CHECK_DEADLOCK FALSE
