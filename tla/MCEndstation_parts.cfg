SPECIFICATION Spec
CONSTANTS
    \* ScanFit
    MaxPoints = 6
    Heights = {0, 1, 2}
    KNoise = 1
    TolNum = 1
    TolDen = 4
    None = None
    \* ScanColumns
    MaxColumns = 4
    Variances = {1, 3}
    \* AlignmentProcedure
    LiftHalf <- MCLiftHalf
    ThetaHalf <- MCThetaHalf
    ThetaStep = 1
    LiftOffsets <- MCLiftOffsets
    ThetaOffsets <- MCThetaOffsets
    LiftTol = 1
    ThetaTol = 1
    StableRequired = 2
    MaxCycles = 4
    MaxReads = 1
    \* DeadbandMotor
    Track = {0, 1, 2, 4}
    Deadband = 1
    Override = {}
    Fallback = 0
    Racing = FALSE
    MaxMoves = 3
    \* DetectorStaging
    MaxTimeouts = 2
    Attempts = 2
    \* DiodeWidget
    Devices = {"diode1", "diode2", "tagged", "motor"}
    DiodeClass = {"diode1", "diode2"}
    DiodeTag = {"diode2", "tagged"}
    HasDiode = {"diode1", "diode2"}
    \* Discovery
    Interfaces = {"a1", "a2", "b1"}
    CameraOf <- MCCameraOf
    Broadcasts = 2
    Deadline = 2
    MaxNoise = 1
INVARIANTS
    PartsTypeOK
    PositionIsMeant
    SlopeIsNoPeak
    ToolsReadTheScan
    ConvergedMeansStable
    UserSettingsKept
    FindsWhoAnswers
PROPERTIES
    MovesAreMeasured
    CyclesAreWhole
    ProcedureEnds
    StatusesAreTrue
    NoHang
    ShowsSelected
CHECK_DEADLOCK FALSE
