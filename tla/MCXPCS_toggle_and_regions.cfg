SPECIFICATION XPCSSpec
CONSTANTS
    \* RunBinding
    MaxRuns = 3
    Late = TRUE
    Lossy = TRUE
    \* ROIOverlay
    Ids = {r1, r2, r3}
    Shapes = {s1, s2}
    Default = s1
    NumColors = 2
    MaxMasks = 1
    Faulty = TRUE
    Restarts = TRUE
INVARIANTS
    TypeOK
    PanelMatchesService
    ColorsDistinctSoFar
    EnabledIsProcessing
    BoundRunIsStopped
PROPERTIES
    NoUnsolicitedChange
    Recovers
    DisableIsHeard
