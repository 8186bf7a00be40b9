SPECIFICATION LiveSpec
CONSTANTS
    MaxRuns = 2
    MaxSections = 3
    MaxFrames = 2
    MaxEvents = 4
    PageLimit = 2
    States = {"Disabled", "Idle", "Processing"}
    Rois = {"roi"}
    Lossy = TRUE
INVARIANTS
    OneRunShown
    SeriesAscend
    SectionsComplete
    TextsAreCurrent
PROPERTIES
    ResyncEnds
CHECK_DEADLOCK FALSE
