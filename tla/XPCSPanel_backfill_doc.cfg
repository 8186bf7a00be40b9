SPECIFICATION Spec
CONSTANTS
    MaxRuns = 1
    MaxSections = 2
    MaxFrames = 1
    MaxEvents = 3
    PageLimit = 2
    States = {"Disabled", "Idle", "Processing"}
    Rois = {"roi"}
    Lossy = FALSE
INVARIANT
    SectionsBackfilled
CHECK_DEADLOCK FALSE
