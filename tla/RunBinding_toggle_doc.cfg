SPECIFICATION BindingLiveSpec
CONSTANTS
    MaxRuns = 1
    Late = TRUE
    Lossy = FALSE
PROPERTIES
    ToggleDrivesProcessing
