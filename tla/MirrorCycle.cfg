SPECIFICATION Spec
CONSTANTS
    TwoWayPipeOpt = FALSE
    FullDuplex = TRUE
    Streaming = 0
    BulkOpt = TRUE
    TimeoutOpt = TRUE
    CycleOpt = TRUE
    ForceYesOpt = TRUE
    HIST_COUNT = 3
    SplitupOpt = 1
    PipeCap = 2
    NKeys = 2
    MaxTid = 4
    MaxCrash = 0
INVARIANTS
    SyncedMeansComplete
CHECK_DEADLOCK FALSE
