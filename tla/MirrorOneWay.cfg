SPECIFICATION StreamSpec
CONSTANTS
    TwoWayPipeOpt = FALSE
    FullDuplex = TRUE
    Streaming = 0
    BulkOpt = FALSE
    TimeoutOpt = TRUE
    CycleOpt = TRUE
    ForceYesOpt = TRUE
    HIST_COUNT = 3
    SplitupOpt = 1
    PipeCap = 2
    NKeys = 2
    MaxTid = 4
    MaxCrash = 1
INVARIANTS
    SyncedMeansComplete
PROPERTIES
    StreamCatchesUp
CHECK_DEADLOCK FALSE
