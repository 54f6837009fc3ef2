SPECIFICATION ModeSpec
CONSTANTS
    TwoWayPipeOpt = TRUE
    FullDuplex = TRUE
    Streaming = 1
    BulkOpt = FALSE
    TimeoutOpt = FALSE
    CycleOpt = TRUE
    ForceYesOpt = FALSE
    HIST_COUNT = 3
    SplitupOpt = 1
    PipeCap = 2
    NKeys = 2
    MaxTid = 5
    MaxCrash = 1
INVARIANTS
    IInv
    ProtocolSafe
    BulkSuccess
PROPERTIES
    ImplementsSync
CHECK_DEADLOCK FALSE
