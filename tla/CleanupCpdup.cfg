SPECIFICATION CleanupSpec
CONSTANTS
    j1 = j1
    j2 = j2
    u1 = u1
    Cmds = {j1}
    Jobs = {j1}
    Config <- SnapPrune
    Old <- Undated
    Results = {"ok", "killed"}
    Ops = {}
    Version3 = TRUE
    PruneMin = 0
    PfsLink = FALSE
    OneSnapshotter = FALSE
    MaxTid = 4
    MaxNow = 2
INVARIANTS OldLinksKept
CHECK_DEADLOCK FALSE
