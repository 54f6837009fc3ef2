SPECIFICATION VariantSpec
CONSTANTS
    Variants = {"given"}
    j1 = j1
    j2 = j2
    u1 = u1
    Cmds = {j1, j2}
    Jobs = {j1, j2}
    Config <- SnapPrune
    Old <- None
    Results = {"ok", "err"}
    Ops = {}
    Version3 = TRUE
    PruneMin = 0
    PfsLink = FALSE
    OneSnapshotter = FALSE
    MaxTid = 5
    MaxNow = 2
SYMMETRY JobSymmetry
INVARIANTS
    CleanupSafe
    SnapshotsIntact
CHECK_DEADLOCK FALSE
