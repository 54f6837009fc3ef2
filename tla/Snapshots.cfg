SPECIFICATION Spec
CONSTANTS
    Cmds = {c1, c2}
    Ops = {"snapshot", "snaprm", "prune"}
    Version3 = TRUE
    PruneMin = 1
    PfsLink = FALSE
    OneSnapshotter = TRUE
    MaxTid = 5
    MaxNow = 2
SYMMETRY CmdSymmetry
INVARIANTS
    PruneIInv
    SnapshotsIntact
PROPERTIES
    LatestKept
CHECK_DEADLOCK FALSE
