SPECIFICATION Spec
CONSTANTS
    Cmds = {c1, c2}
    Ops = {"snapshot", "prune"}
    Version3 = TRUE
    PruneMin = 0
    PfsLink = FALSE
    OneSnapshotter = FALSE
    MaxTid = 5
    MaxNow = 1
SYMMETRY CmdSymmetry
INVARIANTS SnapshotsIntact
CHECK_DEADLOCK FALSE
