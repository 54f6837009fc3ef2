SPECIFICATION VariantSpec
CONSTANTS
    Variants = {"given", "periods", "reblocks"}
    j1 = j1
    j2 = j2
    u1 = u1
    Cmds = {j1, j2, u1}
    Jobs = {j1, j2}
    Config <- Manual
    Old <- Dated
    Results = {"ok", "err"}
    Ops = {"snapshot"}
    Version3 = TRUE
    PruneMin = 0
    PfsLink = FALSE
    OneSnapshotter = FALSE
    MaxTid = 4
    MaxNow = 3
SYMMETRY JobSymmetry
INVARIANTS
    RetriedAfterError
    

    
CHECK_DEADLOCK FALSE
