SPECIFICATION ToolsSpec
CONSTANTS
    Programs = {"newfs_hammer", "cache", "recover", "dedup", "undo", "pfs", "pidfile", "prune",
                "volumes", "show"}
    RootFirst = TRUE
    DedupStops = FALSE
    MaxVols = 2
    MaxSize = 12
    Radix2 = 8
    MinUndo = 2
    MaxUndo = 3
    MinBlocks = 4
    BufUnits = 2
    BigUnits = 6
    NBufs = 3
    MaxVal = 1
    Slots = {a, b}
    CacheMax = 2
    ReadAhead = 1
    Objs = {1, 2, 3, 4}
    RootDir = 1
    CrcMod = 8
    MemLimit = 3
    MaxFails = 1
    MaxElms = 2
    MaxHistTid = 8
    PfsProcs = {p}
    PfsNames = {m, n}
    MaxPfsId = 2
    MaxPfsCmds = 4
    SecMin = 2
    SecHour = 6
    SecDay = 12
    IntTop = 63
    Cleaners = {c1, c2}
    Aborters = {ab}
    MaxPfs = 2
    MaxTid = 4
    MaxNow = 3
    PruneMin = 2
    FirstMax = 2
    MaxAdd = 4
    Disks = {"a", "b", "c"}
    RegFiles = {"b"}
    DiskSize <- VolumeSizes
    HammerMaxVolumes = 3
    JunkSize = 2
    BootArea <- VolumeArea
    MemArea <- VolumeArea
    MaxFs = 2
    NumFields = 2
    MaxMirror = 3
    MaxInternal = 2
    MaxLeaf = 2
    UndoAlign = 3
    UndoEnd = 9
INVARIANTS
    NewfsSound
    FragmentsRecovered
    
    
    PidSafe
    ArrayIsRanges
    VolumesSound
    
    ShowSeeks
PROPERTIES
    
    DedupSafe
