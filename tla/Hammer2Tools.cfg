SPECIFICATION ToolsSpec
CONSTANTS
    Programs = {"volumes", "fsck", "repair"}
    Devs = {1, 2}
    Level1 = 8
    NumVolhdrs = 3
    MaxVolumes = 2
    BootNom = 4
    AuxNom = 8
    MaxRuns = 2
    MaxFlushes = 1
    MaxFaults = 1
    Sizes = {3, 6, 9, 18, 24}
    Areas = {0, 4}
    MaxBad = 2
    Caches = {0, 1, 2}
    NumZones = 2
    MaxTools = 3
    MaxDamaged = 1
INVARIANTS
    NewfsReadBack
    OpenCovers
    

    
