SPECIFICATION ClusterSpec
CONSTANTS
    Parts = {"stream", "trans", "span", "handshake", "autoconn", "volconf"}
    HdrSize = 2
    HdrMax = 3
    StageSize = 6
    SockSize = 3
    SeqWrap = 3
    MaxSent = 2
    Sides = {a, b}
    Numbers = {1}
    MaxNew = 2
    Relock = {"deadlock", "error"}
    Orphans = FALSE
    Routers = {1, 2, 3}
    Cables <- Triangle
    Home = 1
    Masked <- MaskedTo1
    SPAN_MAXDIST = 3
    MaxChanges = 2
    HandBlocks = 2
    BlockUnits = 3
    MaxPlain = 8
    Hosts = {1, 2}
    MaxClock = 3
    VcHosts = {1, 2}
    MaxVolconf = 4
    HupWakes = {TRUE, FALSE}
INVARIANTS
    StreamSound
    
    TransAgree
    SpanSound
    HandshakeSafe
    ScanIsFile
PROPERTIES
    AllDelivered
    Settles
    HandshakeDone
    
    VolconfSafe
CHECK_DEADLOCK FALSE
