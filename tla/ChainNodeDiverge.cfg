\* The clock only advances, nothing crashes and the disk never fails.
CONSTANTS
    Block <- HonestBlock
    Genesis = "g"
    Prev <- HonestPrev
    Height <- HonestHeight
    Time <- HonestTime
    WorkOK <- HonestBlock
    BitsOK <- HonestBlock
    BodyOK <- HonestBlock
    MaxFuture = 2
    TargetTime = 1
    MiningStart = 0
    Peer = {p}
    NoPeer = NoPeer
    Local = Local
    Orphan = Orphan
    NoBlock = NoBlock
    Claims = {0, 2}
    MaxOrphans = 2
    MaxGap = 3
    SteadyClock = FALSE
    SteadyPeers = TRUE
    DiskMayFail = FALSE
    SyncMayFail = FALSE
    MaxNow = 2
    MaxFaults = 0
SPECIFICATION Spec
INVARIANTS StoreLoads
CHECK_DEADLOCK FALSE
