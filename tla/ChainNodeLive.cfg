\* Honest hosts, and nothing keeps still: the clock moves both ways over the moment from which
\* b3 is acceptable, peer entries vanish between any two steps; two crashes, unsynced writes or
\* backward steps, enough for a store that has to be repaired.
\* A behaviour ends when all is connected and no fault is left.
CONSTANTS
    Block <- ForkBlock
    Genesis = "g"
    Prev <- ForkPrev
    Height <- ForkHeight
    Time <- ForkTime
    WorkOK <- ForkBlock
    BitsOK <- ForkBlock
    BodyOK <- ForkBlock
    MaxFuture = 3
    TargetTime = 1
    MiningStart = 0
    Peer = {p}
    NoPeer = NoPeer
    Local = Local
    Orphan = Orphan
    NoBlock = NoBlock
    Claims = {0, 3}
    MaxOrphans = 2
    MaxGap = 3
    SteadyClock = FALSE
    SteadyPeers = FALSE
    DiskMayFail = FALSE
    SyncMayFail = TRUE
    MaxNow = 1
    MaxFaults = 2
SPECIFICATION FairSpec
PROPERTY Converges
CHECK_DEADLOCK FALSE
