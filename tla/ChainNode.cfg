\* Clock and peer entry keep still while a block is in flight; disk errors and
\* one crash at any step.  The clock bound is what lets a behaviour end.
CONSTANTS
    Block <- MCBlock
    Genesis = "g"
    Prev <- MCPrev
    Height <- MCHeight
    Time <- MCTime
    WorkOK <- MCBlock
    BitsOK <- MCBlock
    BodyOK <- MCBodyOK
    MaxFuture = 2
    TargetTime = 1
    MiningStart = 0
    Peer = {p, q}
    NoPeer = NoPeer
    Local = Local
    Orphan = Orphan
    NoBlock = NoBlock
    Claims = {0, 3}
    MaxOrphans = 2
    MaxGap = 3
    SteadyClock = TRUE
    SteadyPeers = TRUE
    DiskMayFail = TRUE
    SyncMayFail = FALSE
    MaxNow = 2
    MaxFaults = 1
SPECIFICATION Spec
INVARIANTS ChainValid StoreMatchesChain StoreLoads
PROPERTIES ChainOnlyGrows OrphansDrained StoreIsBestChain
CHECK_DEADLOCK FALSE
