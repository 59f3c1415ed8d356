\* A cache of two jobs and two sessions overflow it at once; two blocks are a tip that
\* moves while a job is on its way, and a second race.
CONSTANTS
    Base = 16
    Radix = 16
    PowLimit <- MCPowLimit
    AnchorTarget <- MCAnchorTarget
    TargetSpacing = 3
    HalfLife = 5
    BaseSubsidy = 17
    MulSubsidy = 2
    DivSubsidy = 3
    ReductionInterval = 3
    MinerRewardPercent = 95
    MaxFuture = 1
    Session = {m1, m2}
    RefreshLoop = refresh
    NoJob = NoJob
    NoBlock = NoBlock
    Accepted = Accepted
    MaxCachedJobs = 2
    MaxBlocks = 2
    MaxNow = 3
    MaxTime = 3
SPECIFICATION Spec
INVARIANTS ChainLinked RecentJobsKept ProposedTimeFits AsertTracks BitsUsable SupplyAddsUp
PROPERTIES FreshWork
