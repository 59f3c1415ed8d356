\* Batches of two headers, so that four blocks take two; a gap of two, so that a node
\* can fall too far behind; both nodes mine, so that the chain can fork.
CONSTANTS
    Block <- MCBlock
    Genesis = "g"
    Prev <- MCPrev
    Height <- MCHeight
    Time <- MCHeight
    WorkOK <- MCBlock
    BitsOK <- MCBlock
    BodyOK <- MCBlock
    MaxFuture = 0
    TargetTime = 1
    MiningStart = 0
    Dialler = "d"
    Listener = "l"
    MinerOf <- MCMinerOf
    MaxGap = 2
    MaxHeaders = 2
    MaxInFlight = 3
    MaxLate = 1
SPECIFICATION Spec
INVARIANTS TypeOK NoPenaltyOnOneChain
PROPERTIES LevelOrBanned
CHECK_DEADLOCK FALSE
