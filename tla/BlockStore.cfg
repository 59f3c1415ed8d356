\* Every fault: torn and failed writes, a missing newline, crashes in any step, a clock from
\* before the start of mining, a second validation that refuses what was written.  A full
\* chain and no faults left end a behaviour.
CONSTANTS
    Block <- MCBlock
    Genesis = "g"
    Prev <- MCPrev
    Height <- MCHeight
    Time <- MCHeight
    WorkOK <- MCBlock
    BitsOK <- MCBlock
    BodyOK <- MCBlock
    MaxFuture = 2
    TargetTime = 1
    MiningStart = 1
    Torn = "torn"
    Chains <- MCChains
    Clock = {0, 1}
    MaxFaults = 3
SPECIFICATION Spec
INVARIANTS AckedReadable Recoverable
PROPERTY ReadableOnlyGrows
CHECK_DEADLOCK FALSE
