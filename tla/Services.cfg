\* Deployments in which no callback is made with its own mutex held.  A circle of waiting
\* goroutines is for NoCircularWait and a stuck one for HandlersFinish to find.
CONSTANTS
    Peer = {"p1", "p2"}
    Miner = {"m1"}
    Client = {"c1"}
    Deployments <- MCDeployments
    MaxBusy = 2
SPECIFICATION Spec
INVARIANT NoCircularWait
PROPERTY HandlersFinish
CHECK_DEADLOCK FALSE
