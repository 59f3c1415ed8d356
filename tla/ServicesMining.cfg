\* A mining host with the RPC server.
CONSTANTS
    Peer = {"p1", "p2"}
    Miner = {"m1"}
    Client = {"c1"}
    Deployments <- MCMiningHost
    MaxBusy = 2
SPECIFICATION Spec
INVARIANT NoCircularWait
