----------------------------- MODULE MCServices -----------------------------
(***************************************************************************)
(* Two peers, a miner and an RPC client.                                   *)
(***************************************************************************)
EXTENDS Services

\* With and without each service, but never the RPC server and Stratum at once.
MCDeployments == {{"rpc", "p2p"}, {"stratum", "p2p"}, {"rpc"}, {"stratum"}}

\* The services of the systemd unit with PACD_STRATUM=true.
MCMiningHost == {{"rpc", "p2p", "stratum"}}

=============================================================================
