------------------------------ MODULE MCMining ------------------------------
(***************************************************************************)
(* Two miners.  Bytes of four bits, so that targets up to 16^5 take every  *)
(* form a compact target has.                                              *)
(***************************************************************************)
EXTENDS Mining

MCPowLimit == 16^5 - 1
MCAnchorTarget == 16^3

=============================================================================
