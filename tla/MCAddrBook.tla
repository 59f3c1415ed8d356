----------------------------- MODULE MCAddrBook -----------------------------
(***************************************************************************)
(* A configured address, one that only gossip knows and the node's own,    *)
(* two goroutines, and a file of the old format from before.               *)
(***************************************************************************)
EXTENDS AddrBook

MCAddr == {"m", "x", "l"}
MCConfigured == [a \in MCAddr |-> CASE a = "m" -> "manual" [] a = "l" -> "listen" [] OTHER -> ""]

=============================================================================
