------------------------------ MODULE MCPeers ------------------------------
(***************************************************************************)
(* A static peer given by its address, which discovery knows too, whose    *)
(* host also connects to us, a static peer given by its name whose address *)
(* discovery knows too, a discovered peer, a stranger, and an own address  *)
(* that came back through discovery.                                       *)
(***************************************************************************)
EXTENDS Peers

MCAddr == {"num", "num_in", "name", "disc", "in", "own", "own_in"}

MCHostOf ==
    [a \in MCAddr |->
       CASE a \in {"num", "num_in"} -> "H1" [] a = "name" -> "H2" [] a = "in" -> "H5"
         [] a \in {"disc", "own_in"} -> "H3" [] a = "own" -> "H4"]

MCConn ==
    {"cNum", "cNumDisc", "cNumIn", "cName", "cNameDisc", "cDisc", "cIn", "cOwn", "cOwnIn"}

MCAddrOf ==
    [c \in MCConn |->
       CASE c \in {"cNum", "cNumDisc"} -> "num" [] c = "cNumIn" -> "num_in"
         [] c \in {"cName", "cNameDisc"} -> "name" [] c = "cDisc" -> "disc"
         [] c = "cIn" -> "in" [] c = "cOwn" -> "own" [] c = "cOwnIn" -> "own_in"]

MCAdvertised ==
    [c \in MCConn |->
       CASE c \in {"cNum", "cNumDisc", "cNumIn"} -> "num" [] c \in {"cName", "cNameDisc"} -> "name"
         [] c = "cDisc" -> "disc" [] OTHER -> ""]

=============================================================================
