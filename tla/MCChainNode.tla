---------------------------- MODULE MCChainNode ----------------------------
(***************************************************************************)
(* A block tree for ChainNode.                                             *)
(*                                                                         *)
(*   g -- a1 -- a2 -- a3          a: a2 and a3 are stamped ahead of the    *)
(*    \            \- x3             clock; the one-second catch-up rule  *)
(*     b1 -- b2 -- b3                applies on top of a2                  *)
(*                                b: a branch as long, b3 has to wait for  *)
(*                                   the clock                             *)
(*                                x3: its transactions do not connect      *)
(***************************************************************************)
EXTENDS ChainNode

MCBlock == {"a1", "a2", "a3", "x3", "b1", "b2", "b3"}

MCPrev ==
    [b \in MCBlock |->
       CASE b \in {"a1", "b1"} -> "g"
         [] b = "a2" -> "a1"
         [] b \in {"a3", "x3"} -> "a2"
         [] b = "b2" -> "b1"
         [] b = "b3" -> "b2"]

MCHeight ==
    [b \in MCBlock \cup {"g"} |->
       CASE b = "g" -> 0
         [] b \in {"a1", "b1"} -> 1
         [] b \in {"a2", "b2"} -> 2
         [] b \in {"a3", "x3", "b3"} -> 3]

MCTime ==
    [b \in MCBlock \cup {"g"} |->
       CASE b = "g" -> 0
         [] b \in {"a1", "b1"} -> 1
         [] b = "b2" -> 2
         [] b = "a2" -> 3
         [] b \in {"a3", "x3", "b3"} -> 4]

MCBodyOK == MCBlock \ {"x3"}

\* The same tree without the block no honest host would send.
HonestBlock == MCBlock \ {"x3"}
HonestPrev == [b \in HonestBlock |-> MCPrev[b]]
HonestHeight == [b \in HonestBlock \cup {"g"} |-> MCHeight[b]]
HonestTime == [b \in HonestBlock \cup {"g"} |-> MCTime[b]]

\* One branch longer than the other.
ForkBlock == MCBlock \ {"x3", "a3"}
ForkPrev == [b \in ForkBlock |-> MCPrev[b]]
ForkHeight == [b \in ForkBlock \cup {"g"} |-> MCHeight[b]]
ForkTime == [b \in ForkBlock \cup {"g"} |-> MCTime[b]]

=============================================================================
