---------------------------- MODULE MCBlockStore ----------------------------
(***************************************************************************)
(* Two branches from the genesis block, one of which a reorganisation may  *)
(* put in the place of the other.                                          *)
(*                                                                         *)
(*   g -- a1 -- a2 -- a3                                                   *)
(*    \-- b1 -- b2 -- b3                                                   *)
(***************************************************************************)
EXTENDS BlockStore

MCBlock == {"a1", "a2", "a3", "b1", "b2", "b3"}

MCPrev ==
    [b \in MCBlock |->
       CASE b \in {"a1", "b1"} -> "g"
         [] b = "a2" -> "a1" [] b = "a3" -> "a2"
         [] b = "b2" -> "b1" [] b = "b3" -> "b2"]

MCHeight ==
    [b \in MCBlock \cup {"g"} |->
       CASE b = "g" -> 0
         [] b \in {"a1", "b1"} -> 1
         [] b \in {"a2", "b2"} -> 2
         [] b \in {"a3", "b3"} -> 3]

MCChains == {<<"b1", "b2">>, <<"b1", "b2", "b3">>, <<"a1", "a2", "a3">>}

=============================================================================
