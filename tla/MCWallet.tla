------------------------------ MODULE MCWallet ------------------------------
(***************************************************************************)
(* Three branches above height 2.                                          *)
(*                                                                         *)
(*   g -- a1 -- a2 -- a3(t) -- a4(u)                                       *)
(*                \-- b3(v) -- b4(w)                                       *)
(*                 \-- d3    -- d4    -- d5                                *)
(*                                                                         *)
(*   t, v  spend the coinbase of a1; u spends t; w spends the coinbase of  *)
(*   a2; x spends the coinbase of a3, which the other branches do not      *)
(*   have; y spends the coinbase of b3 and the output of v, worth nothing. *)
(*   A goroutine may reorganise to the d branch while another has still to *)
(*   report the change from a to b.                                        *)
(*   The wallet owns the coinbases of a1, a2, a3 and b3 and the outputs of *)
(*   t and v.  A coinbase is worth 2, so a payment of 3 takes two outputs. *)
(***************************************************************************)
EXTENDS Wallet

MCTx == {"t", "u", "v", "w", "x", "y"}

MCInputs ==
    [t \in MCTx |->
       CASE t \in {"t", "v"} -> {"a1"}
         [] t = "u" -> {"t"}
         [] t = "w" -> {"a2"}
         [] t = "x" -> {"a3"}
         [] t = "y" -> {"b3", "v"}]

MCBlock == {"a1", "a2", "a3", "a4", "b3", "b4", "d3", "d4", "d5"}

MCParent ==
    [b \in MCBlock |->
       CASE b = "a1" -> "g"
         [] b = "a2" -> "a1"
         [] b \in {"a3", "b3", "d3"} -> "a2"
         [] b = "a4" -> "a3"
         [] b = "b4" -> "b3"
         [] b = "d4" -> "d3"
         [] b = "d5" -> "d4"]

MCTxsOf ==
    [b \in MCBlock |->
       CASE b = "a3" -> <<"t">> [] b = "a4" -> <<"u">> [] b = "b3" -> <<"v">> [] b = "b4" -> <<"w">>
         [] OTHER -> <<>>]

MCMine == {"a1", "a2", "a3", "b3", "t", "v"}
MCValue ==
    [o \in MCTx \cup MCBlock |-> CASE o \in MCBlock -> 2 [] o = "v" -> 0 [] OTHER -> 1]

=============================================================================
