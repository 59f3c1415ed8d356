------------------------------- MODULE MCSync -------------------------------
(***************************************************************************)
(*   g -- a1 -- a2 -- a3 -- a4        a: mined by the listener             *)
(*          \-- b2 -- b3 -- c4        b: mined by the dialler              *)
(*                                    c: by the listener, if it changed    *)
(*                                       branch                            *)
(***************************************************************************)
EXTENDS Sync

MCBlock == {"a1", "a2", "a3", "a4", "b2", "b3", "c4"}

MCPrev ==
    [b \in MCBlock |->
       CASE b = "a1" -> "g" [] b \in {"a2", "b2"} -> "a1" [] b = "a3" -> "a2"
         [] b = "b3" -> "b2" [] b = "a4" -> "a3" [] b = "c4" -> "b3"]

MCHeight ==
    [b \in MCBlock \cup {"g"} |->
       CASE b = "g" -> 0 [] b = "a1" -> 1 [] b \in {"a2", "b2"} -> 2
         [] b \in {"a3", "b3"} -> 3 [] b \in {"a4", "c4"} -> 4]

MCMinerOf == [b \in MCBlock |-> IF b \in {"b2", "b3"} THEN "d" ELSE "l"]

=============================================================================
