----------------------------- MODULE BestChain -----------------------------
(***************************************************************************)
(* What the node promises about the chain it keeps on disk, with nothing   *)
(* said about peers, pools, locks, the clock or crashes: it is always a    *)
(* valid chain, and it gives way only to a strictly longer valid chain     *)
(* (one more block, or another branch).  In particular a restart never     *)
(* rolls it back.                                                          *)
(***************************************************************************)
EXTENDS BlockTree

VARIABLE best

Init == best = <<>>

Adopt ==
    /\ best' \in Seq(Block)
    /\ ValidChain(best')
    /\ Len(best') > Len(best)

Spec == Init /\ [][Adopt]_best
=============================================================================
