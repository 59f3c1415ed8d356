---------------------------- MODULE MCWalletKeys ----------------------------
(***************************************************************************)
(* Two commands at a time, three keys, and two passphrases, one of which   *)
(* is too short to encrypt a wallet with.                                  *)
(***************************************************************************)
EXTENDS WalletKeys, TLC

Symmetry == Permutations(Key) \cup Permutations(Proc) \cup Permutations(Salt)

=============================================================================
