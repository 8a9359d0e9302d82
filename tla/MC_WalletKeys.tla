---------------------------- MODULE MC_WalletKeys ----------------------------
(***************************************************************************)
(* Two owners of a reserved key, two passphrases, at most two first runs.  *)
(***************************************************************************)
EXTENDS WalletKeys, TLC

Owners == Permutations(Client)
=============================================================================
