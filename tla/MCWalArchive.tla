---------------------------- MODULE MCWalArchive ----------------------------
(* Instances of WalArchive for TLC. *)
EXTENDS WalArchive, TLC

Servers == Permutations(Server)
=============================================================================
