---------------------------- MODULE MCConfigLock ----------------------------
(* Instances of ConfigLock for TLC. *)
EXTENDS ConfigLock
=============================================================================
