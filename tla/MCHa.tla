-------------------------------- MODULE MCHa --------------------------------
(* Instances of HaSystem for TLC. *)
EXTENDS HaSystem, TLC

\* The two sides, the transactions and the identifiers are interchangeable.
Symmetry == Permutations(Side) \cup Permutations(Write) \cup Permutations(Id)
=============================================================================
