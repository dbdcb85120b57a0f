--------------------------- MODULE MCScaleCutover ---------------------------
(* Instances of ScaleCutover for TLC. *)
EXTENDS ScaleCutover, TLC

\* The servers and the writes are interchangeable.
Symmetry == Permutations(Server) \cup Permutations(Write)
=============================================================================
