---------------------------- MODULE MCComposeHa -----------------------------
(* Instances of ComposeSystem for TLC. *)
EXTENDS ComposeSystem

\* The servers are interchangeable: the one that begins as primary is named.
\* A pair whose roles begin inverted has a fault less than the others.
First == CHOOSE s \in Side : TRUE
InitFirst ==
  /\ InitPair(Births \cap {"born"}, 0) \/ InitPair(Births \cap {"other"}, 1)
  /\ Primary = First
OneFirst == InitFirst /\ [][Next]_vars /\ Fairness
=============================================================================
