----------------------------- MODULE DataVolume -----------------------------
(***************************************************************************)
(* What a database volume promises, whatever its scripts do: it holds one  *)
(* whole database at a time, a reseed exchanges it in one step, a restore  *)
(* keeps the old one until the new one is proven.                          *)
(***************************************************************************)
CONSTANTS Tree, None

VARIABLES
  live,   \* the database the next boot serves; None in a restore's swap
  kept    \* the database from before an unproven restore

Init == live \in Tree \cup {None} /\ kept = None

\* Only a database nobody could still want back is exchanged.
Reseed == /\ live # None /\ kept = None
          /\ live' \in Tree \ {live} /\ kept' = kept

\* A second restore drops the first one's unproven tree, never the kept one.
BeginRestore == /\ live # None /\ live' = None
                /\ kept' = IF kept = None THEN live ELSE kept

FinishRestore == live = None /\ live' \in Tree /\ kept' = kept

Prove == live # None /\ kept # None /\ kept' = None /\ live' = live

Next == Reseed \/ BeginRestore \/ FinishRestore \/ Prove
Spec == Init /\ [][Next]_<<live, kept>>
=============================================================================
