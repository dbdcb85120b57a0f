----------------------------- MODULE OneWriter -----------------------------
(***************************************************************************)
(* What planned switchovers and deploys promise of an HA environment, with *)
(* no word on fences, journals or replication: at any time at most one     *)
(* side takes writes, a side starts taking them only when it holds every   *)
(* transaction ever committed, and no copy ever loses one.                 *)
(***************************************************************************)
CONSTANTS Side, Write

VARIABLES
  writer,   \* the sides that take writes
  has       \* has[s]: the transactions side s holds

Init ==
  /\ \E s \in Side : writer = {s}
  /\ has = [s \in Side |-> {}]

\* The one writer commits a new transaction.
Commit(s, w) ==
  /\ writer = {s}
  /\ \A t \in Side : w \notin has[t]
  /\ has' = [has EXCEPT ![s] = @ \cup {w}]
  /\ UNCHANGED writer

\* A side catches up with, or is rebuilt from, one that has all it has.
Copy(from, to) ==
  /\ writer # {to}
  /\ has[to] \subseteq has[from]
  /\ has' = [has EXCEPT ![to] = has[from]]
  /\ UNCHANGED writer

Stop ==
  /\ writer' = {}
  /\ UNCHANGED has

\* Only with everything, and only when nobody writes.
Serve(s) ==
  /\ writer = {}
  /\ \A t \in Side : has[t] \subseteq has[s]
  /\ writer' = {s}
  /\ UNCHANGED has

Next ==
  \/ \E s \in Side : Serve(s) \/ \E w \in Write : Commit(s, w)
  \/ \E from, to \in Side : Copy(from, to)
  \/ Stop

\* Not a step of a pair: a copy that serves nobody is wiped for the next restore
\* while another copy has all it has.
Wipe(s) ==
  /\ writer # {s}
  /\ \E t \in Side \ {s} : has[s] \subseteq has[t]
  /\ has' = [has EXCEPT ![s] = {}]
  /\ UNCHANGED writer

Step == [Next]_<<writer, has>>
Spec == Init /\ [][Next]_<<writer, has>>
=============================================================================
