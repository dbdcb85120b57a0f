\* Every command with a fault too many for its undo, a server lost, a crash, on
\* pairs whose roles are those of their stacks and, with one fault, on pairs
\* inverted before.
SPECIFICATION OneFirst
CONSTANTS
  Side = {s1, s2}
  Write = {w1}
  None = None
  MaxRuns = 1
  MaxFaults = 2
  MaxCrashes = 1
  Outages = TRUE
  Births = {"born", "other"}
INVARIANTS
  StrandedFenceRecorded
  HealthyHasReplica
PROPERTIES
  ReseedOnlyGivenUp
  MovesOneWriter
  Reconverges
