\* Switchovers with no cluster lost.  Two writes, so that a copy can hold one and
\* lack the other; no symmetry, as one property is a liveness property.
SPECIFICATION FairSpec
CONSTANTS
  Side = {a, b}
  Id = {x, y}
  Write = {w1, w2}
  None = None
  MaxRuns = 2
  MaxFaults = 2
  MaxCrashes = 1
  Outages = FALSE
  ProbeLies = FALSE
  Commands = {"failover", "deploy"}
\* The operator stops after MaxRuns commands.
CHECK_DEADLOCK FALSE
PROPERTIES
  SwitchoverIsOneWriter
  JournalResolves
