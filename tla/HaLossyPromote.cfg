SPECIFICATION Spec
CONSTANTS
  Side = {a, b}
  Id = {x, y}
  Write = {w1}
  None = None
  MaxRuns = 1
  MaxFaults = 2
  MaxCrashes = 0
  Outages = FALSE
  ProbeLies = FALSE
  Commands = {"failover"}
SYMMETRY Symmetry
\* The operator stops after MaxRuns commands.
CHECK_DEADLOCK FALSE
PROPERTIES
  PlannedPromoteLosesNothing
