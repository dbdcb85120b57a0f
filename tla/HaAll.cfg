SPECIFICATION Spec
CONSTANTS
  Side = {a, b}
  Id = {x, y}
  Write = {w1}
  None = None
  MaxRuns = 2
  MaxFaults = 2
  MaxCrashes = 1
  Outages = TRUE
  ProbeLies = TRUE
  Commands = {"failover", "abort", "deploy"}
SYMMETRY Symmetry
\* The operator stops after MaxRuns commands.
CHECK_DEADLOCK FALSE
INVARIANTS
  TypeOK
  JournalCoversPromote
  StrandedFenceRecorded
  PlannedNoSplitBrain
  HealthyHasReplica
  PrimaryArchives
  DiscardIsCurrent
PROPERTIES
  ArmedBeforePromote
  ProvenPromoteLosesNothing
  ReseedOnlyGivenUp
