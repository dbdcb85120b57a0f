SPECIFICATION FairSpec
CONSTANTS
  Entry <- TwoEntries
  Version = "PG_VERSION"
  Id = "reseed-id"
  None = None
  MaxAttempt = 3
  MaxKills = 2
  Tiers = {"k8s", "compose"}
  RoleMovesAnytime = FALSE
  Orphans = FALSE
\* The operator stops after MaxAttempt commands.
CHECK_DEADLOCK FALSE
INVARIANTS
  BootsWhole
  KeepsDatabase
  NoSwapUnderPostgres
PROPERTIES
  NoStaleSwap
  IsOneVolume
  PodComesUp
