\* No fault at all: one promote that lands while the abort runs.
SPECIFICATION FairSpec
CONSTANTS
  Side = {s1, s2}
  Write = {w1}
  None = None
  MaxRuns = 1
  MaxFaults = 0
  MaxCrashes = 1
  Outages = FALSE
  Births = {"born"}
PROPERTIES
  DeployRebuilds
