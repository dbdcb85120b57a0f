SPECIFICATION FairSpec
CONSTANTS
  Name = {n1, n2}
  Refresh = {r1, r2}
  MaxSizes = {1, 2}
  Events <- AllEvents
  MaxEvents = 4
INVARIANTS
  WithinMax
  TargetExact
  DeletesOnce
PROPERTIES
  Converges
