SPECIFICATION FairSpec
CONSTANTS
  Proc = {p1, p2, p3}
  None = None
  MaxCalls = 3
  MaxCrashes = 3
\* Once MaxCalls calls are made, the processes are done.
CHECK_DEADLOCK FALSE
INVARIANTS
  HoldsAlone
PROPERTIES
  NoUpdateLost
  GetsThrough
