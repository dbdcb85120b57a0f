SPECIFICATION Spec
CONSTANTS
  Server = {s1, s2}
  Write = {w1}
  None = None
  DnsModes = {"managed", "manual", "none"}
  LateAnytime = FALSE
  MaxFaults = 1
  MaxKills = 1
SYMMETRY Symmetry
INVARIANTS
  TakeoverIsRecorded
