\* Two failovers, so that a timeline's number may come back; one fault: a segment
\* dropped, a run that dies, or a step that goes unanswered.
SPECIFICATION Spec
CONSTANTS
  Server = {s1, s2}
  None = None
  MaxSegment = 1
  MaxFailovers = 2
  MaxFaults = 1
  MaxBackups = 2
SYMMETRY Servers
\* The bounds stop it.
CHECK_DEADLOCK FALSE
INVARIANTS
  LatestRestores
  OnlyPrimaryPushes
