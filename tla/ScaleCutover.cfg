SPECIFICATION FairSpec
CONSTANTS
  Server = {s1, s2, s3}
  Write = {w1}
  None = None
  DnsModes = {"managed", "manual", "none"}
  LateAnytime = FALSE
  MaxFaults = 2
  MaxKills = 1
INVARIANTS
  TypeOK
  NoForkedWrites
  RecordHoldsAll
  FenceOnRecord
  ArchivesAlone
  NextBaseHoldsAll
PROPERTIES
  MovesOneWriter
  FenceResolves
