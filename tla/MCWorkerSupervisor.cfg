SPECIFICATION FairSpec
CONSTANTS
  Own = 1
  Foreign = 2
  Starts = {1, 2}
  NoStart = 0
  Gone = {"own", "foreign", "root_missing"}
  MaxTime = 2
  MaxSamples = 1
INVARIANTS
  TypeOK
  OutcomeTellsTheEnd
  ChildIsReaped
  OkReportIsTrusted
PROPERTIES
  EveryRunEnds
  CollectorStops
CHECK_DEADLOCK FALSE
