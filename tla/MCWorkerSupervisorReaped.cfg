SPECIFICATION Spec
CONSTANTS
  Own = 1
  Foreign = 2
  Starts = {1, 2}
  NoStart = 0
  Gone = {"root_missing"}
  MaxTime = 2
  MaxSamples = 1
INVARIANT
  CompletedReportsOk
CHECK_DEADLOCK FALSE
