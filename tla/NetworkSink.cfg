SPECIFICATION Spec
CONSTANTS
  MaxEvents = 3
  CriticalEvents = {2}
  BatchSize = 2
  SegmentLines = 2
  MaxLines = 2
  MaxIndex = 6
  MaxFaults = 1
  MaxCrashes = 2
  PowerCuts = TRUE
  TornAppends = FALSE
INVARIANTS
  AtLeastOnce
  DurableBacklog
  NoNeedlessDuplicates
CHECK_DEADLOCK FALSE
