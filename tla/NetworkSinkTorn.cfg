SPECIFICATION Spec
CONSTANTS
  MaxEvents = 3
  CriticalEvents = {2}
  BatchSize = 2
  SegmentLines = 2
  MaxLines = 3
  MaxIndex = 7
  MaxFaults = 1
  MaxCrashes = 2
  PowerCuts = FALSE
  TornAppends = TRUE
INVARIANTS
  AtLeastOnce
CHECK_DEADLOCK FALSE
