SPECIFICATION Spec
CONSTANTS
  MaxEvents = 2
  CriticalEvents = {2}
  BatchSize = 2
  SegmentLines = 2
  MaxLines = 3
  MaxIndex = 7
  MaxFaults = 1
  MaxCrashes = 1
  PowerCuts = FALSE
  TornAppends = FALSE
INVARIANTS
  KeptUntilReceived
CHECK_DEADLOCK FALSE
