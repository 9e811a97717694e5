SPECIFICATION FairSpec
CONSTANTS
  MaxEvents = 2
  CriticalEvents = {2}
  BatchSize = 1
  SegmentLines = 2
  MaxLines = 99
  MaxIndex = 30
  MaxFaults = 2
  MaxCrashes = 1
  PowerCuts = FALSE
  TornAppends = FALSE
PROPERTIES
  EventuallyDelivered
  StopEnds
CHECK_DEADLOCK FALSE
