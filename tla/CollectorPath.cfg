SPECIFICATION PathSpec
CONSTANTS
  Configs <- MCConfigs
  Targets = {"t1"}
  Windows <- MCWindows
  Cooldown = 2
  Ttl = 2
  MaxTime = 3
  MaxDrops = 1
  MaxEvaluations = 6
  Capacity = 2
  Reserved = 1
  DropInfo = TRUE
  DropWarning = FALSE
  OfferedLevels = {"Recovery", "Warning", "Critical"}
  MaxPushes = 4
  Moved = Moved
INVARIANTS
  NoSlotRace
  ObservedDepth
  NotificationTracksEvents
  StateFollowsPressure
PROPERTIES
  ReserveKept
  ImplementsBoundedFifo
  AlertLifeCycle
  OpenAlertEnds
CHECK_DEADLOCK FALSE
