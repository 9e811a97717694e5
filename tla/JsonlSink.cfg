SPECIFICATION Spec
CONSTANTS
  MaxEvents = 4
  CriticalEvents = {2, 3, 4}
  critical_fsync = TRUE
  MaxSyncs = 1
  Minute = 2
  MaxTime = 3
  RotateLines = 2
  CacheLines = 4
  BufferLines = 1
  MaxParts = 3
  MaxFaults = 1
  MaxKills = 1
INVARIANTS
  CriticalFlushed
  CriticalDurable
  SyncRate
  NewestKept
CHECK_DEADLOCK FALSE
