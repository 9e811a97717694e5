SPECIFICATION AlertSpec
CONSTANTS
  Configs <- MCConfigs
  Targets = {"t1"}
  Windows <- MCWindows
  Cooldown = 0
  Ttl = 2
  MaxTime = 2
  MaxDrops = 0
  MaxEvaluations = 4
  QueueCapacity = 1
PROPERTIES
  RecoveryFollowsActivation
CHECK_DEADLOCK FALSE
