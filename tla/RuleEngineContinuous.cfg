SPECIFICATION Spec
CONSTANTS
  Configs <- MCConfigs
  Targets = {"t1"}
  Windows <- MCWindows
  Cooldown = 2
  Ttl = 2
  MaxTime = 3
  MaxDrops = 1
  MaxEvaluations = 6
PROPERTIES
  ContinuousCritical
CHECK_DEADLOCK FALSE
