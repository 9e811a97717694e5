SPECIFICATION PartsSpec
CONSTANTS
  Pids = {1, 2}
  Names = {"a", "b", "other"}
  sched_process_whitelist = {"a", "b"}
  process_memory_enable = TRUE
  metrics_scrape_collectors = TRUE
  GrowthWindow = 1
  Ttl = 2
  MaxStarts = 2
  MaxExecs = 1
  MaxTime = 4
  Programs = {"a", "other"}
  WatchedPrograms = {"a"}
  SchedPids = {1, 2}
  agent_pid = 0
  SchedRefresh = 2
  SchedTtl = 2
  SchedLimits <- MCLimits
  MaxBirths = 2
  MaxRenames = 1
  MaxSchedTime = 3
  Threads = {1, 2}
  Process <- MCProcess
  NamedThreads = {1}
  Settings <- MCSettings
  EbpfRefresh = 2
  EbpfWindow = 1
  BatchLimit = 2
  RingSize = 1
  AggregateSize = 1
  MaxEbpfTime = 4
  Numbers <- MCNumbers
  nan = nan
  Texts <- MCTexts
  Lower <- MCLower
  Targets = {1, 2}
  Width = 8
  BaselineTtl = 2
  Interval = 2
  io_max_targets = 1
  MaxCount = 2
  MaxPart = 1
  MaxUsageTime = 4
  Fds = {3, 4, 5}
  Publishers = {"fast", "sched"}
  Samples = {1, 2}
  Families = 2
  MaxServers = 2
  MaxClients = 2
  MaxEvents = 3
  MaxPasses = 3
INVARIANTS
  OneProcess
  NoOrphans
  AllowlistComplete
  AllowlistCurrent
  WaitsAccounted
  DeltasReal
  FailureAnnounced
  ClosesOwn
  StopNotStuck
  PublishedTotalBounds
  FamilyConsistent
  AcceptedConfigIsSafe
  RunsOnFixedPoint
PROPERTIES
  KeptWhileAlive
  GoneIsForgotten
  WatchedIsRead
  SampleWindow
CHECK_DEADLOCK FALSE
