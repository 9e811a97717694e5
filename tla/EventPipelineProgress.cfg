SPECIFICATION FairSpec
CONSTANTS
  Sources <- MCSources
  Sinks <- MCSinks
  SourceCapacity = 1
  SinkCapacity = 1
  StalledSinks = {"network"}
  MaxSequence = 3
  MaxStarts = 1
PROPERTIES
  SinkIsolation
  StopReturns
