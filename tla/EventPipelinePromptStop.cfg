SPECIFICATION Spec
CONSTANTS
  Sources <- MCSources
  Sinks <- MCSinks
  SourceCapacity = 1
  SinkCapacity = 1
  StalledSinks = {}
  MaxSequence = 1
  MaxStarts = 1
INVARIANTS
  PromptStop
