SPECIFICATION Spec
CONSTANTS
  Sources <- MCSources
  Sinks <- MCSinks
  SourceCapacity = 1
  SinkCapacity = 1
  StalledSinks = {"network"}
  MaxSequence = 4
  MaxStarts = 2
INVARIANTS
  Conservation
  CleanStop
  SingleProducer
PROPERTIES
  PerSourceOrder
