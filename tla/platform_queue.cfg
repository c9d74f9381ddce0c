SPECIFICATION FairSpec
CONSTANTS
  Scripts <- QueueScripts
  BeatWords = 1
  ReadBeats = 2
  ChunkBeats = 4
  RingCapacity = 4
  MaxInsts = 2
  Faults = {}
PROPERTIES
  ExecuteReturns
CHECK_DEADLOCK FALSE
