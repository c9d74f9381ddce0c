SPECIFICATION Spec
CONSTANTS
  Scripts <- FaultScripts
  BeatWords = 2
  ReadBeats = 2
  ChunkBeats = 4
  RingCapacity = 10
  MaxInsts = 2
  Faults = {"emptyRead", "failedRead", "failedWrite"}
INVARIANTS
  InOrder
  Conservation
CHECK_DEADLOCK FALSE
