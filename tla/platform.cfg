SPECIFICATION FairSpec
CONSTANTS
  Scripts <- CheckedScripts
  BeatWords = 1
  ReadBeats = 2
  ChunkBeats = 4
  RingCapacity = 5
  MaxInsts = 2
  Faults = {}
INVARIANTS
  TypeOK
  HostFits
  SendOnlyWhenIdle
  CardMatchesCalls
  OnlyFittingFinishes
PROPERTIES
  ServiceSpec
  OrderlyCompletes
CHECK_DEADLOCK FALSE
