SPECIFICATION Spec
CONSTANTS
  CacheLines = 2
  WideWords = 2
  Bank = 1
  MaxInfoReads = 8
  Sessions <- AllSessions
  Banks = 2
  Rows = 3
  Junk = {0, 13}
  BranchCycles = 6
  MaxFlips = 1
INVARIANTS
  NoFaults
  ActivatesAsAsked
  TimingMet
  FlipsAreReported
  NothingLeftOver
