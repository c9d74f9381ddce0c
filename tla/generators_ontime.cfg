SPECIFICATION Spec
CONSTANTS
  CacheLines = 2
  WideWords = 2
  Bank = 1
  MaxInfoReads = 8
  Sessions <- OnTimes
  Banks = 2
  Rows = 3
  Junk = {0}
  BranchCycles = 6
  MaxFlips = 0
INVARIANT
  EachAggressorOnAsAsked
