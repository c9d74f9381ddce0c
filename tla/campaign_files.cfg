SPECIFICATION Spec
CONSTANTS
  MaxActivations = 4
  Chips <- SomeChips
  Victims <- Rows
  Hammers <- Counts
  RpCount = 3
  Waits <- SomeWaits
  Data <- Without
  Arguments = {"not given"}
  Anti = FALSE
  MayFail = FALSE
INVARIANT
  AllExperimentsRun
CHECK_DEADLOCK FALSE
