SPECIFICATION Spec
CONSTANTS
  MaxActivations = 4
  Chips <- SomeChips
  Victims <- Rows
  Hammers <- Counts
  RpCount = 3
  Waits <- SomeWaits
  Data <- SomeData
  Arguments = {"not given", "SA0", "MI1", "other"}
  Anti = TRUE
  MayFail = TRUE
INVARIANTS
  RowsReached
  HcfExact
  RpExact
  SweepExact
  AntiRowsExact
  Accounted
PROPERTIES
  CampaignEnds
CHECK_DEADLOCK FALSE
