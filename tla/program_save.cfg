SPECIFICATION BuildSpec
CONSTANTS
  Labels = {"a", "b"}
  Others <- Loops
  Parsed <- Loops
  Insts <- LoadAndSleep
  Slots <- ReadSlots
  Waits = {0, 3}
  CanDump = TRUE
  MaxInfoReads = 3
  MaxCalls = 5
  Registers = {0, 1, 10, 15}
  Halves <- Bit16
  Offsets <- Bit16
  Immediates <- Bit32
  Targets = {0, 1, 2047, 524287}
  Cycles = {3, 4, 65537, 1073741823}
  Counts = {1, 1024}
PROPERTY
  SavedWhole
CHECK_DEADLOCK FALSE
