CONSTANTS
  MaxCycles = 4
  Realtime = FALSE
SPECIFICATION HSpec
PROPERTY DumpKeepsMachine
CHECK_DEADLOCK FALSE
