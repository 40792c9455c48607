CONSTANTS
  MaxCycles = 4
  Realtime = FALSE
SPECIFICATION HSpec
INVARIANT ControlsListen
CHECK_DEADLOCK FALSE
