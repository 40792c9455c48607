SPECIFICATION MCSpec
CONSTANTS
  MaxCycles = 11
  Realtime = TRUE
  Settle = 3
  Interval = 2
  Limit = 2
  Screens = {ready, listing}
  None = None
INVARIANTS
  CycleLimit
  TerminalRestored
  AtMostOneLateStep
  DumpsPaced
  ChangesDumped
PROPERTIES
  CancelEndsLoop
  ShutdownEnds
CHECK_DEADLOCK FALSE
