SPECIFICATION HSpec
CONSTANTS
  HorizontalTotal = 3
  MaxRaster = 2
  Rows = 2
  Switches = {"Columns80"}
  CyclesPerFrame = 3
  BlinkFrames = 2
  MaxCycle = 14
INVARIANTS
  BeamPosition
  BlinkPeriod
  FrameSchedule
  FramesOnTime
PROPERTIES
  LineLength
