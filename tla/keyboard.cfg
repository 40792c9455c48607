CONSTANTS
  HostEvents <- MCEvents
  MaxQueue = 3
  MaxTyped = 5
  Callers = {"crtc", "owner"}
  MaxFrames = 3
SPECIFICATION MCSpec
INVARIANTS
  HistoryInv
  TakesInOrder
  HandedOver
PROPERTIES
  ImplementsLog
  EveryKeyTaken
  CallsReturn
