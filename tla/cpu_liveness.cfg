CONSTANTS
  Half = 3
  BusBytes <- MCBytes
  StartPCs <- MCStarts
  Opcodes <- MCOpcodes
  StopPC = NoStop
SPECIFICATION FairSpec
PROPERTIES
  NMITaken
  IRQTaken
  IllegalStops
