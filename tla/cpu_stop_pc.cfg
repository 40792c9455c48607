CONSTANTS
  Half = 3
  BusBytes <- MCStopBytes
  StartPCs <- MCStopStarts
  Opcodes <- MCStopOpcodes
  StopPC <- MCStopPC
SPECIFICATION RunSpec
PROPERTY StopsBeforeStopPC
CHECK_DEADLOCK FALSE
