CONSTANTS
  Half = 4
  BusBytes <- MCBytes
  StartPCs <- MCStarts
  Opcodes <- MCReturnOpcodes
  ProgramBytes <- MCProgram
  MaxSequences = 4
  MaxNested = 1
  MaxRequests = 1
SPECIFICATION CSpec
PROPERTY NoInstructionSkipped
CHECK_DEADLOCK FALSE
