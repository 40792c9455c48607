CONSTANTS
  Half = 4
  BusBytes <- MCBytes
  StartPCs <- MCStarts
  Opcodes <- MCOpcodes
  ProgramBytes <- MCProgram
  MaxSequences = 6
  MaxNested = 2
  MaxRequests = 3
SPECIFICATION CSpec
INVARIANTS
  HandlersMaskIRQ
PROPERTIES
  ReturnsMatchCalls
  InterruptsReturn
CHECK_DEADLOCK FALSE
