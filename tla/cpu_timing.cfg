CONSTANTS
  Half = 3
  BusBytes <- MCBytes
  Opcodes <- MCModes
  StartPCs <- MCStarts
  MaxStarted = 1
  MaxRequested = 1
SPECIFICATION TSpec
PROPERTIES
  InstructionTiming
  InstructionLength
  EffectiveAddressOK
  PointerWrapsInPage
