SPECIFICATION MCSpec
CONSTANTS
  cpu = cpu
  video0 = video0
  sound = sound
  components <- Three
  processor = cpu
  crtc = video0
  Switches <- Drawn
  MaxCycle = 4
  UntracedCycles = 2
  MaxTraced = 3
  MaxLines = 3
  Visible = 2
INVARIANTS
  AgesMatchCycle
  WholeFrame
  TraceOfOneMoment
PROPERTIES
  ImplementsLockstep
  StepsReturn
  CloseReachesAll
