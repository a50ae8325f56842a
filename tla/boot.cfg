SPECIFICATION BootSpec
CONSTANTS
  AtaIrqUnmasked = FALSE
  FONT_WIDTH = 2
  FONT_HEIGHT = 2
  HorizontalResolution = 6
  VerticalResolution = 4
  Keys <- MCKeys
  Legend <- MCLegend
  FifoSize = 1
  Fingers = 2
  Vectors <- MCVectors
  HandlerAt <- MCHandlerAt
  TssAt <- MCTss
  BootStack <- MCBootStack
  KernelStack <- MCKernelStack
  UserStack <- MCUserStack
  PutChars <- MCPut
  MaxText = 2
  MaxPut = 1
INVARIANTS
  BootTypeOK
  OnlyProgramsStopTheKernel
  ProgramsEnterThroughTheirGate
  ScreenShowsTheText
  KeysComeOutAsTyped
PROPERTIES
  EveryKeyIsPrinted
CHECK_DEADLOCK FALSE
