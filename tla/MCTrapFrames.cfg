SPECIFICATION FramedSpec
CONSTANTS
  TSpan = 2
  Ticks <- MCTicks
  MatchWords <- MCMatchWords
  IrqWords <- MCIrqWords
  AddrSpan = 12
  Ram <- MCRam
  ResetVector = 4
  Targets <- MCTargets
  Vectors <- MCVectors
  StatusOperands <- MCStatusOperands
  ReservedAddrs <- MCReservedAddrs
  SysconValues <- MCSysconValues
CHECK_DEADLOCK FALSE
INVARIANT TypeOK
INVARIANT FrameKept
PROPERTY MretRestores
PROPERTY NoNestedInterrupt
PROPERTY AlwaysPolled
PROPERTY InterruptOnTime
