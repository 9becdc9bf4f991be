SPECIFICATION FairSpec
CONSTANTS
  TSpan = 2
  Ticks <- MCTicks
  MatchWords <- MCMatchWords
  IrqWords <- MCIrqWords
  AddrSpan = 8
  Ram <- MCRam
  ResetVector = 4
  Targets <- MCTargets
  Vectors <- MCVectors
  StatusOperands <- MCStatusOperands
  ReservedAddrs <- MCReservedAddrs
  SysconValues <- MCSysconValues
PROPERTY TimerInterruptDelivered
CHECK_DEADLOCK FALSE
