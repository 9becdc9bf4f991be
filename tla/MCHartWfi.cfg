SPECIFICATION FairSpec
CONSTANTS
  TSpan = 2
  Ticks <- MCTicks
  MatchWords <- MCMatchWords
  IrqWords <- MCIrqWords
  AddrSpan = 12
  Ram <- MCRam
  ResetVector = 4
  Targets <- MCTargets
  Vectors <- MCVectors
  StatusOperands <- MCStatusOperands
  ReservedAddrs <- MCReservedAddrs
  SysconValues <- MCSysconValues
PROPERTY SleepingHartStays
CHECK_DEADLOCK FALSE
