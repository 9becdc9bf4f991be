SPECIFICATION ExecSpec
CONSTANTS
  ByteBits = 2
  TSpan = 256
  Ticks = {0}
  MatchWords <- MCWords
  IrqWords <- MCIrqWords
  AddrSpan = 256
  Ram <- MCRam
  ResetVector = 128
  Targets <- MCRam
  Vectors <- MCRam
  StatusOperands <- MCIrqWords
  ReservedAddrs <- MCIrqWords
  SysconValues = {0}
  MemRange = 144
  IoSpace <- MCIo
  MTimeLow = 24
  MTimeHigh = 25
  MatchLow = 20
  MatchHigh = 21
  SysconAt = 22
  DeviceWords <- MCDeviceWords
  VendorWord = 240
  MisaWord = 65
  Instrs <- MCInstrs
  NoInstr = NoInstr
  Values <- MCValues
  Image <- MCImage
  MaxSteps = 2
INVARIANT ExecTypeOK
INVARIANT ZeroRegister
PROPERTY ExecutesIsa
PROPERTY StoresInRam
CHECK_DEADLOCK FALSE
