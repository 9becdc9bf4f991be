SPECIFICATION FairSpec
CONSTANTS
  Lines <- MCLines
  VaddrBase = 16
  MemSize = 8
  DtbSize = 2
  DtbAt = 21
  UartA1 = 21
  SizeCell = 1
  Sizes <- MCSizes
  Programs <- MCPrograms
  Returns <- MCReturns
  PowerOff = 21845
  ClockSpan = 4
  CycleSpan = 4
  MaxNow = 8
  MaxSettings = 1
INVARIANT TypeOK
INVARIANT GuestTimeExact
INVARIANT KernelHasTree
INVARIANT ProgramInMemory
PROPERTY FileIsMeant
PROPERTY LoopEndsForAReason
PROPERTY LoopProgresses
PROPERTY StopReachesPrompt
PROPERTY EveryRunEnds
CHECK_DEADLOCK FALSE
