SPECIFICATION GuestSpec
CONSTANTS
  TSpan = 4
  Ticks <- MCTicks
  MatchWords <- MCMatchWords
  IrqWords <- MCIrqWords
INVARIANT GuestTypeOK
INVARIANT ReadsOneTime
INVARIANT NoSpuriousTimer
PROPERTY ImplementsTimer64
