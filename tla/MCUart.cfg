SPECIFICATION FairSpec
CONSTANTS
  Bytes <- MCBytes
  Sources <- MCSources
  MaxTyped = 3
INVARIANT TypeOK
INVARIANT InputExact
INVARIANT TerminalNeverEnds
PROPERTY EveryPollCounts
PROPERTY InputReceived
