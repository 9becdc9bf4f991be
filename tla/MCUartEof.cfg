SPECIFICATION Spec
CONSTANTS
  Bytes <- MCBytes
  Sources <- MCSources
  MaxTyped = 3
INVARIANT EofIsEndOfInput
