SPECIFICATION Spec
CONSTANTS
  NL = "nl"
  NUL = "nul"
  Bytes <- MCBytes
  READBUFSZ = 4
  DestSz = 3
  MaxTyped = 5
INVARIANT
  WaitsForALine
