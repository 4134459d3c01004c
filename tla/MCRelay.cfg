SPECIFICATION RelaySpec
CONSTANTS
  NL = "nl"
  NUL = "nul"
  Bytes <- MCBytes
  Memory <- MCMemory
  READBUFSZ = 4
  DestSz = 3
  MaxTyped = 5
INVARIANTS
  TypeOK
  LineByLine
  ShortLinesWhole
  CutLinesKeepTheirPlace
PROPERTIES
  LinesDelivered
  ImplementsWire
  CompleteLinesSent
