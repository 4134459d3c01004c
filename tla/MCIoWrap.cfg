SPECIFICATION Spec
CONSTANTS
  DestSizes = {2}
  Lens = {1, 3}
  PipeCap = 2
  MaxOut = 4
  MaxIn = 2
INVARIANTS
  OnceInOrder
  TranscriptTells
PROPERTIES
  ReadableIsRead
  CallsReturn
