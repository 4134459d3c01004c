SPECIFICATION Spec
CONSTANTS
  Chars <- MCChars
  Sizes <- MCSizes
  MaxRec = 2
INVARIANT
  InBounds
PROPERTY
  ImplementsRecorder
