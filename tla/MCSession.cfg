SPECIFICATION Spec
CONSTANTS
  MaxLine = 2
  MaxAnswer = 2
  OutCap = 1
  ErrCap = 1
INVARIANT
  WaitsForTheDead
PROPERTIES
  SilentAfterReaping
  DeathNoticed
  PromptComesBack
