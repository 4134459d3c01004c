SPECIFICATION Spec
CONSTANTS
  Input <- MCInput
  MAX_OSC_STR_SZ = 2
  MAX_ANSISEQ_PARAMS = 2
  INT_MAX = 76
  MaxData = 5
INVARIANTS
  StopsAtFirst
  StoredIsParsed
  OutOfBoundsByItself
