SPECIFICATION InputSpec
CONSTANTS
  kMaxKeys = 2
  kMouseButtonBase = 2
  Codes = {1, 2}
  MaxFrames = 2
  MaxCalls = 3
INVARIANTS InputTypeOK TableAgrees
CHECK_DEADLOCK FALSE
