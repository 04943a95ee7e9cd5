SPECIFICATION Spec
CONSTANTS
  History = 2
  MaxPoses = 3
  MaxCadences = 1
INVARIANTS
  TypeOK
  NeverTorn
  FramesAgree
  LookupIsExact
