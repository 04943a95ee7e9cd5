SPECIFICATION Spec
CONSTANTS
  MaxRequests = 2
  MaxReloads = 1
  MaxCrashes = 1
INVARIANTS
  TypeOK
  InLockstepUntilDisturbed
  InsideThePair
  EndsOnlyWhatBegan
PROPERTIES
  ImplementsFrameCalls
