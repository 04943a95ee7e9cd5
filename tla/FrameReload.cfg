SPECIFICATION Spec
CONSTANTS
  MaxRequests = 2
  MaxReloads = 1
  MaxCrashes = 0
INVARIANTS
  NeverAFrameAhead
