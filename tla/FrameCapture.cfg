SPECIFICATION Spec
CONSTANTS
  kMaxCallbacks = 2
  Others = 1
  kMenuFallbackPresents = 1
  MaxFrames = 3
  MaxCalls = 3
INVARIANTS
  TypeOK
  GoneWhenRemoved
  RingIsWhole
  ReleasedForGood
PROPERTY PublishedInOrder
