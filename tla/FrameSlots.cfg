SPECIFICATION Spec
CONSTANTS
  Slots = 3
  MaxFrames = 4
  MaxCrashes = 1
INVARIANTS
  TypeOK
  OneFramePerSnapshot
  TornOnlyWhenLapped
PROPERTIES
  ImplementsMailbox
