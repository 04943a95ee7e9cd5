SPECIFICATION Spec
CONSTANTS
  kUiSlots = 2
  MaxLayers = 3
  Reshapes = {3}
  MaxCalls = 1
INVARIANTS TypeOK ShownIsWhole RetirementIsOwed
CHECK_DEADLOCK FALSE
