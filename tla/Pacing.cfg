SPECIFICATION FairPacing
CONSTANTS
  kDivisorWindow = 24
  kMaxDivisor = 4
  kPacingGiveUp = 30
  Period = 1000
  Works = {700, 1300, 4400}
  Counted = {12}
  Longest = 40000
  MaxChanges = 1
INVARIANTS PacingTypeOK WaitsForTheDivisor
PROPERTY Settles
