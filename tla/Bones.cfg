SPECIFICATION Spec
CONSTANTS
  kSlots = 2
  Nodes = {elbow, hand}
  Addresses = {a, b}
  MaxRequests = 3
  MaxPlayers = 1
INVARIANTS TypeOK ListAgrees GoneBeforeTheImage
CHECK_DEADLOCK FALSE
