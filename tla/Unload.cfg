SPECIFICATION FairSpec
CONSTANTS
  Threads = {"supervisor", "game"}
  Targets = {"Update", "Trace", "Entry", "Texture", "Buffer"}
  MaxHooks = 3
  MaxClients = 2
  MaxAttempts = 1
INVARIANTS TypeOK RetiredForGood
PROPERTY NobodyWaitsForEver
CHECK_DEADLOCK FALSE
