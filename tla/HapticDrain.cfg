CONSTANTS
  Producers = {game, ipc}
  Slots = 2
  Modulus = 8
  Fields = {duration, rest}
  MaxCalls = 3
  NoOne = NoOne
SPECIFICATION FairSpec
INVARIANTS TypeOK NoTornPulse EveryCallHasATicket NothingUncounted
PROPERTIES InOrderUnlessLapped CatchesUp
