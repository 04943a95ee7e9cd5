SPECIFICATION FairSpec
CONSTANTS
  MaxRequests = 2
  MaxReloads = 0
  MaxCrashes = 1
PROPERTIES
  GameComesBack
  HostComesBack
