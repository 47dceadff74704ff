SPECIFICATION FairSpec
CONSTANTS
  Packet = 2
  MaxBytes = 5
  MaxFlips = 4
INVARIANTS
  NothingLost
PROPERTIES
  HostSettles
  StatusSettles
