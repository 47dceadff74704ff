SPECIFICATION FairSpec
CONSTANTS
  Transfers <- SomeTransfers
  MaxTransfers = 3
  MaxDrops = 2
INVARIANTS
  StreamKept
  PayloadBehindConnect
  NothingWaits
  DiesOnlyOfInput
PROPERTIES
  ReadsAgain
