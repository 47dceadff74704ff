SPECIFICATION FairSpec
CONSTANTS
  buffer_size = 4
  Producer <- TwoProducers
  Watcher <- OneWatcher
  Packet = 2
  Lengths <- Long
  MaxCalls = 2
  NoByte = NoByte
INVARIANTS
  TypeOK
  MutualExclusion
  ReadyMeansData
PROPERTIES
  FifoPromise
  Drained
