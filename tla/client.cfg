SPECIFICATION FairSpec
CONSTANTS
  MaxConn = 2
  MaxSend = 2
  MaxCallers = 0
  MaxPackets = 3
  MaxHooks = 1
  IsServer = FALSE
  SlaveReopens = FALSE
  HasSock = TRUE
  Patient = TRUE
  Packets <- ClientPackets
  ExtReply <- NoReply
INVARIANTS
  TypeOK
  ConnectAnnounced
  CarrierHasLink
  NothingLeaks
  PayloadWithinCall
  PayloadToItsCall
PROPERTIES
  HangUpEnds
  PlayerHeard
