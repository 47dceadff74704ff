SPECIFICATION Spec
CONSTANTS
  MaxConn = 2
  MaxSend = 1
  MaxCallers = 2
  MaxPackets = 2
  MaxHooks = 1
  IsServer = TRUE
  SlaveReopens = TRUE
  HasSock = TRUE
  Patient = TRUE
  Packets <- AnswerPackets
  ExtReply <- NoReply
INVARIANTS
  CarrierHasLink
  NothingLeaks
  PayloadWithinCall
