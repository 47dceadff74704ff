SPECIFICATION FairSpec
CONSTANTS
  MaxConn = 2
  MaxSend = 0
  MaxCallers = 2
  MaxPackets = 1
  MaxHooks = 1
  IsServer = TRUE
  SlaveReopens = FALSE
  HasSock = TRUE
  Patient = TRUE
  Packets <- AnswerPackets
  ExtReply <- NoReply
PROPERTIES
  HangUpEnds
