SPECIFICATION FairSpec
CONSTANTS
  MaxConn = 2
  MaxSend = 1
  MaxCallers = 0
  MaxPackets = 1
  MaxHooks = 0
  IsServer = FALSE
  SlaveReopens = TRUE
  HasSock = TRUE
  Patient = TRUE
  Packets <- PppPackets
  ExtReply <- NoReply
PROPERTIES
  ProgramHeard
