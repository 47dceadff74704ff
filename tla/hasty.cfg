SPECIFICATION Spec
CONSTANTS
  MaxConn = 2
  MaxSend = 0
  MaxCallers = 1
  MaxPackets = 1
  MaxHooks = 2
  IsServer = TRUE
  SlaveReopens = TRUE
  HasSock = TRUE
  Patient = FALSE
  Packets <- GlarePackets
  ExtReply <- NoReply
INVARIANTS
  NoDoubleClose
  NothingLeaks
  TerminateNeedsCollision
