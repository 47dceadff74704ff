SPECIFICATION Spec
CONSTANTS
  MaxConn = 2
  MaxSend = 1
  MaxCallers = 1
  MaxPackets = 1
  MaxHooks = 0
  IsServer = TRUE
  SlaveReopens = TRUE
  HasSock = TRUE
  Patient = TRUE
  Packets <- Ppp100Packets
  ExtReply <- NoReply
INVARIANTS
  PppCallHearsPtyOnly
