SPECIFICATION Spec
CONSTANTS
  MaxConn = 3
  MaxSend = 0
  MaxCallers = 0
  MaxPackets = 2
  MaxHooks = 2
  IsServer = FALSE
  SlaveReopens = TRUE
  HasSock = FALSE
  Patient = FALSE
  Packets <- CommandPackets
  ExtReply <- LucentReply
INVARIANTS
  NothingLeaks
PROPERTIES
  HostPromise
