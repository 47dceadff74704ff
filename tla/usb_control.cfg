SPECIFICATION FairSpec
CONSTANTS
  MaxRequests = 3
  MaxResets = 1
  MaxPackets = 2
INVARIANTS
  Ep0InStep
  CallsFitGadget
  AnswersFit
  OneHangUp
PROPERTIES
  NoDropMissed
  RequestAnswered
