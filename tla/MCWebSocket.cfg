SPECIFICATION FairSpec
CONSTANTS
  reader = reader
  s1 = s1
  c1 = c1
  Reader = reader
  Sender <- MCSender
  Closer <- MCNoCloser
  NoThread = NoThread
  CallOp <- MCTextOnly
  MaxFrames = 3
  MaxCalls = 1
INVARIANTS
  WholeFrames
  PongsAnswerPings
  ProperPeerNotBlamed
PROPERTIES
  ChannelSpec
  EndIsReported
CHECK_DEADLOCK FALSE
