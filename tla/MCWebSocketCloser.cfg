SPECIFICATION Spec
CONSTANTS
  reader = reader
  s1 = s1
  c1 = c1
  Reader = reader
  Sender <- MCSender
  Closer <- MCCloser
  NoThread = NoThread
  CallOp <- MCCallOp
  MaxFrames = 2
  MaxCalls = 1
INVARIANT
  DeliveredIsPrefix
CHECK_DEADLOCK FALSE
