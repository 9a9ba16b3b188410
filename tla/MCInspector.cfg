SPECIFICATION Spec
CONSTANTS
  s1 = s1
  s2 = s2
  main = main
  starter = starter
  js = js
  Socket <- MCSocket
  Main = main
  Starter = starter
  Js = js
  NoSocket = NoSocket
  Kind <- MCKind
  ShouldBreak <- MCShouldBreak
  MaxMessages = 2
INVARIANTS
  MessageAccounted
  SessionReturns
PROPERTIES
  PausesAreLostOnlyIfRefused
  ContinuesOnlyIfReleased
  TargetSpec
SYMMETRY MCSymmetry
CHECK_DEADLOCK FALSE
