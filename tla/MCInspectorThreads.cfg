SPECIFICATION Spec
CONSTANTS
  s1 = s1
  s2 = s2
  main = main
  starter = starter
  js = js
  Socket <- MCOneSocket
  Main = main
  Starter = starter
  Js = js
  NoSocket = NoSocket
  Kind <- MCKind
  ShouldBreak <- MCShouldBreak
  MaxMessages = 2
INVARIANT
  OneThreadInIsolate
CHECK_DEADLOCK FALSE
