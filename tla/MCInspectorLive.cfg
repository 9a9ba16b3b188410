SPECIFICATION FairSpec
CONSTANTS
  s1 = s1
  s2 = s2
  main = main
  starter = starter
  js = js
  Socket <- MCOneSocket
  Main = main
  Starter = starter
  Js = js
  NoSocket = NoSocket
  Kind <- MCLiveKind
  ShouldBreak <- MCNoBreak
  MaxMessages = 3
PROPERTIES
  EveryMessageSettles
  ResumeEndsPause
CHECK_DEADLOCK FALSE
