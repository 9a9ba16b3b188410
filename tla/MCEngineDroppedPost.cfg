SPECIFICATION Spec
CONSTANTS
  main = main
  worker = worker
  js1 = js1
  js2 = js2
  Caller <- MCCaller
  Main <- main
  JsThread <- MCJsThread
  Delay <- MCDelay
  MaxTime = 1
  MaxPosts = 4
  NoCaller = NoCaller
  NoThread = NoThread
  NoMessage = NoMessage
INVARIANT
  EveryPostIsAccepted
CHECK_DEADLOCK FALSE
