SPECIFICATION FairPSpec
CONSTANTS
  scanner = a
  listener = b
  NoThread = NoThread
  Threads = {a, b, v}
  Apps = {a, b}
  Video = v
  MaxLevel = 2
  visible = TRUE
  DeviceMayFail = TRUE
  Calls <- MCCalls
  HandlerCalls <- MCHandlerCalls
INVARIANTS HandedOver AssertsHold LevelsBalanced
PROPERTIES ImplementsApiLock LockComes
