SPECIFICATION FairPSpec
CONSTANTS
  scanner = a
  listener = b
  NoThread = NoThread
  Threads = {a, b, v}
  Apps = {a, b}
  Video = v
  MaxLevel = 2
  visible = TRUE
  DeviceMayFail = FALSE
  Calls <- MCCalls
  HandlerCalls <- MCHandlerCalls
PROPERTIES TimedWaitReturns
