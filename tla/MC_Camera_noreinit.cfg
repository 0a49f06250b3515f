SPECIFICATION Spec
CONSTANTS
  BusyCalls <- CallbackCalls
  QuietCalls <- NoCalls
  TimeoutFuncs <- BothFuncs
  DetectErrors = FALSE
  ExitErrors = FALSE
  MaxRef = 2
  MaxTimeouts = 2
  MaxDepth = 4
CHECK_DEADLOCK FALSE
INVARIANT DriverRunsConnected
