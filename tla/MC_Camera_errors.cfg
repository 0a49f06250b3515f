SPECIFICATION Spec
CONSTANTS
  BusyCalls <- CallbackCalls
  QuietCalls <- NoCalls
  TimeoutFuncs <- BothFuncs
  DetectErrors = TRUE
  ExitErrors = TRUE
  MaxRef = 2
  MaxTimeouts = 2
  MaxDepth = 4
CHECK_DEADLOCK FALSE
INVARIANTS DriverNotReentered 
