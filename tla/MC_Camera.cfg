SPECIFICATION FairSpec
CONSTANTS
  BusyCalls <- CallbackCalls
  QuietCalls <- NoCalls
  TimeoutFuncs <- BothFuncs
  DetectErrors = FALSE
  ExitErrors = FALSE
  MaxRef = 2
  MaxTimeouts = 2
  MaxDepth = 4
CHECK_DEADLOCK FALSE
INVARIANTS TypeOK UsedMatchesOperation NoUseAfterFree
  PostponedExitHonoured LastReferenceFrees 
PROPERTIES SessionSpec EveryCallReturns
