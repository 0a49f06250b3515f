\* Both transports, two stale responses, a camera that may vanish.
CONSTANTS
  Transports <- BothTransports
  HandlerFails = FALSE
  FujiRefuses = FALSE
  MaxStale = 2
  MaxSize = 2
  MaxRequests = 5
SPECIFICATION FairSpec
CHECK_DEADLOCK FALSE
INVARIANTS TypeOK  FailureIsReal NothingLeft
 
