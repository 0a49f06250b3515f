\* The receiver of the data may fail.
CONSTANTS
  Transports <- PtpIp
  HandlerFails = TRUE
  FujiRefuses = FALSE
  MaxStale = 0
  MaxSize = 2
  MaxRequests = 5
SPECIFICATION Spec
CHECK_DEADLOCK FALSE
INVARIANT DataIsOwn
