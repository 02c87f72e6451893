SPECIFICATION Spec
CONSTANTS
  IvLen = 1
  HdrLen = 2
  Payload = 3
  Reply = 2
  BufSize = 3
  FastOpen = TRUE
  MaxTries = 1
INVARIANT
  StreamIntact
CHECK_DEADLOCK FALSE
