SPECIFICATION FairSpec
CONSTANTS
  IvLen = 2
  HdrLen = 3
  Payload = 5
  Reply = 4
  BufSize = 4
  FastOpen = FALSE
  MaxTries = 1
INVARIANTS
  NoStrayCallback
  SomebodyWaits
PROPERTY
  IsPipe Drained Reaped
CHECK_DEADLOCK FALSE
