SPECIFICATION FairSpec
CONSTANTS
  LogoutTries = 3
  IspTries = 10
  KeepTries = 5
  Relogin = TRUE
  MaxSignals = 2
INVARIANTS
  Accounted
  CleanExit
  PortalKnown
PROPERTIES SignalExits EventuallyUpgraded
