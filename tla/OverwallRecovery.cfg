SPECIFICATION FairSpec
CONSTANTS
  Nodes = {a, b}
  Main = a
  None = none
  MonitorEnabled = TRUE
  SwitchEnabled = FALSE
  Resolves = TRUE
  Installed = TRUE
  Downloads = TRUE
  MaxCommands = 3
  MaxOutages = 1
  MaxCrashes = 1
  MaxSwitches = 0
  MaxCronUpdates = 0
PROPERTIES LockReleased ServiceRecovers NoBlackHole
CHECK_DEADLOCK FALSE
