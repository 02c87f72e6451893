SPECIFICATION Spec
CONSTANTS
  Nodes = {a, b}
  Main = a
  None = none
  MonitorEnabled = TRUE
  SwitchEnabled = TRUE
  Resolves = FALSE
  Installed = FALSE
  Downloads = FALSE
  MaxCommands = 1
  MaxOutages = 1
  MaxCrashes = 1
  MaxSwitches = 1
  MaxCronUpdates = 1
INVARIANTS Consistent
CHECK_DEADLOCK FALSE
