SPECIFICATION Spec
CONSTANTS
  Nodes = {m, a, b, c, d}
  Main = m
  Stale = {x}
  Modes = {"router", "gfw", "oversea"}
  Relays = {none, m, a}
  Types = {m, a, b, c}
  Ports = {1234}
  None = none
INVARIANTS RoutesKept PortsDistinct
CHECK_DEADLOCK FALSE
