SPECIFICATION Spec
CONSTANTS
  Srcs = {s1, s2}
  Hosts = {h1, h2}
  Nowhere = nowhere
  None = none
  Remotes = {r1, r2, r3}
  Queries = {q1, q2}
  Max = 3
  Patient = TRUE
INVARIANTS
  OneSocketPerClient
  SocketsFiled
  QueriesHoldTheirOwn
  AddressesRespected
PROPERTY
  IsNat
SYMMETRY Symmetry
CHECK_DEADLOCK FALSE
