SPECIFICATION FairSpec
CONSTANTS
  Srcs = {s1}
  Hosts = {h1, h2}
  Nowhere = nowhere
  None = none
  Remotes = {r1, r2}
  Queries = {q1}
  Max = 2
  Patient = FALSE
PROPERTY
  EventuallyIdle
CHECK_DEADLOCK FALSE
