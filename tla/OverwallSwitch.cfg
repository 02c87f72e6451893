SPECIFICATION FairSpec
CONSTANTS
  N = 4
  Main = 2
  Enabled = {1, 2, 4}
  Shunts = {3, 4}
  MayRefuse = TRUE
  MaxChanges = 6
INVARIANTS NoServerMeansNone AclRestored
PROPERTIES MainRegained FindsNode
