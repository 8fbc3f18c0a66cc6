SPECIFICATION Spec
CONSTANTS
  Nodes = {n1, n2}
  Macs = {m1, m2}
  MAX_UCAST_SOLICIT = 1
  MAX_MCAST_SOLICIT = 1
  MaxUse = 1
  MaxEvents = 3
  Room = 2
  Lossy = FALSE
  None = None
INVARIANT ListsIntact
CHECK_DEADLOCK FALSE
