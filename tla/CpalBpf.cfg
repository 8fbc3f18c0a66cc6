SPECIFICATION BpfSpec
CONSTANTS
  c1 = c1
  N = 3
  Ids <- MCIds
  d1 = d1
  d2 = d2
  Dsts <- MCDsts
  Cts <- MCCts
  OrigMayFail = FALSE
  None = None
INVARIANTS
  RouteFound
  LegsAsAsked
PROPERTY ImplementsEngine
SYMMETRY Sym
