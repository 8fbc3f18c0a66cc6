SPECIFICATION Spec
CONSTANTS
  c1 = c1
  c2 = c2
  k1 = k1
  k2 = k2
  None = None
  Cts <- MCOneCt
  Keys = {k1, k2}
  KeyOf <- MCOneKeyOf
  Gws = {g1, g2}
  Dsts = {m1, m2}
  Rts = {r1, r2}
  Local <- MCLocal
  Slots <- MCOneSlots
  MaxId = 3
  Faults = {}
  EngineChecksLinks = FALSE
  MaxEvents = 3
PROPERTIES
  EventuallyInStep
CHECK_DEADLOCK FALSE
