SPECIFICATION ResetSpec
CONSTANTS
  c1 = c1
  c2 = c2
  k1 = k1
  k2 = k2
  None = None
  Cts <- MCCts
  Keys = {k1, k2}
  KeyOf <- MCKeyOf
  Gws = {g1, g2}
  Dsts = {m1, m2}
  Rts = {r1, r2, r3}
  Local <- MCLocal
  Slots <- MCSlots
  MaxId = 3
  Faults = {}
  EngineChecksLinks = FALSE
  MaxEvents = 3
SYMMETRY Sym
INVARIANT FppStateTracked
CHECK_DEADLOCK FALSE
