SPECIFICATION Spec
CONSTANTS
  Tuples = {t1}
  Protos = {"tcp"}
  MaxId = 4
  MAX_CT_ID = 2
  Room = 3
  Lossy = FALSE
  LossAtBoot = FALSE
  RacyProtos = {}
  Outcomes = {"prog"}
  Removes = "never"
  None = None
INVARIANT PermanentTracked
