SPECIFICATION Spec
CONSTANTS
  Tuples = {t1}
  Protos = {"udp", "tcp"}
  MaxId = 4
  MAX_CT_ID = 2
  Room = 3
  Lossy = TRUE
  LossAtBoot = FALSE
  RacyProtos = {"udp"}
  Outcomes = {"prog", "wait"}
  Removes = "in step"
  None = None
INVARIANTS
  TableFresh
  NoneMissed
PROPERTY Settles
