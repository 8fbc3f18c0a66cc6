SPECIFICATION Spec
CONSTANTS
  c1 = c1
  c2 = c2
  Order <- MCOrder
  Bidir = 1
  Unidir = 0
  Quarter = 1
  Udp = {c2}
  None = None
PROPERTY AllChecked
