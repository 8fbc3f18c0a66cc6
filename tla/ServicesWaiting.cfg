SPECIFICATION ServicesSpec
CONSTANTS
  NumInternal = 1
  ClientIds = {5}
  ClientTypes = {"lanwan"}
  Addrs = {a1, a2}
  Sessions = {i1, i2}
  lst1 = lst1
  lst2 = lst2
  lst3 = lst3
  lst4 = lst4
  Groups = {g}
  FamilyOf <- MCFamilyOf
  Listeners = {lst1, lst2, lst3, lst4}
  ItfOf <- MCItfOf
  MaxListeners = 2
  BatchMax = 2
  McThreads = {"daemon"}
  Flows = {f, g}
  L2Itfs = {"A", "B"}
  L2Queue = 2
  mac1 = mac1
  mac2 = mac2
  MacOrder <- MCMacOrder
  Ports = {1, 2}
  Chunk = 1
  Relays = {r1}
  PeerOf <- MCPeerOf
  CountMax = 2
  SAHandles = {"i1", "o1", "o2"}
  InboundSAs = {"i1"}
  SAConns = {"c"}
  SAUses <- MCSAUses
  TunnelSAs = {"o2"}
  RouteResults = {{"orig", "rep"}}
  TunnelRoutes = {7}
  Options <- MCOptions
  AsymOptions <- MCAsymOptions
  Conntracks <- MCConntracks
  Interfaces = {"eth0"}
  MaxLines = 6
INVARIANT WaitingServed
SYMMETRY ServicesSymmetry
CHECK_DEADLOCK FALSE
