SPECIFICATION Spec
CONSTANTS
    if1 = if1
    if2 = if2
    if3 = if3
    Order <- MCOrder
    Topologies <- MCTopologies
    Addressed = {"macvlan"}
    LinkQueue = 3
    AddrQueue = 2
    CopyMax = 2
    LossMax = 1
INVARIANTS
    KernelFollowed
    RoutesReleased
    EngineEntriesOwned
