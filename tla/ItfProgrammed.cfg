SPECIFICATION Spec
CONSTANTS
    if1 = if1
    if2 = if2
    if3 = if3
    Order <- MCTwo
    Topologies <- MCVlan
    Addressed = {}
    LinkQueue = 2
    AddrQueue = 0
    CopyMax = 0
    LossMax = 0
INVARIANT ProgrammedWhenUp
