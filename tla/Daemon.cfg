SPECIFICATION DaemonSpec
CONSTANTS
 Clients = {"c1", "c2"}
 Ids = {1, 2}
 May <- MayList
 EngineLen <- Lens
 LocalTables = {"vlan_itf", "socket"}
 PageLen = 1
 RxMax = 3
 TxMax = 1
 MaxListings = 2
 MaxFaults = 1
 Mutexes <- DaemonMutexes
 Programs <- DaemonPrograms
 FlowCache = TRUE
 Avoided <- NotMet
INVARIANT AnswersOwn
INVARIANT CompleteListing
INVARIANT NoLockCycle
CHECK_DEADLOCK FALSE
PROPERTY ListingEnds
PROPERTY TerminationEnds
