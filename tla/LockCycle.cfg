SPECIFICATION DaemonSpec
CONSTANTS
 Clients = {"c1", "c2"}
 Ids = {1, 2}
 May <- MayList
 EngineLen <- Lens
 LocalTables = {"vlan_itf", "socket"}
 PageLen = 1
 RxMax = 3
 TxMax = 1
 MaxListings = 0
 MaxFaults = 0
 Mutexes <- DaemonMutexes
 Programs <- DaemonPrograms
 FlowCache = FALSE
 Avoided = {}
CHECK_DEADLOCK FALSE
INVARIANT NoLockCycle
