---------------------------- MODULE BridgePorts ----------------------------
(***************************************************************************)
(* The bridge's forwarding database and who looks into it: cmmBrToFF, which *)
(* needs the port of a route's neighbour (ffbridge.c), and cmmRelayAdd,     *)
(* which needs the ports of a relayed PPPoE session (module_relay.c).  The  *)
(* kernel hands the database out in chunks by position, and it may change   *)
(* between two of them.  Built without VLAN_FILTER.  A search runs under    *)
(* itf_table.lock, so there is one at a time.                               *)
(***************************************************************************)
EXTENDS Integers, FiniteSets, Sequences

CONSTANTS
    MacOrder,       \* the MAC addresses, in the order of the kernel's hash table
    Ports,          \* port numbers, positive
    Chunk,          \* CHUNK: entries per request
    Relays,         \* relayed sessions
    PeerOf,         \* the MAC addresses of their two ends
    CountMax        \* bound: the counter of a relay

Macs == {MacOrder[k] : k \in DOMAIN MacOrder}

ASSUME BrAssumption ==
    /\ Ports \subseteq Nat \ {0} /\ Chunk \in Nat \ {0} /\ CountMax \in Nat \ {0}
    /\ PeerOf \in [Relays -> Macs \X Macs]

VARIABLES
    fdb,            \* the kernel's entries that are not local: a port, or 0
    nport,          \* port of the neighbours by MAC address, 0 for -1
    search,         \* the search under way
    found,          \* how the last search ended
    relay,          \* relay_table: the counter, 0 for no entry
    feRelay         \* the engine's relays
brVars == <<fdb, nport, search, found, relay, feRelay>>

Idle == [for |-> "none"]
NoResult == [for |-> "none"]

(* A search starts at the first entry.  there, seen and calm record what    *)
(* the database had since: the entries present all along, the ports an      *)
(* address had, and whether no entry went away.                             *)
Search(for, m, r) ==
    [for |-> for, mac |-> m, r |-> r, off |-> 0, calm |-> TRUE,
     there |-> {x \in Macs : fdb[x] # 0}, seen |-> {fdb[m]}]

(* BRCTL_GET_FDB_ENTRIES: the entries from position off + 1 on.             *)
Position(m) == Cardinality({k \in DOMAIN MacOrder : fdb[MacOrder[k]] # 0 /\
                               \E j \in DOMAIN MacOrder : MacOrder[j] = m /\ k <= j})
FdbEntries(off) == {m \in Macs : fdb[m] # 0 /\ Position(m) \in (off + 1)..(off + Chunk)}

Ended(res, gaveUp) ==
    found' = [for |-> search.for, mac |-> search.mac, res |-> res, gaveUp |-> gaveUp,
              calm |-> search.calm, there |-> search.there, seen |-> search.seen]

(* Wrong: a neighbour that has a port is looked for as well.                *)
BrToFFAgain(m) ==
    /\ search = Idle
    /\ search' = Search("neigh", m, 0)
    /\ found' = NoResult
    /\ UNCHANGED <<fdb, nport, relay, feRelay>>

(***************************************************************************)
(* cmmBrToFF: only a neighbour without a port is looked for.                *)
(***************************************************************************)
BrToFF(m) ==
    /\ search = Idle /\ nport[m] = 0
    /\ search' = Search("neigh", m, 0)
    /\ found' = NoResult
    /\ UNCHANGED <<fdb, nport, relay, feRelay>>

(* Wrong: the next request starts one entry too far.                        *)
NextOffsetSkips(got) == search.off + Cardinality(got) + 1
NextOffset(got) == search.off + Cardinality(got)

(* cmmBrgetAllMacPort: every chunk gives ports to neighbours; an empty one  *)
(* ends the search, as does the tenth EAGAIN.                               *)
GetAllMacPort ==
    /\ search.for = "neigh"
    /\ LET got == FdbEntries(search.off) IN
       \/ /\ got # {}
          /\ nport' = [m \in Macs |-> IF m \in got THEN fdb[m] ELSE nport[m]]
          /\ search' = [search EXCEPT !.off = NextOffset(got)]
          /\ UNCHANGED found
       \/ /\ got = {}
          /\ search' = Idle
          /\ Ended(nport[search.mac], FALSE)
          /\ UNCHANGED nport
       \/ /\ search' = Idle
          /\ Ended(nport[search.mac], TRUE)
          /\ UNCHANGED nport
    /\ UNCHANGED <<fdb, relay, feRelay>>

(* The neighbour changes or is heard of again: "Force lookup of bridge      *)
(* port".                                                                   *)
ForgetPort(m) ==
    /\ search = Idle /\ nport[m] # 0
    /\ nport' = [nport EXCEPT ![m] = 0]
    /\ found' = NoResult
    /\ UNCHANGED <<fdb, search, relay, feRelay>>

(***************************************************************************)
(* Relays.  cmmRelayAdd holds RelayMutex and itf_table.lock throughout.     *)
(***************************************************************************)
(* An entry that is there is counted; otherwise the input side is looked    *)
(* for, unless an interface is not programmed.                              *)
RelayAdd(r) ==
    /\ search = Idle
    /\ found' = NoResult
    /\ \/ /\ relay[r] \in 1..(CountMax - 1)
          /\ relay' = [relay EXCEPT ![r] = @ + 1]
          /\ UNCHANGED search
       \/ /\ relay[r] = 0
          /\ search' = Search("in", PeerOf[r][1], r)
          /\ UNCHANGED relay
    /\ UNCHANGED <<fdb, nport, feRelay>>

(* cmmBrGetPhysItf stops at the address; no port ends the command.          *)
GetPhysItf ==
    /\ search.for \in {"in", "out"}
    /\ LET got == FdbEntries(search.off)
           m == search.mac
       IN  \/ /\ m \in got /\ search.for = "in"
              /\ search' = Search("out", PeerOf[search.r][2], search.r)
              /\ Ended(fdb[m], FALSE)
           \/ /\ m \in got /\ search.for = "out"
              /\ search' = [for |-> "register", r |-> search.r]
              /\ Ended(fdb[m], FALSE)
           \/ /\ m \notin got /\ got # {}
              /\ search' = [search EXCEPT !.off = NextOffset(got)]
              /\ found' = NoResult
           \/ /\ got = {}
              /\ search' = Idle
              /\ Ended(0, FALSE)
           \/ /\ search' = Idle
              /\ Ended(0, TRUE)
    /\ UNCHANGED <<fdb, nport, relay, feRelay>>

(* FPP_ACTION_REGISTER: the entry is made when the engine has accepted.     *)
RelayRegister(ok) ==
    /\ search.for = "register"
    /\ relay' = IF ok THEN [relay EXCEPT ![search.r] = 1] ELSE relay
    /\ feRelay' = IF ok THEN feRelay \cup {search.r} ELSE feRelay
    /\ search' = Idle /\ found' = NoResult
    /\ UNCHANGED <<fdb, nport>>

(* cmmRelayRemove does not look at the counter.                             *)
RelayRemove(r, ok) ==
    /\ search = Idle /\ relay[r] # 0
    /\ relay' = IF ok THEN [relay EXCEPT ![r] = 0] ELSE relay
    /\ feRelay' = IF ok THEN feRelay \ {r} ELSE feRelay
    /\ found' = NoResult
    /\ UNCHANGED <<fdb, nport, search>>

(***************************************************************************)
(* The kernel learns, moves and ages addresses meanwhile.                   *)
(***************************************************************************)
Searching == search.for \in {"neigh", "in", "out"}
KernelFdb(m, p) ==
    /\ fdb[m] # p
    /\ fdb' = [fdb EXCEPT ![m] = p]
    /\ search' = IF ~Searching THEN search
                 ELSE [search EXCEPT !.calm = @ /\ p # 0,
                                     !.there = IF p = 0 THEN @ \ {m} ELSE @,
                                     !.seen = IF m = search.mac THEN @ \cup {p} ELSE @]
    /\ found' = NoResult
    /\ UNCHANGED <<nport, relay, feRelay>>

BrInit ==
    /\ fdb = [m \in Macs |-> 0] /\ nport = [m \in Macs |-> 0]
    /\ search = Idle /\ found = NoResult
    /\ relay = [r \in Relays |-> 0] /\ feRelay = {}

BrNext ==
    \/ \E m \in Macs : BrToFF(m) \/ ForgetPort(m) \/ \E p \in Ports \cup {0} : KernelFdb(m, p)
    \/ GetAllMacPort \/ GetPhysItf
    \/ \E r \in Relays : RelayAdd(r)
    \/ \E ok \in BOOLEAN : RelayRegister(ok) \/ \E r \in Relays : RelayRemove(r, ok)

BrSpec == BrInit /\ [][BrNext]_brVars

-----------------------------------------------------------------------------
(***************************************************************************)
(* A search that ran to its end found an address that was in the database   *)
(* all along, in whatever chunk it came, unless an entry went away          *)
(* meanwhile (then the positions shift and one entry can be missed).        *)
(***************************************************************************)
PortFound ==
    found.for # "none" /\ found.calm /\ ~found.gaveUp /\ found.mac \in found.there => found.res # 0

(***************************************************************************)
(* A port that a search returns is one the address had while it ran, not    *)
(* one of another address or of an earlier time (fe[i].port_no).            *)
(***************************************************************************)
PortWasTrue == found.for # "none" /\ found.res # 0 => found.res \in found.seen

(***************************************************************************)
(* The engine has exactly the relays of relay_table, with counted entries,  *)
(* searches that fail and commands that are refused (cmmRelayAdd,           *)
(* cmmRelayRemove).                                                         *)
(***************************************************************************)
RelaysInStep == feRelay = {r \in Relays : relay[r] # 0}

(* Searches return what the kernel's database has, and the relays they are  *)
(* made for are the engine's.                                               *)
BridgesFollowed == PortFound /\ PortWasTrue /\ RelaysInStep
=============================================================================
