----------------------------- MODULE Neighbour -----------------------------
(***************************************************************************)
(* The neighbour cache (neighbor_resolution.c) of one interface: entries    *)
(* taken from a dump of the kernel's table or made up for a route that      *)
(* needs one, followed through RTM_NEWNEIGH and RTM_DELNEIGH, kept on a     *)
(* second list by MAC address while their MAC is usable, and probed while   *)
(* they are stale and in use.                                               *)
(*                                                                         *)
(* The events are read in order, but later than they happened; a dump       *)
(* answers at once and so runs ahead of them.  Events are lost when the     *)
(* socket buffer is full; the thread then asks for all entries again.       *)
(***************************************************************************)
EXTENDS Integers, FiniteSets, Sequences, SequencesExt

CONSTANTS
  Nodes,        \* addresses on the interface
  Macs,
  MAX_UCAST_SOLICIT, MAX_MCAST_SOLICIT,
  MaxUse,       \* bound: routes through one neighbour
  MaxEvents,    \* bound: changes of the kernel's table
  Room,         \* bound: events the socket buffer holds
  Lossy,        \* may the buffer overrun
  None

ASSUME SolicitsAre == MAX_UCAST_SOLICIT \in Nat /\ MAX_MCAST_SOLICIT \in Nat
ASSUME BoundsAre == MaxUse \in Nat /\ MaxEvents \in Nat /\ Room \in Nat

VARIABLES
  kernel,   \* the kernel's neighbour table
  events,   \* changes made to it so far
  q,        \* events in the socket buffer
  overrun,  \* the next read returns ENOBUFS
  neigh,    \* neigh_table
  by_mac,   \* neigh_table_by_mac: the MAC an entry is filed under, or None
  corrupt   \* an entry was cut out of a list it is not on, or freed on one

vars == <<kernel, events, q, overrun, neigh, by_mac, corrupt>>

(* NUD_VALID; "probe" stands for PROBE, DELAY and PERMANENT, "failed" for   *)
(* FAILED, INCOMPLETE and NONE.                                             *)
NUD_VALID == {"reachable", "stale", "probe", "noarp"}
States == {"reachable", "stale", "probe", "failed"}
Valid(e) == e.state \in NUD_VALID

(* The kernel knows some neighbours already. (bound: all with one MAC)      *)
Init ==
  /\ LET m == CHOOSE m \in Macs : TRUE
     IN  kernel \in [Nodes -> {None, [state |-> "stale", mac |-> m, told |-> TRUE]}]
  /\ events = 0
  /\ q = <<>> /\ overrun = FALSE
  /\ neigh = [n \in Nodes |-> None]
  /\ by_mac = [n \in Nodes |-> None]
  /\ corrupt = FALSE

----------------------------------------------------------------------------
(* The kernel.                                                              *)
Event(type, n, state, mac) == [type |-> type, node |-> n, state |-> state, mac |-> mac]

Send(v) ==
  IF Len(q) < Room
  THEN q' = Append(q, v) /\ UNCHANGED overrun
  ELSE Lossy /\ overrun' = TRUE /\ UNCHANGED q

KernelChanges ==
  /\ events < MaxEvents
  /\ events' = events + 1
  /\ UNCHANGED <<neigh, by_mac, corrupt>>

(* A neighbour that is looked for appears without an event.                 *)
KernelCreate(n) ==
  /\ kernel[n] = None
  /\ kernel' = [kernel EXCEPT ![n] = [state |-> "failed", mac |-> None, told |-> FALSE]]
  /\ KernelChanges
  /\ UNCHANGED <<q, overrun>>

KernelUpdate(n, s, m) ==
  /\ kernel[n] # None
  /\ (m = None) = (s = "failed")
  /\ kernel[n] # [state |-> s, mac |-> m, told |-> TRUE]
  /\ kernel' = [kernel EXCEPT ![n] = [state |-> s, mac |-> m, told |-> TRUE]]
  /\ Send(Event("NEW", n, s, m))
  /\ KernelChanges

(* The event carries the last state, or NOARP when an interface is flushed. *)
KernelDelete(n, flush) ==
  /\ kernel[n] # None
  /\ kernel' = [kernel EXCEPT ![n] = None]
  /\ Send(Event("DEL", n, IF flush THEN "noarp" ELSE kernel[n].state, kernel[n].mac))
  /\ KernelChanges

Kernel ==
  \E n \in Nodes :
    \/ KernelCreate(n)
    \/ \E s \in States, m \in Macs \cup {None} : KernelUpdate(n, s, m)
    \/ \E flush \in BOOLEAN : KernelDelete(n, flush)

----------------------------------------------------------------------------
(* __cmmNeighAdd                                                            *)
NewEntry == [state |-> "failed", mac |-> None, count |-> 0, solicit |-> FALSE, probes |-> 0]

(* cmmNeighborNetlinkLookupAll: the entries the kernel has and CMM has not. *)
Missing == {n \in Nodes : neigh[n] = None /\ kernel[n] # None}
LookedUp(n) ==
  IF n \in Missing THEN [NewEntry EXCEPT !.state = kernel[n].state, !.mac = kernel[n].mac]
  ELSE neigh[n]

(* __cmmNeighGet: with no entry for n all of the interface's neighbours are *)
(* looked up; if the kernel does not know n either its entry is a dummy.    *)
NeighGet(n) ==
  /\ neigh[n] # None => neigh[n].count < MaxUse
  /\ IF neigh[n] # None
     THEN /\ neigh' = [neigh EXCEPT ![n].count = @ + 1]
          /\ UNCHANGED by_mac
     ELSE /\ neigh' = [m \in Nodes |->
                         IF m # n THEN LookedUp(m)
                         ELSE [(IF n \in Missing THEN LookedUp(n) ELSE NewEntry)
                                 EXCEPT !.count = 1]]
          /\ by_mac' = [m \in Nodes |-> IF m \in Missing THEN kernel[m].mac ELSE by_mac[m]]
  /\ UNCHANGED <<kernel, events, q, overrun, corrupt>>

(* __cmmNeighRemove of n, whose fields are those of e by now: its state     *)
(* says whether it is on the list by MAC.                                   *)
NeighRemove(n, e) ==
  /\ neigh' = [neigh EXCEPT ![n] = None]
  /\ by_mac' = [by_mac EXCEPT ![n] = None]
  /\ corrupt' = (Valid(e) # (by_mac[n] # None))

NeighPut(n) ==
  /\ neigh[n] # None /\ neigh[n].count > 0
  /\ IF neigh[n].count = 1
     THEN NeighRemove(n, neigh[n])
     ELSE /\ neigh' = [neigh EXCEPT ![n].count = @ - 1]
          /\ UNCHANGED <<by_mac, corrupt>>
  /\ UNCHANGED <<kernel, events, q, overrun>>

(* The neighbours' part of cmmFeReset: every entry is removed.              *)
NeighReset ==
  /\ neigh' = [n \in Nodes |-> None]
  /\ by_mac' = [n \in Nodes |-> None]
  /\ corrupt' = \E n \in Nodes : neigh[n] # None /\ Valid(neigh[n]) # (by_mac[n] # None)
  /\ UNCHANGED <<kernel, events, q, overrun>>

----------------------------------------------------------------------------
(* cmmNeighborUpdate: entry e after event v.                                *)

(* A bug to compare with: a stale neighbour is probed though no route uses  *)
(* it.                                                                      *)
ProbedUnused(e, v) ==
  IF v.state = "reachable" /\ e.solicit
  THEN [e EXCEPT !.solicit = FALSE, !.probes = 0]
  ELSE IF v.state = "stale" /\ ~ e.solicit
  THEN [e EXCEPT !.solicit = TRUE] ELSE e

(* A reachable neighbour need not be probed; a stale one in use must.       *)
Probed(e, v) ==
  IF v.state = "reachable" /\ e.solicit
  THEN [e EXCEPT !.solicit = FALSE, !.probes = 0]
  ELSE IF v.state = "stale" /\ ~ e.solicit /\ e.count > 0
  THEN [e EXCEPT !.solicit = TRUE] ELSE e

(* The MAC is taken when it is usable, and forgotten when it is not.        *)
Updated(e, v) ==
  [Probed(e, v) EXCEPT !.state = v.state, !.mac = IF Valid(v) THEN v.mac ELSE None]

(* A bug to compare with: a change of MAC leaves the entry where it was     *)
(* filed.                                                                   *)
RefiledOnce(n, e, v) ==
  IF Valid(v) THEN (IF Valid(e) THEN by_mac[n] ELSE v.mac) ELSE None

(* Where the list by MAC has the entry: __cmmNeighborResolved puts it on    *)
(* the list, __cmmNeighborUnresolved takes it off, a new MAC does both.     *)
Refiled(n, e, v) ==
  IF ~ Valid(v) THEN (IF Valid(e) THEN None ELSE by_mac[n])
  ELSE IF ~ Valid(e) \/ e.mac # v.mac THEN v.mac ELSE by_mac[n]

(* An event for an entry; NOARP and neighbours CMM does not follow are left *)
(* alone.  A deleted neighbour that no route uses is removed.               *)
NeighborUpdate(v) ==
  LET n == v.node
      e == neigh[n]
  IN  IF v.state = "noarp" \/ e = None
      THEN UNCHANGED <<neigh, by_mac, corrupt>>
      ELSE IF v.type = "DEL" /\ e.count = 0
      THEN NeighRemove(n, [e EXCEPT !.state = v.state])
      ELSE /\ neigh' = [neigh EXCEPT ![n] = Updated(e, v)]
           /\ by_mac' = [by_mac EXCEPT ![n] = Refiled(n, e, v)]
           /\ corrupt' = (Valid(e) # (by_mac[n] # None))

(* The thread reads one event.                                              *)
Listen ==
  /\ ~ overrun /\ q # <<>>
  /\ q' = Tail(q)
  /\ NeighborUpdate(Head(q))
  /\ UNCHANGED <<kernel, events, overrun>>

(* A bug to compare with: lost events are not made up for.                  *)
ListenFailsQuietly ==
  /\ overrun
  /\ overrun' = FALSE
  /\ UNCHANGED <<kernel, events, q, neigh, by_mac, corrupt>>

(* ENOBUFS: all of the kernel's neighbours are asked for, and come as       *)
(* RTM_NEWNEIGH after what is in the buffer.                                *)
ListenFails ==
  /\ overrun
  /\ overrun' = FALSE
  /\ \E order \in SetToSeqs({n \in Nodes : kernel[n] # None}) :
       q' = q \o [i \in DOMAIN order |->
                    Event("NEW", order[i], kernel[order[i]].state, kernel[order[i]].mac)]
  /\ UNCHANGED <<kernel, events, neigh, by_mac, corrupt>>

(* A bug to compare with: probes are sent and not counted.                  *)
ProbeUncounted(e) ==
  IF ~ e.solicit \/ e.probes < MAX_UCAST_SOLICIT + MAX_MCAST_SOLICIT THEN e
  ELSE [e EXCEPT !.solicit = FALSE, !.probes = 0]

(* One round of cmmNeighSendSolicit for an entry on neigh_state_table (one  *)
(* with NEEDS_SOLICIT): a probe to its MAC, later to everyone, then no more.*)
Probe(e) ==
  IF ~ e.solicit THEN e
  ELSE IF e.probes < MAX_UCAST_SOLICIT + MAX_MCAST_SOLICIT
  THEN [e EXCEPT !.probes = @ + 1]
  ELSE [e EXCEPT !.solicit = FALSE, !.probes = 0]

NeighSendSolicit ==
  /\ neigh' = [n \in Nodes |-> IF neigh[n] = None THEN None ELSE Probe(neigh[n])]
  /\ UNCHANGED <<kernel, events, q, overrun, by_mac, corrupt>>

Read == ~ corrupt /\ (Listen \/ ListenFails)
Timer == ~ corrupt /\ NeighSendSolicit

(* After a list is damaged nothing is known of the program any more.        *)
Next ==
  \/ ~ corrupt /\ (\E n \in Nodes : NeighGet(n) \/ NeighPut(n))
  \/ ~ corrupt /\ NeighReset
  \/ ~ corrupt /\ Kernel
  \/ Read
  \/ Timer

(* The conntrack thread reads its sockets, and its timer expires every      *)
(* second.                                                                  *)
Spec == Init /\ [][Next]_vars /\ WF_vars(Read) /\ WF_vars(Timer)

----------------------------------------------------------------------------
Entries == [state : States, mac : Macs \cup {None}, count : 0..MaxUse,
            solicit : BOOLEAN, probes : 0..(MAX_UCAST_SOLICIT + MAX_MCAST_SOLICIT)]

(* Everything is of its type; an entry is probed at most MAX_UCAST_SOLICIT  *)
(* + MAX_MCAST_SOLICIT times.                                               *)
TypeOK ==
  /\ kernel \in [Nodes -> [state : States, mac : Macs \cup {None}, told : BOOLEAN] \cup {None}]
  /\ events \in 0..MaxEvents
  /\ q \in Seq([type : {"NEW", "DEL"}, node : Nodes, state : States \cup {"noarp"},
                mac : Macs \cup {None}])
  /\ overrun \in BOOLEAN
  /\ neigh \in [Nodes -> Entries \cup {None}]
  /\ by_mac \in [Nodes -> Macs \cup {None}]
  /\ corrupt \in BOOLEAN

(* The list by MAC has exactly the entries whose MAC is usable, each where  *)
(* its MAC hashes to: the bridge code (__cmmNeighUpdateAllMacs) finds an    *)
(* entry by that list only.                                                 *)
FiledByMac ==
  ~ corrupt => \A n \in Nodes :
    by_mac[n] = IF neigh[n] # None /\ Valid(neigh[n]) THEN neigh[n].mac ELSE None

(* The cache is well formed, its probe counts within their limits, and      *)
(* filed by MAC address (__cmmNeighAdd, cmmNeighborUpdate).                 *)
CacheFiled == TypeOK /\ FiledByMac

(* Only a neighbour some route uses is probed, and probes are counted from  *)
(* zero each time (cmmNeighborUpdate, cmmNeighSendSolicit).                 *)
ProbedInUse ==
  ~ corrupt => \A n \in Nodes : neigh[n] # None =>
    /\ neigh[n].solicit => neigh[n].count > 0
    /\ neigh[n].probes > 0 => neigh[n].solicit

(* With all events read, CMM has for each of its neighbours that the kernel *)
(* has settled the MAC the kernel has, usable or not: whichever events were *)
(* lost, and however far a dump ran ahead of them.                          *)
InStep ==
  ~ corrupt /\ q = <<>> /\ ~ overrun =>
    \A n \in Nodes : neigh[n] # None /\ kernel[n] # None /\ kernel[n].told =>
      neigh[n].mac = kernel[n].mac /\ (Valid(neigh[n]) <=> Valid(kernel[n]))

(* Probing comes to an end, whether or not the neighbour ever answers, and  *)
(* the cache ends up in step with the kernel.                               *)
Settles ==
  <>[][~ Kernel]_vars =>
    <>[](corrupt \/ (q = <<>> /\ ~ overrun /\ InStep
                     /\ \A n \in Nodes : neigh[n] # None => ~ neigh[n].solicit))

(* "Neigh entries which are not used by any conntrack are removed from CMM  *)
(* when the corresponding neigh entry is deleted by Kernel": removed from   *)
(* every list they are on, and cut out of no other (__cmmNeighRemove).      *)
ListsIntact == ~ corrupt
============================================================================
