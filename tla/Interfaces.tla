----------------------------- MODULE Interfaces -----------------------------
(***************************************************************************)
(* The interface table of CMM (itf.c) with the virtual interfaces it        *)
(* programs in the forward engine: VLAN (module_vlan.c), PPPoE (pppoe.c),   *)
(* MACVLAN (module_macvlan.c) and tunnels (module_tunnel.c).  The kernel    *)
(* publishes link events and address events on two netlink sockets; the     *)
(* conntrack thread takes them in any relative order, each socket in its    *)
(* own order, while the daemon thread runs client commands and any lookup   *)
(* of an unknown interface re-reads all links and addresses.  FCI build,    *)
(* without VLAN_FILTER, WIFI_ENABLE, LS1043, SAM_LEGACY.                    *)
(***************************************************************************)
EXTENDS Naturals, FiniteSets, SequencesExt

CONSTANTS
    Order,          \* the interfaces, in the order of a link dump (ifindex)
    Topologies,     \* records [kind, lower, policy]: the kind of each interface, what it is
                    \* stacked on, and the VLAN policy of the configuration file
    Addressed,      \* the kinds of interface that are given an address in this instance
    LinkQueue,      \* bound: link events waiting in the rth_link socket
    AddrQueue,      \* bound: events waiting in the rth_ifaddr socket
    CopyMax,        \* bound: copies of one address in an entry
    LossMax         \* bound: receive-buffer overruns of the rth_link socket

VARIABLES
    kind, lower,    \* fixed by Init
    vlan_policy,    \* globalConf.vlan_policy, fixed by Init
    kern,           \* the kernel: "none" (not created), "down", "up" or "gone"
    kaddr, krule,   \* the kernel: interfaces with an address, with a 4rd rule
    links, addrs,   \* the events of the two sockets
    tbl,            \* itf_table
    fe,             \* interfaces that have an entry in the forward engine
    leaked,         \* interfaces freed while they still held a route
    refused,        \* interfaces whose removal the engine refused
    blind,          \* interfaces whose "up" event was taken when they were gone
    early,          \* interfaces whose address event was taken before their link event
    losses          \* overruns so far

fixed == <<kind, lower, vlan_policy>>
kernVars == <<kern, kaddr, krule>>
cmmVars == <<tbl, fe, leaked, refused>>
vars == <<fixed, kernVars, links, addrs, cmmVars, blind, early, losses>>

Itf == Range(Order)
Kinds == {"eth", "absent", "vlan", "ppp", "macvlan", "autotnl", "clitnl", "floating"}
Tunnels == {"autotnl", "clitnl", "floating"}
Present(i) == kern[i] \in {"down", "up"}

(***************************************************************************)
(* struct interface.  phys is "none" until an up event gave phys_ifindex;   *)
(* id is the flag that records the kind (ITF_VLAN, ITF_MACVLAN, ITF_TUNNEL, *)
(* the PPP type); rt is what the tunnel's route holds: nothing, a cached    *)
(* route, or also an engine route ("full"); rid tells that an engine route  *)
(* id was given to the engine.                                              *)
(***************************************************************************)
NoItf == [in |-> FALSE, up |-> FALSE, prog |-> FALSE, needs |-> FALSE, id |-> FALSE,
          phys |-> "none", sess |-> FALSE, user |-> FALSE, en |-> FALSE,
          rt |-> "none", rid |-> FALSE, rule |-> FALSE, copies |-> 0]

(***************************************************************************)
(* What the environment answers while a handler runs: ok, the engine        *)
(* carries out a command; sess, /proc/net/pppoe lists the session; rt, how  *)
(* far the route lookup of a tunnel gets.  An answer nothing asks for has   *)
(* one value.                                                               *)
(***************************************************************************)
Answers == [ok : BOOLEAN,
            sess : IF \E i \in Itf : kind[i] = "ppp" THEN BOOLEAN ELSE {FALSE},
            rt : IF \E i \in Itf : kind[i] \in Tunnels THEN {"none", "cache", "full"} ELSE {"none"}]

(* The CMM side of the state, as one value that the steps of a handler pass *)
(* on: S.t the table, S.fe the engine, S.leaked and S.refused.              *)
Cmm == [t |-> tbl, fe |-> fe, leaked |-> leaked, refused |-> refused]

Becomes(S) == /\ tbl' = S.t
              /\ fe' = S.fe
              /\ leaked' = S.leaked
              /\ refused' = S.refused

(***************************************************************************)
(* FPP_ACTION_REGISTER: ALREADY_REGISTERED counts as success.               *)
(***************************************************************************)
FeRegister(S, i, ok) ==
    IF ok THEN [S EXCEPT !.fe = @ \cup {i}, !.t[i].prog = TRUE, !.t[i].needs = FALSE] ELSE S

(* Wrong: the flag is cleared whatever the engine answers.                  *)
FeDeregisterForgets(S, i, ok) ==
    IF S.t[i].prog THEN [S EXCEPT !.fe = IF ok THEN @ \ {i} ELSE @, !.t[i].prog = FALSE] ELSE S

(* FPP_ACTION_DEREGISTER: NOT_FOUND counts as success.                      *)
FeDeregister(S, i, ok) ==
    CASE ~S.t[i].prog -> S
      [] S.t[i].prog /\ ok -> [S EXCEPT !.fe = @ \ {i}, !.t[i].prog = FALSE]
      [] OTHER -> [S EXCEPT !.refused = @ \cup {i}]

(* ADD is refused for a programmed interface, needing an update or not.     *)
FeVLANUpdate(S, i, add, ok) ==
    IF add THEN IF S.t[i].prog THEN S ELSE FeRegister(S, i, ok)
           ELSE FeDeregister(S, i, ok)

FePPPoEUpdate(S, i, add, ok) == FeVLANUpdate(S, i, add, ok)

(* As the others, except that an ADD leaves FPP_NEEDS_UPDATE alone.         *)
FeMacVlanUpdate(S, i, add, ok) ==
    LET needs == S.t[i].needs IN
    [FeVLANUpdate(S, i, add, ok) EXCEPT !.t[i].needs = needs]

(***************************************************************************)
(* Tunnels.                                                                 *)
(***************************************************************************)
(* FPP_CMD_TUNNEL_UPDATE: the engine knows only tunnels it was given.       *)
TunnelSendUpdate(S, i, ok) ==
    IF S.t[i].prog /\ S.t[i].needs /\ ok /\ i \in S.fe
    THEN [S EXCEPT !.t[i].needs = FALSE] ELSE S

TunnelSendAddUpdate(S, i, ok) ==
    IF S.t[i].prog THEN TunnelSendUpdate(S, i, ok) ELSE FeRegister(S, i, ok)

TunnelSendDel(S, i, ok) == FeDeregister(S, i, ok)

(* A route that is held is completed, never looked up again.                *)
RouteRegister(rt, found) ==
    CASE rt = "none" -> found
      [] rt = "cache" /\ found # "full" -> "cache"
      [] OTHER -> "full"

(* A floating tunnel (SIT or 4o6 without a destination) needs no route.     *)
(* moved tells that the engine route got another id.                        *)
TunnelRouted(S, i, found, moved) ==
    LET e == S.t[i]
        rt == IF kind[i] = "floating" THEN "none" ELSE RouteRegister(e.rt, found)
        en == kind[i] = "floating" \/ rt = "full"
    IN  [S EXCEPT !.t[i] = [e EXCEPT !.rt = rt, !.en = en, !.rid = (rt = "full"),
            !.needs = @ \/ moved \/ e.en # en \/ e.rid # (rt = "full")]]

TunnelAddStep(S, i, ans, moved) ==
    IF S.t[i].up /\ S.t[i].user
    THEN TunnelSendAddUpdate(TunnelRouted(S, i, ans.rt, moved), i, ans.ok) ELSE S

TunnelAdd(S, i, ans) == TunnelAddStep(S, i, ans, FALSE)

(* Wrong: the route is kept when the engine refuses.                        *)
TunnelDelKeeps(S, i, ok) ==
    IF ok THEN [TunnelSendDel(S, i, ok) EXCEPT !.t[i].rt = "none"] ELSE TunnelSendDel(S, i, ok)

(* The route goes whatever the engine answered.                             *)
TunnelDel(S, i, ok) == [TunnelSendDel(S, i, ok) EXCEPT !.t[i].rt = "none"]

TunnelUpdate(S, i, ok) ==
    TunnelSendUpdate([S EXCEPT !.t[i].needs = TRUE, !.t[i].en = FALSE], i, ok)

(***************************************************************************)
(* __itf_update.  An interface that is up is marked programmed whether or   *)
(* not the engine was told; a down one keeps every other field.  The kind   *)
(* is asked of the kernel: ITF_VLAN stays once set, ITF_TUNNEL is cleared   *)
(* and set again only if the ioctl finds the tunnel.                        *)
(***************************************************************************)
GetVlan(e, i) == e.id \/ Present(i)

GetTunnel(e, i) == [e EXCEPT !.id = Present(i),
                             !.user = @ \/ (Present(i) /\ kind[i] # "clitnl")]

(* Without a session the PPP interface stands for its own lower interface.  *)
GetPPPoESession(e, i, listed) ==
    LET s == listed /\ Present(i) IN
    [e EXCEPT !.id = TRUE, !.sess = s, !.phys = IF s THEN lower[i] ELSE i,
              !.needs = @ \/ (s /\ ~e.sess)]

ItfUpdate(e, i, up, ans) ==
    LET known == [e EXCEPT !.in = TRUE, !.up = up]
        on == [known EXCEPT !.prog = TRUE, !.phys = lower[i]]
    IN  CASE ~up -> known
          [] up /\ kind[i] = "ppp" -> GetPPPoESession(on, i, ans.sess)
          [] up /\ kind[i] = "vlan" -> [on EXCEPT !.id = GetVlan(e, i)]
          [] up /\ kind[i] = "macvlan" -> [on EXCEPT !.id = TRUE]
          [] up /\ kind[i] \in Tunnels -> GetTunnel(on, i)
          [] OTHER -> on

(* Physical ports are in the engine from the start.                         *)
ItfIsProgrammed(S, i) == i \in Itf /\ S.t[i].in /\ (S.t[i].prog \/ kind[i] = "eth")

(* __itf_remove frees the entry and its addresses and rules, not its route. *)
ItfRemove(S, i) ==
    [S EXCEPT !.t[i] = NoItf,
              !.leaked = IF S.t[i].rt # "none" THEN @ \cup {i} ELSE @]

(* Wrong: every RTM_DELLINK of a down device removes the entry.             *)
UnregistersAnyDel(ev) == ev.del /\ ~ev.up

(* Removal: the device is being unregistered, not just leaving a bridge.    *)
Unregisters(ev) == ev.del /\ ~ev.up /\ ev.all

(* cmmVlanCheckPolicy: with the policy MANUAL link events leave VLANs alone, *)
(* those that clients registered included.                                  *)
VlanCheckPolicy == vlan_policy # "manual"

LinkProgram(S, ev, ans) ==
    LET i == ev.i
        e == S.t[i]
    IN  IF kind[i] \in Tunnels /\ e.id
        THEN CASE e.up -> TunnelAdd(S, i, ans)
               [] ~e.up /\ ev.del -> TunnelDel(S, i, ans.ok)
               [] OTHER -> TunnelUpdate(S, i, ans.ok)
        ELSE IF ~e.id \/ ~ItfIsProgrammed(S, e.phys) THEN S
        ELSE CASE kind[i] = "ppp" -> FePPPoEUpdate(S, i, e.up /\ e.sess, ans.ok)
               [] kind[i] = "vlan" -> IF VlanCheckPolicy THEN FeVLANUpdate(S, i, e.up, ans.ok) ELSE S
               [] OTHER -> FeMacVlanUpdate(S, i, e.up, ans.ok)

(* __updatelink.                                                            *)
UpdateLink(S, ev, ans) ==
    LET i == ev.i
        S1 == [S EXCEPT !.t[i] = ItfUpdate(S.t[i], i, ev.up, ans)]
        S2 == LinkProgram(S1, ev, ans)
    IN  CASE Unregisters(ev) /\ ~S.t[i].in -> S
          [] Unregisters(ev) /\ S.t[i].in -> ItfRemove(S2, i)
          [] OTHER -> S2

(***************************************************************************)
(* __itf_table_update: every link of the kernel, then every address, then   *)
(* every 4rd rule.  Addresses are added without looking for a copy.         *)
(***************************************************************************)
(* Wrong: addresses of an interface that is down are passed over.           *)
NewAddrIfUp(S, i) == IF S.t[i].in /\ S.t[i].up THEN [S EXCEPT !.t[i].copies = @ + 1] ELSE S

NewAddr(S, i) == IF S.t[i].in THEN [S EXCEPT !.t[i].copies = @ + 1] ELSE S

DelAddr(S, i) == IF S.t[i].in /\ S.t[i].copies > 0 THEN [S EXCEPT !.t[i].copies = @ - 1] ELSE S

(* The first rule of a tunnel makes it a 4rd one, the last removed undoes   *)
(* that; both update the engine's tunnel.                                   *)
MrSet(S, i, on, ok) ==
    IF ~S.t[i].in \/ S.t[i].rule = on THEN S
    ELSE TunnelSendUpdate([S EXCEPT !.t[i].rule = on, !.t[i].needs = TRUE], i, ok)

DumpLinks(S, ans) ==
    FoldLeft(LAMBDA s, i : IF Present(i)
                           THEN UpdateLink(s, [i |-> i, del |-> FALSE, up |-> kern[i] = "up", all |-> FALSE], ans)
                           ELSE s,
             S, Order)

DumpAddrs(S) == FoldLeft(LAMBDA s, i : IF i \in kaddr THEN NewAddr(s, i) ELSE s, S, Order)

DumpRules(S, ok) == FoldLeft(LAMBDA s, i : IF i \in krule THEN MrSet(s, i, TRUE, ok) ELSE s, S, Order)

ItfTableUpdate(S, ans) == DumpRules(DumpAddrs(DumpLinks(S, ans)), ans.ok)

(* __itf_get.                                                               *)
ItfGet(S, i, ans) == IF S.t[i].in THEN S ELSE ItfTableUpdate(S, ans)

RoomForCopies == \A i \in kaddr : tbl[i].copies < CopyMax

(***************************************************************************)
(* The kernel.  An interface comes up only over a lower one that is up and  *)
(* goes down with it, the lower one reported first.                         *)
(***************************************************************************)
Over(i) == {j \in Itf : lower[j] = i /\ j # i}
Link(i, del, up, all) == [i |-> i, del |-> del, up |-> up, all |-> all]
Publish(evs) == /\ Len(links) + Len(evs) <= LinkQueue
                /\ links' = links \o evs
PublishAddr(evs) == /\ Len(addrs) + Len(evs) <= AddrQueue
                    /\ addrs' = addrs \o evs

KernelCreate(i) ==
    /\ kern[i] = "none" /\ kind[i] # "absent"
    /\ Present(lower[i]) \/ lower[i] = i
    /\ kern' = [kern EXCEPT ![i] = "down"]
    /\ Publish(<<Link(i, FALSE, FALSE, FALSE)>>)
    /\ UNCHANGED <<kaddr, krule, addrs>>

KernelUp(i) ==
    /\ kern[i] = "down"
    /\ lower[i] = i \/ kern[lower[i]] = "up"
    /\ kern' = [kern EXCEPT ![i] = "up"]
    /\ Publish(<<Link(i, FALSE, TRUE, FALSE)>>)
    /\ UNCHANGED <<kaddr, krule, addrs>>

(* Any other change of an interface (mtu, address, master).  That of a port *)
(* changes nothing in the table and is left out, here and below.            *)
KernelChange(i) ==
    /\ Present(i) /\ kind[i] # "eth"
    /\ Publish(<<Link(i, FALSE, kern[i] = "up", FALSE)>>)
    /\ UNCHANGED <<kernVars, addrs>>

KernelDown(i) ==
    /\ kern[i] = "up"
    /\ LET falls == {i} \cup {j \in Itf : kern[j] = "up" /\ (lower[j] = i \/ lower[lower[j]] = i)}
           inOrder == SelectSeq(Order, LAMBDA j : j \in falls)
       IN  /\ kern' = [j \in Itf |-> IF j \in falls THEN "down" ELSE kern[j]]
           /\ Publish([n \in DOMAIN inOrder |-> Link(inOrder[n], FALSE, FALSE, FALSE)])
    /\ UNCHANGED <<kaddr, krule, addrs>>

(* A port leaves its bridge: an RTM_DELLINK of a device that stays.         *)
KernelLeaveBridge(i) ==
    /\ Present(i) /\ kind[i] # "eth"
    /\ Publish(<<Link(i, TRUE, kern[i] = "up", FALSE)>>)
    /\ UNCHANGED <<kernVars, addrs>>

(* Its address goes with it; a new device has a new ifindex.                *)
KernelDelete(i) ==
    /\ kern[i] = "down" /\ kind[i] # "eth"
    /\ \A j \in Over(i) : ~Present(j)
    /\ kern' = [kern EXCEPT ![i] = "gone"]
    /\ kaddr' = kaddr \ {i}
    /\ krule' = krule \ {i}
    /\ Publish(<<Link(i, TRUE, FALSE, TRUE)>>)
    /\ PublishAddr(IF i \in kaddr THEN <<[i |-> i, t |-> "deladdr"]>> ELSE <<>>)

KernelAddr(i) ==
    /\ Present(i) /\ kind[i] \in Addressed
    /\ kaddr' = IF i \in kaddr THEN kaddr \ {i} ELSE kaddr \cup {i}
    /\ PublishAddr(<<[i |-> i, t |-> IF i \in kaddr THEN "deladdr" ELSE "newaddr"]>>)
    /\ UNCHANGED <<kern, krule, links>>

KernelRule(i) ==
    /\ Present(i) /\ kind[i] = "floating"
    /\ krule' = IF i \in krule THEN krule \ {i} ELSE krule \cup {i}
    /\ PublishAddr(<<[i |-> i, t |-> IF i \in krule THEN "del4rd" ELSE "new4rd"]>>)
    /\ UNCHANGED <<kern, kaddr, links>>

Kernel ==
    /\ \E i \in Itf : \/ KernelCreate(i) \/ KernelUp(i) \/ KernelChange(i)
                      \/ KernelDown(i) \/ KernelLeaveBridge(i) \/ KernelDelete(i)
                      \/ KernelAddr(i) \/ KernelRule(i)
    /\ UNCHANGED <<fixed, cmmVars, blind, early, losses>>

(* The socket overflows and the kernel drops the newest message; the     *)
(* read returns ENOBUFS, which cmm_rtnl_listen logs and passes over.                     *)
Overrun ==
    /\ losses < LossMax /\ links # <<>>
    /\ links' = Front(links)
    /\ losses' = losses + 1
    /\ UNCHANGED <<fixed, kernVars, addrs, cmmVars, blind, early>>

(***************************************************************************)
(* The handlers of CMM.                                                     *)
(***************************************************************************)
(* cmmRtnlLink.                                                             *)
RtnlLink ==
    /\ links # <<>>
    /\ links' = Tail(links)
    /\ \E ans \in Answers : Becomes(UpdateLink(Cmm, Head(links), ans))
    /\ blind' = IF Head(links).up /\ ~Present(Head(links).i) THEN blind \cup {Head(links).i} ELSE blind
    /\ UNCHANGED <<fixed, kernVars, addrs, early, losses>>

(* cmmRtnlIfAddr.                                                           *)
RtnlIfAddr ==
    /\ addrs # <<>>
    /\ addrs' = Tail(addrs)
    /\ LET i == Head(addrs).i
           t == Head(addrs).t
       IN  /\ \/ t = "newaddr" /\ tbl[i].copies < CopyMax /\ Becomes(NewAddr(Cmm, i))
              \/ t = "deladdr" /\ Becomes(DelAddr(Cmm, i))
              \/ t \in {"new4rd", "del4rd"} /\ \E ok \in BOOLEAN : Becomes(MrSet(Cmm, i, t = "new4rd", ok))
           /\ early' = IF t = "newaddr" /\ ~tbl[i].in THEN early \cup {i} ELSE early
    /\ UNCHANGED <<fixed, kernVars, links, blind, losses>>

(* Any lookup that misses: a conntrack, a route or a client names an        *)
(* interface the table does not have yet.                                   *)
Lookup(i) ==
    /\ ~tbl[i].in /\ RoomForCopies
    /\ \E ans \in Answers : Becomes(ItfGet(Cmm, i, ans))

(* vlan add and vlan delete of a client: if_nametoindex needs the device.   *)
VlanRegister(i) ==
    /\ Present(i) /\ tbl[i].in /\ kind[i] = "vlan" /\ tbl[i].id /\ tbl[i].up
    /\ \E ok \in BOOLEAN : Becomes(FeVLANUpdate(Cmm, i, TRUE, ok))

VlanDeregister(i) ==
    /\ Present(i) /\ tbl[i].in /\ kind[i] = "vlan" /\ tbl[i].id
    /\ \E ok \in BOOLEAN : Becomes(FeVLANUpdate(Cmm, i, FALSE, ok))

(* tunnel add of a client: only tunnels of the EtherIP and GRE6 types, and  *)
(* if bound to an interface, only to a programmed one.                      *)
ClientTunnelAdd(i) ==
    /\ Present(i) /\ kind[i] = "clitnl" /\ RoomForCopies
    /\ \E ans \in Answers :
          LET S == ItfGet(Cmm, i, ans)
              user == [S EXCEPT !.t[i].user = TRUE]
          IN  Becomes(IF S.t[i].in /\ S.t[i].id /\ ItfIsProgrammed(S, S.t[i].phys)
                      THEN TunnelAdd(user, i, ans) ELSE S)

(* tunnel del of a client.                                                  *)
ClientTunnelDel(i) ==
    /\ Present(i) /\ kind[i] \in Tunnels /\ tbl[i].in /\ tbl[i].id
    /\ \E ok \in BOOLEAN : Becomes(TunnelDel(Cmm, i, ok))

(* __cmmTunnelUpdateWithRoute: the route of the tunnel changed.  The engine *)
(* route is dropped and asked for again, under the same id or another.      *)
TunnelUpdateWithRoute(i) ==
    /\ kind[i] \in Tunnels /\ tbl[i].id /\ tbl[i].rt # "none"
    /\ \E ans \in Answers, moved \in BOOLEAN :
          Becomes(TunnelAddStep([Cmm EXCEPT !.t[i].rt = "cache"], i, ans, moved))

(* __cmmRouteNew: a tunnel that waits for a route is tried again.           *)
RouteNew(i) ==
    /\ kind[i] \in Tunnels /\ tbl[i].id /\ tbl[i].rt = "none"
    /\ \E ans \in Answers : Becomes(TunnelAdd(Cmm, i, ans))

Command ==
    /\ \E i \in Itf : \/ Lookup(i) \/ VlanRegister(i) \/ VlanDeregister(i)
                      \/ ClientTunnelAdd(i) \/ ClientTunnelDel(i)
                      \/ TunnelUpdateWithRoute(i) \/ RouteNew(i)
    /\ UNCHANGED <<fixed, kernVars, links, addrs, blind, early, losses>>

(* cmmVlanReset, before the first dump.                                     *)
VlanReset == fe = {}

(* The first dump: the physical ports are up, the rest is created later.    *)
Init ==
    /\ \E top \in Topologies : kind = top.kind /\ lower = top.lower /\ vlan_policy = top.policy
    /\ kern = [i \in Itf |-> IF kind[i] = "eth" THEN "up" ELSE "none"]
    /\ kaddr = {} /\ krule = {} /\ links = <<>> /\ addrs = <<>>
    /\ tbl = [i \in Itf |-> IF kind[i] = "eth"
                            THEN ItfUpdate(NoItf, i, TRUE, CHOOSE a \in Answers : TRUE) ELSE NoItf]
    /\ VlanReset
    /\ leaked = {} /\ refused = {} /\ blind = {} /\ early = {}
    /\ losses = 0

Next == Kernel \/ Overrun \/ RtnlLink \/ RtnlIfAddr \/ Command

Spec == Init /\ [][Next]_vars

-----------------------------------------------------------------------------
(* Every variable has its type.                                             *)
TypeOK ==
    /\ kind \in [Itf -> Kinds] /\ lower \in [Itf -> Itf]
    /\ vlan_policy \in {"allow", "prohibit", "manual"}
    /\ kern \in [Itf -> {"none", "down", "up", "gone"}]
    /\ {kaddr, krule, fe, leaked, refused, blind, early} \subseteq SUBSET Itf
    /\ \A i \in Itf : /\ tbl[i].rt \in {"none", "cache", "full"}
                      /\ tbl[i].phys \in Itf \cup {"none"}
                      /\ tbl[i].copies \in 0..CopyMax
                      /\ ~tbl[i].in => tbl[i] = NoItf

(***************************************************************************)
(* Once every link event has been taken, and unless the socket overflowed,  *)
(* the table holds exactly the interfaces of the kernel, with the kernel's  *)
(* up flag, whatever dumps ran between the events (itf.c, __updatelink).    *)
(***************************************************************************)
LinksSynchronised ==
    links = <<>> /\ losses = 0 =>
        \A i \in Itf : /\ tbl[i].in <=> Present(i)
                      /\ tbl[i].in => (tbl[i].up <=> kern[i] = "up")

(***************************************************************************)
(* Once both sockets are drained, an address of the kernel is in the entry  *)
(* of its interface, unless its event was taken before the link event of    *)
(* that interface: __newaddr drops it then, and nothing asks for it again.  *)
(***************************************************************************)
AddressesKnown ==
    links = <<>> /\ addrs = <<>> /\ losses = 0 =>
        \A i \in kaddr : tbl[i].copies > 0 \/ i \in early

(* The table is well formed and follows the kernel's links and addresses.   *)
KernelFollowed == TypeOK /\ LinksSynchronised /\ AddressesKnown

(***************************************************************************)
(* An interface leaves the table with its tunnel route released, except one *)
(* whose "up" event was taken after the device was gone: the ioctl then     *)
(* fails, the entry is no tunnel any more, and __updatelink frees it with   *)
(* the route still referenced.                                              *)
(***************************************************************************)
RoutesReleased == losses = 0 => leaked \subseteq blind

(***************************************************************************)
(* Every entry of the engine belongs to an interface of the table that is   *)
(* marked programmed, except where the engine refused its removal, where    *)
(* the interface was asked about too late, and for two sorts of VLAN that   *)
(* __updatelink skips: one stacked on a virtual interface that was removed  *)
(* before it, and, with the policy MANUAL, any VLAN that a client           *)
(* registered: when its device is deleted the engine's entry stays.         *)
(***************************************************************************)
EngineEntriesOwned ==
    losses = 0 =>
        \A i \in fe : \/ tbl[i].in /\ tbl[i].prog
                      \/ i \in refused \cup blind
                      \/ kind[i] = "vlan" /\ kind[lower[i]] # "eth"
                      \/ kind[i] = "vlan" /\ ~VlanCheckPolicy /\ kern[i] = "gone"

(***************************************************************************)
(* "lets programm the interface which is up" (__itf_update), "Interfaces    *)
(* are programmed in fpp when they are up and removed when they are down"   *)
(* (the developer's guide): a VLAN that is up, whose events have all been   *)
(* taken and which no client and no refusal removed, has an engine entry.   *)
(***************************************************************************)
ProgrammedWhenUp ==
    \A i \in Itf : kind[i] = "vlan" /\ links = <<>> /\ tbl[i].up /\ tbl[i].prog => i \in fe
=============================================================================
