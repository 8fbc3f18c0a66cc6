------------------------------ MODULE Handlers ------------------------------
(***************************************************************************)
(* The lock programs of the daemon's handlers: for each one, the mutexes   *)
(* it takes on each of its paths.  The threads that run them are those of  *)
(* Locks.tla.  cmm.h turns IPSEC_FLOW_CACHE on unless the build defines    *)
(* IPSEC_NO_FLOW_CACHE: FlowCache says which of the two builds it is.      *)
(* Without WIFI_ENABLE and SAM_LEGACY.                                     *)
(*                                                                         *)
(* Left out: logMutex and send_mutex, taken and given back around one call *)
(* with nothing taken inside, and what main() runs before the threads      *)
(* exist (cmmVlanReset, itf_table_update and the first cmmFeReset).        *)
(***************************************************************************)
EXTENDS SequencesExt

CONSTANTS FlowCache, \* IPSEC_FLOW_CACHE
          Avoided    \* the handlers no thread is asked to run

Itf == "itf_table.lock"
Ct == "ctMutex"
Rt == "rtMutex"
Neigh == "neighMutex"
Flow == "flowMutex"
Sock == "socket_lock"
Sa == "sa_lock"
Mc == "mc_lock"
Br == "brMutex"
Relay == "RelayMutex"
ExtRoute == "RouteMutex"

DaemonMutexes == {Itf, Ct, Rt, Neigh, Flow, Sock, Sa, Mc, Br, Relay, ExtRoute}

Talk == <<[op |-> "io", mutex |-> "none"]>>

\* The body, with the mutexes taken in order before it and given back in
\* reverse after it.
Under(mutexes, body) ==
  [i \in 1..Len(mutexes) |-> [op |-> "lock", mutex |-> mutexes[i]]]
    \o body
    \o Reverse([i \in 1..Len(mutexes) |-> [op |-> "unlock", mutex |-> mutexes[i]]])

\* flowMutex, taken after neighMutex where the build has it.
Flows == IF FlowCache THEN <<Flow>> ELSE <<>>

Chain == <<Itf, Ct, Rt, Neigh>> \o Flows

SockChain == <<Itf, Rt, Neigh>> \o Flows \o <<Sock>>

(***************************************************************************)
(* What a registration, a deregistration and a route update take inside    *)
(* their caller's mutexes.                                                 *)
(***************************************************************************)
\* lro_socket_open, at the end of the registration of a local connection.
LroSocket == {Talk, Under(<<Sock>>, Talk)}

\* __cmmCtRegister: refused by the rules; a known connection; a new one.
RegisterPaths ==
  {Under(<<Rt>>, Talk)}
    \cup {Under(<<Rt, Neigh>> \o Flows, b) : b \in LroSocket}
    \cup {Under(<<Rt>>, Under(<<ExtRoute>>, Talk) \o Under(<<Neigh>> \o Flows, b)) : b \in LroSocket}

\* ____cmmCtDeregister: the engine is told first, the routes are put after,
\* and its flows last; for a local connection, the routes and the socket.
DeregisterPaths ==
  {Talk \o Under(<<Rt, Neigh>>, Talk) \o (IF FlowCache THEN Under(Flows, Talk) ELSE <<>>),
   Under(<<Rt, Neigh>>, Under(<<Sock>>, Talk))}

\* __cmmRouteUpdate: the connections, tunnels, sockets and SAs of a route.
RouteUpdate == {Talk, Under(<<Sa>>, Talk), Under(<<Sock>>, Talk),
                Under(<<Sa>>, Talk) \o Under(<<Sock>>, Talk)}

(***************************************************************************)
(* The conntrack thread: conntrack, engine, link, address, neighbour,      *)
(* route, bridge and key events, and the timer.                            *)
(***************************************************************************)
cmmCtCatch == {Under(<<Itf, Ct>>, b) : b \in RegisterPaths \cup DeregisterPaths \cup {<<>>}}

cmmCtResync == {Under(<<Ct>>, b) : b \in DeregisterPaths \cup {Talk}}

cmmFeCtChange == {Under(<<Itf, Ct>>, b) : b \in DeregisterPaths \cup {Talk}}

cmmFeL2FlowChange == {Under(<<Br>>, Talk)}

ifaddr == {Under(<<Itf>>, <<>>)}

updatelink == {Under(Chain, b \o Under(<<Mc>>, Talk)) : b \in RouteUpdate}

cmmNeighborUpdate == {Under(Chain, b) : b \in RouteUpdate}

\* RTM_NEWROUTE also serves the SAs and the sockets that wait for a route.
cmmRtnlRoute == {Under(Chain, b) : b \in RouteUpdate}

cmm_l2flow_netlink_rcv == {Under(<<Br>>, Talk)}

cmmSACreate == {Under(<<Sa>>, <<>>)}

\* cmmSADelete, cmmSAFlush and cmmSASetState
cmmSAChange == {Under(<<Sa>> \o Chain, b) : b \in LroSocket}

cmmSASetTunnel == {Under(<<Sa, Itf, Rt, Neigh>> \o Flows, Talk)}

\* Without the flow cache: the connections that waited for an SA.
cmmUpdateCtEntriesInFlowNoSAList ==
  IF FlowCache THEN {} ELSE {Under(<<Sa>> \o Chain, b) : b \in LroSocket}

\* With it: a flow is added or changed, and its connections, tunnels and
\* sockets follow; a flow is removed.
cmmKeyEngineFlow2Conntrack ==
  IF FlowCache THEN {Under(Chain \o <<Sa>>, b) : b \in LroSocket} ELSE {}

cmmKeyEngineFlowRemove == IF FlowCache THEN {Under(Chain, <<>>)} ELSE {}

cmmPPPoEAutoKeepAlive == {Under(<<Itf>>, Talk)}

\* The queue of probes is built under neighMutex and sent after it; each
\* probe looks up the addresses of its interface.
cmmNeighSendSolicit ==
  {Under(<<Neigh>>, <<>>), Under(<<Neigh>>, <<>>) \o Under(Chain, <<>>) \o Talk}

(***************************************************************************)
(* The daemon thread: the commands of the clients.                         *)
(***************************************************************************)
cmmCtChange ==
  {Under(<<Itf, Ct>>, <<>>)} \cup {Under(Chain, b) : b \in LroSocket}

cmmVlanProcessClientCmd == {Under(<<Itf>>, Talk)}

tunnel_add == {Under(Chain, Talk)}

tunnel_del == {Under(Chain, Talk)}

tunnel_show == {Under(<<Itf>>, <<>>)}

\* socket_open, socket_update and socket_close
socket_command == {Under(SockChain, Talk)}

socket_show == {Under(<<Sock>>, <<>>)}

l2tp_new_session == {Under(SockChain, Talk)}

l2tp_delete_session == {Under(SockChain, Talk)}

cmmNATPTOpen == {Under(SockChain, Talk)}

cmmRelayAdd == {Under(<<Relay, Itf>>, Talk)}

cmmRelayRemove == {Under(<<Relay>>, Talk)}

cmmRouteProcessClientCmd == {Under(<<ExtRoute>>, <<>>)}

\* mc4_update_entry, mc6_update_entry and mc_remove_group; the command goes
\* to the engine after the mutexes are given back.
mc_update_entry == {Under(Chain \o <<Mc>>, <<>>) \o Talk}

mc_reset_command == {Under(Chain \o <<Mc>>, Talk)}

(***************************************************************************)
(* The CLI thread.                                                         *)
(***************************************************************************)
cmmCtShow == {Under(IF FlowCache THEN <<Ct, Flow>> ELSE <<Sa, Ct>>, Talk)}

cmmFlowLocalShow == IF FlowCache THEN {Under(<<Flow>>, Talk)} ELSE {}

cmmFPPRtShow == {Under(<<Rt>>, Talk)}

cmmRtShow == {Under(<<Rt>>, Talk)}

cmmNeighShow == {Under(<<Neigh>>, Talk)}

cmmPPPoELocalShow == {Under(<<Itf>>, Talk)}

cmmVlanLocalShow == {Under(<<Itf>>, Talk)}

cmmMacVlanLocalShow == {Under(<<Itf>>, Talk)}

cmmFeReset == {Under(Chain \o <<Sock, Br>>, Talk)}

\* "activate": a reset of everything and, to enable, a dump of the conntracks,
\* whose callback runs in this thread; no mutex is held between the two.
cmmFcActivate == cmmFeReset \cup cmmCtCatch

(***************************************************************************)
(* The handlers of each thread.                                            *)
(***************************************************************************)
CtHandlers ==
  [cmmCtCatch |-> cmmCtCatch, cmmCtResync |-> cmmCtResync, cmmFeCtChange |-> cmmFeCtChange,
   cmmFeL2FlowChange |-> cmmFeL2FlowChange, ifaddr |-> ifaddr, updatelink |-> updatelink,
   cmmNeighborUpdate |-> cmmNeighborUpdate, cmmRtnlRoute |-> cmmRtnlRoute,
   cmm_l2flow_netlink_rcv |-> cmm_l2flow_netlink_rcv,
   cmmSACreate |-> cmmSACreate, cmmSAChange |-> cmmSAChange, cmmSASetTunnel |-> cmmSASetTunnel,
   cmmUpdateCtEntriesInFlowNoSAList |-> cmmUpdateCtEntriesInFlowNoSAList,
   cmmKeyEngineFlow2Conntrack |-> cmmKeyEngineFlow2Conntrack,
   cmmKeyEngineFlowRemove |-> cmmKeyEngineFlowRemove,
   cmmPPPoEAutoKeepAlive |-> cmmPPPoEAutoKeepAlive, cmmNeighSendSolicit |-> cmmNeighSendSolicit]

DaemonHandlers ==
  [cmmCtChange |-> cmmCtChange, cmmVlanProcessClientCmd |-> cmmVlanProcessClientCmd,
   tunnel_add |-> tunnel_add, tunnel_del |-> tunnel_del, tunnel_show |-> tunnel_show,
   socket_command |-> socket_command, socket_show |-> socket_show,
   l2tp_new_session |-> l2tp_new_session, l2tp_delete_session |-> l2tp_delete_session,
   cmmNATPTOpen |-> cmmNATPTOpen, cmmRelayAdd |-> cmmRelayAdd, cmmRelayRemove |-> cmmRelayRemove,
   cmmRouteProcessClientCmd |-> cmmRouteProcessClientCmd,
   mc_update_entry |-> mc_update_entry, mc_reset_command |-> mc_reset_command]

CliHandlers ==
  [cmmCtShow |-> cmmCtShow, cmmFlowLocalShow |-> cmmFlowLocalShow, cmmFPPRtShow |-> cmmFPPRtShow, cmmRtShow |-> cmmRtShow,
   cmmNeighShow |-> cmmNeighShow, cmmPPPoELocalShow |-> cmmPPPoELocalShow,
   cmmVlanLocalShow |-> cmmVlanLocalShow, cmmMacVlanLocalShow |-> cmmMacVlanLocalShow,
   cmmFcActivate |-> cmmFcActivate]

ProgramsOf(handlers, avoided) == UNION {handlers[h] : h \in DOMAIN handlers \ avoided}

ProgramsWithout(avoided) ==
  [t \in {"ct", "daemon", "cli"} |->
     CASE t = "ct" -> ProgramsOf(CtHandlers, avoided)
       [] t = "daemon" -> ProgramsOf(DaemonHandlers, avoided)
       [] t = "cli" -> ProgramsOf(CliHandlers, avoided)]

DaemonPrograms == ProgramsWithout(Avoided)
=============================================================================
