# A TLA+ specification of CMM

CMM (Connection Monitoring Manager) is a daemon that moves routed connections
from the Linux kernel to a fast path. It listens to the kernel's conntrack,
route, neighbour and interface events over netlink, works out which connections
can be forwarded by whom, and programs them, with the next hops they need, in a
*forward engine*: an FCI/DPDK engine or, in `cpal_bpf.c`, an XDP program and its
BPF maps. These modules model how CMM keeps its own caches, the engine and the
kernel consistent.

Paths below are relative to the repository; sources are in `src/src/`.

## The system

| Part | Sources | State | Modules |
|---|---|---|---|
| Fast-path routes | `route_cache.c`, `conntrack.c` | `fpp_rt_table`, identifiers, counts | `FppRoutes` (proved) |
| Register, update, deregister | `conntrack.c`, `forward_engine.c` | `ct_table`, legs, flags | `Offload` (proved) |
| Route cache | `route_cache.c` | `rt_table` | `Offload` |
| Reset | `forward_engine.c`, `ffcontrol.c` | all tables | `OffloadReset`, `Sockets`, `L2Flow` |
| Conntrack events, resynchronisation | `conntrack.c` | identifiers per entry, `need_resync` | `CtTrack` |
| Neighbours, solicitation | `neighbor_resolution.c` | `neigh_table`, list by MAC, probe list | `Neighbour`, `Offload` |
| XDP back end: tables | `cpal_bpf.c` | `route_info`, BPF maps | `Engine`, `CpalBpf` (proved) |
| XDP back end: time-outs | `cpal_bpf.c` | timers, walk | `BpfTimeout` |
| Interfaces, VLAN, PPPoE, MAC VLAN, tunnels | `itf.c`, `module_vlan.c`, `pppoe.c`, `module_macvlan.c`, `module_tunnel.c` | `itf_table` | `Interfaces` |
| Sockets, L2TP sessions | `module_socket.c`, `module_l2tp.c` | `socket_table`, identifiers | `Sockets` (proved) |
| Multicast | `module_mcast.c`, `module_mc4.c`, `module_mc6.c` | `mc_table` | `Mcast` |
| Bridged flows | `module_rx.c`, `forward_engine.c` | `l2flow_table` | `L2Flow` (proved) |
| Bridge ports, PPPoE relay | `ffbridge.c`, `module_relay.c` | kernel's database, `relay_table` | `BridgePorts` |
| IPsec (no flow cache) | `keytrack.c`, `module_ipsec.c`, `conntrack.c` | `sa_table`, SA pointers of connections | `Ipsec` |
| Configuration rules | `ffcontrol.c`, `cmm_asym_ff.c` | `denyRules`, `asymFFRules` | `Rules` |
| Clients, daemon, listings | `libcmm.c`, `client_daemon.c`, `module_*.c` | message queues, cursors | `Clients` |
| Threads, mutexes, SIGTERM | all | mutexes | `Locks` (proved), `Handlers` |

CMM has three threads beside the main one: the conntrack thread (kernel events,
reports of the engine, timers), the CLI thread and the daemon thread (commands of
clients). The tables are protected by mutexes, mostly taken in the order
`itf_table.lock`, `ctMutex`, `rtMutex`, `neighMutex`, `flowMutex` (with the flow
cache), `socket_lock`, `brMutex`.
Handlers hold the mutexes of what they change, so a handler runs alone; `Handlers`
has the mutexes of each of them and `Locks` what follows from their order. The
engine forwards packets and the kernel changes between any two commands of a
handler: where a property is about that (`Offload`, `CpalBpf`, `BpfTimeout`,
`BridgePorts`, `Mcast`), each command is a step of its own; where it is not, a
handler is one step whose commands may each fail.

How the parts interact: `Rules` decides which connections may be offloaded and
`CtTrack` which are in `ct_table`; `Offload` gives each of them the routes,
neighbours and fast-path routes it needs and programs it; `Ipsec` adds the
security associations it has to be forwarded with; `FppRoutes` is the shared
table `Offload` uses; `Neighbour` looks closely at the neighbour cache, and
`Interfaces` at the interfaces, that `Offload` takes as an outcome; `BridgePorts`
finds the port behind a bridge. `Engine` is what CMM expects of a back end and
`CpalBpf` is one that provides it; `BpfTimeout` is how that back end finds the
connections it gives up. `Sockets`, `Mcast` and `L2Flow` are services beside
connections. `Clients` carries commands and listings to all of them.

## Modules and code

**`FppRoutes`.** State: `fpp_rt_table` (next hop, count, FPP_PROGRAMMED),
`route_id`, who points to which entry (`slot`), and the engine's routes.
Actions: `FPPRouteGet`, `FeRouteAdd` (`__cmmFeRouteUpdate`),
`FPPRouteDeregister`, and `FPPRouteMove`, by which `__cmmCtUpdateWithRoute` keeps
the old pointer in a local `ct_route` until the connection has been updated.
A live entry owns its identifier, so the identifier stands for the pointer.

**`Offload`** extends it. `pc`, `cur`, `dir` and `job` are the handler in progress:
`____cmmCtRegister` (`orig`, `rep`: collect; `progOrig`, `progRep`: program routes;
`ct`: program the connection; `release`: let the old route go),
`____cmmCtDeregister` (`delRep`, `delOrig`), and the walks over connections after
route and neighbour events. `Faults` says which commands may fail and
`EngineChecksLinks` whether the engine refuses to drop a route in use. An update
that is refused leaves the engine's entry as it was; the XDP back end may have
written the originator's leg by then, which `CpalBpf` models. Left out: tunnels,
local connections, IPsec flows, interfaces that are not programmed.

**`OffloadReset`** adds `cmmFeReset`.

**`CtTrack`** has the kernel's conntracks of a tuple, the socket buffer, one entry
per tuple with its identifiers, and the resynchronisation as `pc`. The handlers
are `UdpNews`, `UdpDestroy`, `TcpNews` and `TcpDestroy`; `Send` loses events
when the buffer is full. ENOBUFS is reported before the messages that are still
queued. An UPDATE may overtake only for the protocols of `RacyProtos`, and the
engine gives up connections only while an entry stands for one conntrack
(`Removes = "in step"`), and no event is lost while CMM starts (`LossAtBoot`).
All three are restrictions the passing run needs: without the first `TableFresh`
fails for TCP (there is no check for racy updates), without the second or the
third `NoneMissed` fails; see *hazards* in `PROJECT.json`.
`nf_conntrack_max` and failing commands are left out.

**`Neighbour`** models one interface: `NeighGet` with its dump and the entry made
up when that finds nothing, `NeighPut`, the events, `ENOBUFS` with its dump, the
probe timer, and the reset. `corrupt` records that a list was damaged; nothing
is claimed of what follows. Left out: bridge ports, NOARP neighbours.

**`Engine`** is the abstract engine: two tables and the four commands.
**`CpalBpf`** models `hash_route_id` and `find_route_id` as linear probes over an
array of `N` indices, the route commands, connection commands that write one
entry per leg, and the time-out that reports before it deletes. An update may be
refused before the first or between the two writes (`Written`); a leg that was not
written is then `stale` until an update writes it: it is forwarded by an index whose
route CMM lets go, and `Engine` has `Unknown` for it.
**`BpfTimeout`** models the walk of `check_ipv4_timeout` and its IPv6 twin, which
reads an entry in one step and acts on it in another while packets arrive, and
FF_CONTROL of the daemon thread. The timeouts are constants (no SET_TIMEOUT).

**`Interfaces`** has the kernel's interfaces and addresses, the events of the two
sockets, and `itf_table`. `UpdateLink` is `__updatelink` with everything it calls
for a VLAN, PPP, MAC VLAN or tunnel interface (`LinkProgram`, `TunnelAdd`,
`TunnelDel`), `ItfTableUpdate` the dump of links, addresses and 4rd rules that any
lookup of an unknown interface makes. `Command` is what clients ask for. `blind`
and `early` record the two orders the code cannot cope with (an "up" event taken
after the device was gone; an address before its interface), `refused` what the
engine declined: the properties name them as exceptions. `vlan_policy` is fixed for
a behaviour: under `manual`, `cmmVlanCheckPolicy` keeps link events from adding
VLANs, and only the client's command does.

**`Sockets`** has `socket_table`, the bitmap and cursor of private identifiers, and
the L2TP side of interfaces. `SocketOpenStep` and `SocketCloseStep` are
`__socket_open` and `__socket_close`; `NewSession` is the whole of
`l2tp_new_session`. Taking a session back is two commands, one for the interface and
one for the socket, each with an answer of its own. The model stops once a session
points to a freed socket (`dangling`), which is undefined in C.

**`Mcast`** has the array of listeners of a group with the flag `l_program` of each,
and moves them as `mc_remove` does with memcpy. A command changes the table in one
step (`UpdateEntry...`) and reaches the engine in another (`Forward`, after the
mutexes were given back), with link events (`UpdateTable`) in between. `mcTorn` are
groups where `mc_add` met a new listener after a duplicate: it stores it one slot
too far, and so may a batch that names a listener twice. A batch whose first
listener is on `acp`, the processor itself, changes nothing in the table but is
passed on (`UpdateEntryAcp`). `GroupsInStep` is about the listeners that no two
commands, and no command and link event, were about at once: the engine and the
table part over those, which `mcOdd` records. `Reset` empties the table whatever the
engine answers, because `module_mc4.c:519` tests the return value and not the
answer.

**`L2Flow`** has `l2flow_table`, the engine's flows, its notices, and what the
kernel's bridge monitor (ABM) was told. A reset of the engine drops its flows and
tells the monitor nothing: `l2Forgot` are the flows it still takes for offloaded.
**`BridgePorts`** reads the kernel's
forwarding database chunk by chunk for `cmmBrToFF` and `cmmRelayAdd`.

**`Ipsec`** describes the build with IPSEC_NO_FLOW_CACHE; unless that is defined,
`cmm.h:48` turns IPSEC_FLOW_CACHE on, and flows stand between SAs and connections.
It has `sa_table` and, for each connection, the handles it came with, the
pointers and list nodes of its four slots, and whether it waits for an SA. One
action per message of the key engine (`SACreate`, `SASetValid` with the rekeying of
the connections of its parent, `SASetDying`, `SASetTunnel`, `SADelete`, `SAFlush`),
and the registration of a connection (`CtRegistered`: `cmm_ct_fill_ipsec_info`,
the routes, and the command).

**`Rules`** reads the configuration file line by line; `Allowed` and `DirFilter` are
what `cmmFcIsConntrackAllowed` and `cmmFcIsConntrackAsymFastForwarded` then say of a
conntrack, `Speaks` what the file means. `DirFilter` is a mark on the entry: the
code that would forward one direction only is disabled (`#if 0`), so the property
says that the right connections are marked and no more. The option `vlan` (its
comparison is inverted in `ffcontrol.c:902-931`) and others that set a global value
are left out.

**`Clients`** has the handles, the two message queues and the daemon's client
thread. `Kind` is the table of the listings: each with its requests, and whether -1
ends its loop. `cmmSendToDaemon` returns -1 and most loops compare it with an
unsigned size, so that those loops spin once the daemon is gone: `ListingEnds` says
so. Routes and connections are queried as `cpal_bpf.c` answers (`XdpFetched`: an
entry per answer, a cursor that stays at the end until a first query resets it, an
error in the middle that looks like the end, `ServeShort`); the other tables are
those of an engine behind FCI and external (`FeFetched`, `FeServes`). A connection
deleted while the cursor is at it makes `bpf_map_get_next_key` start again at the
first key; the listing then repeats itself, which is not modelled. The engine keeps
one cursor per table whoever asks (the CLI thread lists too, `ffcontrol.c:1970`);
`CompleteListing` is about listings nobody disturbs.

**`Locks`** runs lock programs: sequences of lock, unlock and calls at which a
cancelled thread ends. **`Handlers`** is the table of them, one set of programs per
handler, with the branches that take different mutexes, in the builds with and
without the flow cache (`FlowCache`). `cmmFcActivate` dumps the
conntracks on the handle the conntrack thread catches with, so that `cmmCtCatch`
also runs in the CLI thread.

`MCServices` and `MCDaemon` put several modules into one specification; a behaviour
chooses one of them (`focus`), as these share no state in the code but the
interfaces each of them models as its own environment.

Definitions introduced by "A bug to compare with" or "Wrong:" are plausible
mistakes: with each of them in place of the definition that follows, a property
fails.

## Runs

| Run | Checks | Shows |
|---|---|---|
| `offload` | `CountIsHolders`, `CacheCounts`, `EngineRoutesExist`, `InStep`, `NothingLeftBehind` | two connections that share routes, an obedient engine, four outside events |
| `offload_links` | `OffloadInv`, `EngineTracked`, `CtTracked` | every command may fail, the engine keeps routes in use |
| `offload_live` | `EventuallyInStep` | one connection; handlers and walks end |
| `cpal_bpf` | `RouteFound`, `LegsAsAsked`, `ImplementsEngine` | colliding identifiers, half-refused updates; refinement of `Engine` |
| `bpf_timeout` | `WalkHonest`, `OnlyIdleExpire`, `IdleExpires` | walk against packets and FF_CONTROL |
| `ct_track` | `TableFresh`, `NoneMissed`, `Settles` | events late, lost, overtaking |
| `neighbour` | `CacheFiled`, `ProbedInUse`, `InStep`, `Settles` | events behind dumps, lost |
| `interfaces` | `KernelFollowed`, `RoutesReleased`, `EngineEntriesOwned` | link and address events on two sockets, dumps, an overrun, six stacks of interfaces, refused commands |
| `services` | `SocketsTracked`, `SessionsKept`, `GroupsInStep`, `FlowsTracked`, `AbmInformed`, `BridgesFollowed`, `SAPointersLive`, `SecuredAsKernel`, `SAsServed`, `RulesAsWritten` | sockets and sessions, multicast, bridged flows, ports and relays, IPsec, configuration |
| `daemon` | `AnswersOwn`, `CompleteListing`, `ListingEnds`, `NoLockCycle`, `TerminationEnds` | clients that list, die and disturb each other; threads, mutexes and SIGTERM |
| `lock_cycle` | `NoLockCycle` violated | finding 1 |
| `itf_programmed` | `ProgrammedWhenUp` violated | finding 2 |

**Bounds.** `offload`: two connections of two legs over two flows, so that
fast-path routes are shared within and between connections; two gateways and two
MACs, so that a route changes while another keeps its next hop; three
identifiers, so that they wrap; four outside events (`MaxEvents`), enough for a
connection to be registered, moved and taken out while another is there.
`offload_live` has one connection because symmetry is unsound for liveness.
`cpal_bpf`: three indices, of which a probe reaches two, identifiers 1 and 4
that start at the same one, and one connection whose legs share a route, part and
share again (connections meet only in the routes they name, as two legs do); the
next hops are symmetric. `bpf_timeout`: two connections, one of which starts
unidirectional, ages capped one past the timeout. `ct_track`: one tuple (entries
of different tuples share nothing but the buffer) used by up to four conntracks,
arrays of two identifiers, so that the array fills, and a buffer of three events.
`neighbour`: two nodes, two MACs, three changes of the kernel's table, and a
buffer of one event, so that it overruns.

`interfaces`: a port with one interface of each kind over it, and a VLAN over a
VLAN; three link and two address events under way (`LinkQueue`, `AddrQueue`), so
that an interface is deleted, created and changed with all of its events still
queued; two copies of an address (`CopyMax`), since a dump adds to what an event
added; one overrun (`LossMax`), after which only the type is claimed. `services`:
one private identifier and two sessions over two address tuples, so that the range
is exhausted and a socket is shared; groups of two listeners of four, of which one
is on `acp`, in batches of two, so that groups fill and listeners move; two flows
over two interfaces with two notices under way; two MAC addresses read one per
request (`Chunk`), so that positions shift; an inbound, an outbound and a
tunnel-mode SA with a connection that uses one, two or too many of them; files of
six lines (`MaxLines`), enough for two sections with options before and after one
that makes four rules. The sessions are symmetric, and so are the two listeners on
one interface: nothing compares their names. `daemon`: two clients, two listings in
all, tables of up to two pages of one entry (`PageLen`), one fault (a client killed,
a command failed or cut short, or a table changed), and an answer queue that the
answer to one dead client fills (`TxMax`), so that the exception of `ListingEnds` is
reached; the handlers of the three threads whose nestings overlap (`Met`) in the
default build, while an ASSUME of `MCDaemon` evaluates the order of the mutexes for
the whole table. `lock_cycle` has every handler of the build without the flow cache.

Deadlock is not checked where the system may stop: in `offload*` and `neighbour*`,
whose outside events are bounded, in `services`, where a configuration has been
read or a session has been left with a freed socket, and in `daemon`, which exits.

**Fairness.** `Offload`: a handler that has begun goes on (its thread is not
blocked). `CtTrack`, `Neighbour`: the conntrack thread reads its sockets and its
one-second timer expires. `BpfTimeout`: the 500 ms timer and the walk go on, and
FF_CONTROL finishes what it has begun. `Clients`: a process that can run does, and
so does the client thread. `Locks`: a call to the engine, the kernel or a client
returns, a pending cancellation acts, and a mutex that is free again and again is
eventually taken by whoever waits for it (strong fairness: its takers wait in a
system call between two handlers, and `cmmCtShow` yields). Nothing is assumed of the
kernel, of packets or of users; the properties that need them to pause say so.

## Proofs

`FppRoutesProofs`: `FppCorrect`, that counts, pointers, next hops and the
engine's routes agree (`FppInv`) under any use of the four operations.

`OffloadCacheProofs`, `OffloadStepProofs`, `OffloadProofs`: the inductive
invariant `OffloadInv`. Exact counts alone are not inductive, because a handler
is stopped between any two commands: the invariant has to say which legs the
handler has collected and programmed so far (`LegsReady`), that its own
`ct_route` is empty outside of it (`HandlerShape`), that routes have their
gateway's neighbour or none (`RouteShape`), and that a connection on its way out
has left the engine if its removal worked (`GoneFromEngine`). The first module
is about the route and neighbour caches, the second has one lemma per action,
the third puts them together: `OffloadCorrect`, and from it `OffloadTypes`,
`CachesExact`, `FastPathCountsExact`, `ConnectionsTracked`, `RoutesTracked`.
`OffloadUsesFppRoutes` shows that every step is one of `FppRoutes` or leaves its
state alone.
`MakeBeforeBreak` proves `EngineRoutesExist` from `ForwardInv`: either the engine
keeps routes in use, or updates and removals of connections never fail and the
route of every forwarded leg is held by that leg or by the handler that is about
to replace it (`EngineHeld`). The XDP back end drops routes whether they are used or
not, so that of the two only the second can hold for it.

`CpalBpfProofs`: `BpfCorrect`, with `RoutesFound` and `LegsRight` (each leg that is
not `stale`), and
`BpfIsEngine`, the refinement of `Engine` as long as CMM does not disable the
originator's leg (`CpalBpfDisabled.cfg` is what happens when it does).

`LocksProofs`: `OrderPreventsDeadlock`, for any mutexes and any programs of the three
threads that never nest mutexes in a circle (`Ordered`), cancellation included. The
inductive invariant `LockInv` says that a thread owns a mutex only where its program
has taken it and not given it back (`HeldAt`); then a circle of waiting threads is a
circle of nestings. That the handlers of the code are `Ordered`, all of them in the
default build and all but `cmmCtShow` without the flow cache, is evaluated by TLC
(`HandlersOrdered`, once by `daemon` and once by `lock_cycle`), so that theorem and
ASSUME together exclude deadlock for the whole table, of which `daemon` explores the
handlers in `Met`.

`L2FlowProofs`: `FlowsAlwaysTracked` and `AbmAlwaysInformed`. The two are inductive
together once it is known that an empty slot of the table carries no flag
(`FlowInv`); `Sound` is what every handler makes of a flow, so that each handler is
one lemma and the step to the invariant is done once (`SoundKeeps`).

`SocketsProofs`: `SocketsAlwaysTracked` and `SessionPointersLive`. `Exact(S)` is the
invariant of the state record a handler passes on: both tables are right, and every
session that is not dangling points to a socket there is. Each of the operators the
handlers are composed of (open, close, add and remove an interface, edit a session)
takes an `Exact` state to an `Exact` state, and `NewIdFree` shows that
`new_socket_id` returns a free identifier; a handler is then a chain of these
lemmas.

Assumptions are the named ASSUMEs of the modules: finite sets of slots and cached
routes, a positive number of identifiers, `None` outside the other sets, for
`CpalBpf` that `i % N` is below `N`, for `Sockets` that clients' identifiers are
above the private range, for `Locks` that programs are well formed. `CpalBpf` takes
over from `Offload` that CMM registers an identifier once and names registered
routes only.

Only model-checked: the liveness properties, `InStep` and `NothingLeftBehind`
(they hold for commands that do not fail and at rest), `SessionsKept`, and
everything about `BpfTimeout`, `CtTrack`, `Neighbour`, `Interfaces`, `Mcast`,
`BridgePorts`, `Ipsec`, `Rules` and `Clients`. Liveness under fairness is out of the
proof system's reach.

## Findings

1. *Two threads can wait for each other* (`lock_cycle`), in the build without the
   flow cache. `cmmCtShow` (`conntrack.c:223`) takes `sa_lock` and then `ctMutex`; the
   route, neighbour and link handlers take `sa_lock` inside `ctMutex`.
2. *A VLAN that comes up is not registered* (`itf_programmed`). `__itf_update` sets
   FPP_PROGRAMMED before `cmmFeVLANUpdate` is asked to add it, which then returns.

### Further configurations

Each of these is a configuration beside the runs: TLC finds its one property
violated. They are questions the code answers differently from its comments.

| Configuration | Module | Property | What happens |
|---|---|---|---|
| `OffloadReset.cfg` | `MCOffloadReset` | `FppStateTracked` | `cmmFeReset` never touches `fpp_rt_table` (`forward_engine.c:93`): fast-path routes in use stay marked programmed in an emptied engine, although "we still need to track the fpp state" (`conntrack.c:2113`). |
| `CpalBpfDisabled.cfg` | `MCCpalBpf` | `DisabledHasNoRoute` | `cpal_bpf.c:798` does not look at `CTCMD_FLAGS_ORIG_DISABLED`: identifier 0 is "found" at an unused index, which another route may take later. |
| `BpfTimeoutFull.cfg` | `MCBpfTimeout` | `AllChecked` | The walk for idle connections starts over each time (`cpal_bpf.c:302`), so that not "1/2^2 of all connections" (`cpal_bpf.h:12`) but the same quarter is checked. |
| `CtPermanent.cfg` | `CtTrack` | `PermanentTracked` | `cmmCtSetPermanent` (`conntrack.c:81`) sets IPS_PERMANENT on a connection it is asked to reset, when the event is older than CMM's own setting of the flag. |
| `NeighbourLists.cfg` | `Neighbour` | `ListsIntact` | `cmmNeighborUpdate` (`neighbor_resolution.c:943`) overwrites the state by which `__cmmNeighRemove` chooses the lists the entry is on. |
| `ServicesWaiting.cfg` | `MCServices` | `WaitingServed` | A new SA is compared with the first two of the four handles of each direction of a waiting connection only (`conntrack.c:1415`), so one that waits for another slot is not served, as the comment at `conntrack.c:1400` says it is. `InboundServed` is the part that holds. |
| `ServicesFourRules.cfg` | `MCServices` | `FourRulesAsOne` | An option that "is like 4 differents rules" (`ffcontrol.c:1205`) copies the options before it; an IPv6 address is lost from the copies (`ffcontrol.c:670` wants the address, the copy passes NULL), and three of the four rules refuse more than was written. |

Met on the way, and stated as exceptions in the properties concerned: SIGTERM does
not end the daemon when a thread was cancelled inside a handler (`TerminationEnds`:
`Orphaned`; `cmm.c` sets the handler to "Ensure clean termination"); an address that
arrives before its interface is dropped for good (`early`), and a tunnel asked about
too late leaks its route (`blind`); a VLAN on a VLAN stays in the engine when the
lower one goes first; listings that take -1 for a long answer spin once the daemon
is gone; an answer to a killed client stays in the queue, and enough of them block
the daemon thread; a second listing of a table moves the cursor of the first, and
the listing of bridge entries does not restart it; a refused update of the XDP back
end leaves a leg with the index of a route that CMM then lets go; a reset of the
engine is not reported to the bridge monitor.

## Not modelled

- The FCI back end (`cpal_fci.c`) and the engine behind it: a library outside the
  repository. What CMM expects of it is `Engine` and, in the other modules, a set of
  what it has and commands that it may refuse.
- Code of other builds: WiFi, VLAN filtering, LS1043, SAM.
- The flow cache of IPsec (on by default), but for its mutex: `flow_table`, and the
  pointers of connections, tunnels and sockets to its entries.
- `rtnl.c` and the pool of netlink buffers: an exchange with the kernel is part of
  the handler that makes it. The pool's counter is shared by threads without a lock
  (see the hazards).
- Which engine command a command line becomes (`module_qm.c`, `module_stat.c`,
  `module_rtp.c`, `module_tx.c`, ...): parsing, and one command whose effect later
  steps of CMM do not read. The listings among them are in `Clients`.
- Sockets of local connections (`module_lro.c`), NAT-PT, policy and extra routes,
  the keep-alive of PPPoE, and start-up before the threads exist.
- Accesses outside of the mutexes: freed list nodes, and the buffers and counters
  that threads share.
