------------------------------ MODULE Offload ------------------------------
(***************************************************************************)
(* How the conntrack thread of CMM keeps the forward engine in step with    *)
(* the kernel: conntrack.c, route_cache.c and neighbor_resolution.c, over   *)
(* the fast-path routes of FppRoutes.                                       *)
(*                                                                         *)
(* A tracked connection (struct ctTable) has two legs.  A leg needs a       *)
(* cached kernel route (struct RtEntry), the neighbour of its gateway       *)
(* (struct NeighborEntry) and, once that is resolved, an fpp_rt.  Handlers  *)
(* run one at a time under ctMutex, rtMutex and neighMutex, but the engine  *)
(* forwards packets and the kernel changes between any two commands, so     *)
(* each command to the engine is a step of its own.                         *)
(***************************************************************************)
EXTENDS FppRoutes, Sequences

CONSTANTS
  Cts,               \* connections
  Keys,              \* flows: what a kernel route lookup is asked for
  KeyOf,             \* the flow of each leg
  Gws,               \* gateways (address and interface of a neighbour)
  Rts,               \* addresses malloc can return for a struct RtEntry
  Local,             \* the struct ct_route on the stack of an update handler
  Faults,            \* the commands that may fail
  EngineChecksLinks, \* does the engine refuse to remove a route in use
  MaxEvents          \* bound on events from outside

Legs == {"orig", "rep"}
CtLegs == Cts \X Legs
Commands == {"rtAdd", "rtDel", "ctAdd", "ctUpd", "ctDel"}

ASSUME SlotsAre == Slots = CtLegs \cup {Local} /\ Local \notin CtLegs
ASSUME KeyOfType == KeyOf \in [CtLegs -> Keys]
ASSUME NoneIsNone == None \notin Gws \cup Rts \cup Keys \cup Cts
ASSUME NoneNoView == None \notin [Legs -> 0..MaxId]
ASSUME FaultsAre == Faults \subseteq Commands /\ EngineChecksLinks \in BOOLEAN
ASSUME RtsFinite == IsFiniteSet(Rts)
ASSUME MaxEventsNat == MaxEvents \in Nat

VARIABLES
  route,      \* the RtEntry a slot points to, beside its fpp_rt
  rt,         \* the route cache
  nb,         \* the neighbour cache
  ct,         \* the connection table
  engine_ct,  \* the engine's connections (without the one it has reported as
              \* removed): the route of each enabled leg
  kroute,     \* the kernel's gateway for each flow
  kmac,       \* the kernel's neighbour table
  rq, nq,     \* route and neighbour events not read yet
  pc, cur, dir, job,   \* the handler in progress
  events      \* events from outside so far

cacheVars == <<route, rt, nb>>
ctVars == <<ct, engine_ct>>
kernelVars == <<kroute, kmac, rq, nq, events>>
vars == <<fppVars, cacheVars, ctVars, kernelVars, pc, cur, dir, job>>

FreeRt == [key |-> None, gw |-> None, neigh |-> None, count |-> 0, inv |-> FALSE]
NoNeigh == [here |-> FALSE, mac |-> None, count |-> 0]
NoCt == [here |-> FALSE, dir |-> {}, fpp_dir |-> {}, id |-> [l \in Legs |-> 0],
         prog |-> FALSE, upd |-> FALSE]
NoJob == [kind |-> "none", rt |-> None, neigh |-> None, key |-> None,
          todo |-> {}, new |-> FALSE, ok |-> TRUE]

Init ==
  /\ FppInit
  /\ route = [s \in Slots |-> None]
  /\ rt = [r \in Rts |-> FreeRt]
  /\ nb = [g \in Gws |-> NoNeigh]
  /\ ct = [c \in Cts |-> NoCt]
  /\ engine_ct = [c \in Cts |-> None]
  /\ kroute \in [Keys -> Gws \cup {None}]
  /\ kmac \in [Gws -> Dsts \cup {None}]
  /\ rq = <<>> /\ nq = <<>>
  /\ pc = "idle" /\ cur = None /\ dir = {} /\ job = NoJob
  /\ events = 0

(* The outcomes of a command: it may fail when Faults says so.              *)
Outcome(cmd) == IF cmd \in Faults THEN BOOLEAN ELSE {TRUE}

Linked(i) == \E c \in Cts : engine_ct[c] # None
                            /\ \E l \in Legs : engine_ct[c][l] = i

RemoveOutcome(i) ==
  IF EngineChecksLinks /\ Linked(i) THEN {FALSE} ELSE Outcome("rtDel")

External == events < MaxEvents /\ events' = events + 1
----------------------------------------------------------------------------
(* The kernel: routes and neighbours change and an event is queued.         *)
KernelRoute(k, g) ==
  /\ External
  /\ kroute[k] # g
  /\ kroute' = [kroute EXCEPT ![k] = g]
  /\ rq' = Append(rq, [key |-> k, new |-> g # None])
  /\ UNCHANGED <<fppVars, cacheVars, ctVars, kmac, nq, pc, cur, dir, job>>

KernelNeigh(g, m) ==
  /\ External
  /\ kmac[g] # m
  /\ kmac' = [kmac EXCEPT ![g] = m]
  /\ nq' = Append(nq, [gw |-> g, mac |-> m])
  /\ UNCHANGED <<fppVars, cacheVars, ctVars, kroute, rq, pc, cur, dir, job>>

----------------------------------------------------------------------------
(* The caches.                                                              *)

(* __cmmRouteFind: the usable entry for a flow.  An invalid one is on its   *)
(* way out and behind any new one in its list.                              *)
RouteFind(k) == {r \in Rts : rt[r].key = k /\ ~ rt[r].inv}

(* __cmmNeighGet: an unknown neighbour is looked up with all the others the *)
(* kernel knows; one the kernel does not know gets an empty entry that a    *)
(* later event fills in.                                                    *)
NeighGet(g) ==
  IF nb[g].here
  THEN [nb EXCEPT ![g].count = @ + 1]
  ELSE [h \in Gws |->
          IF h = g THEN [here |-> TRUE, mac |-> kmac[g], count |-> 1]
          ELSE IF ~ nb[h].here /\ kmac[h] # None
               THEN [here |-> TRUE, mac |-> kmac[h], count |-> 0]
               ELSE nb[h]]

(* __cmmNeighPut: the last user removes the entry.                          *)
NeighPut(g) ==
  IF nb[g].count <= 1 THEN [nb EXCEPT ![g] = NoNeigh]
                      ELSE [nb EXCEPT ![g].count = @ - 1]

(* ____cmmRouteDeregister of the route in slot s, if any: the last user     *)
(* lets go of the neighbour and frees the entry.                            *)
RouteDeregister(s) ==
  LET r == route[s]
      last == rt[r].count <= 1
  IN  /\ route' = [route EXCEPT ![s] = None]
      /\ IF r = None
         THEN UNCHANGED <<rt, nb>>
         ELSE /\ rt' = [rt EXCEPT ![r] = IF last THEN FreeRt
                                         ELSE Fewer(@)]
              /\ nb' = IF rt[r].count = 1 /\ rt[r].neigh # None
                       THEN NeighPut(rt[r].neigh) ELSE nb

(* The fpp_rt half of __cmmRouteDeregister.                                 *)
FppHalf(s) ==
  IF slot[s] = 0
  THEN UNCHANGED fppVars
  ELSE \E ok \in RemoveOutcome(slot[s]) : FPPRouteDeregister(s, ok)

----------------------------------------------------------------------------
(* ____cmmCtRegister of connection cur: acquire the legs of its direction,  *)
(* program their routes, then the connection.  A leg that fails leaves dir. *)

Start(c) == cur' = c /\ dir' = ct'[c].dir /\ pc' = "orig"

NextPc == [orig |-> "rep", rep |-> "progOrig", progOrig |-> "progRep",
           progRep |-> "ct", delRep |-> "delOrig"]

(* A bug to compare with: a leg that already has its route counts it again. *)
RouteGetRecounts(x) ==
  LET k == KeyOf[x]
  IN  IF RouteFind(k) # {}
      THEN {<<r, [rt[r] EXCEPT !.count = @ + 1]>> : r \in RouteFind(k)}
      ELSE IF kroute[k] # None
      THEN {<<r, [key |-> k, gw |-> kroute[k], neigh |-> None, count |-> 1,
                  inv |-> FALSE]>> : r \in {f \in Rts : rt[f].key = None}}
      ELSE {}

(* __cmmRouteGet: the leg's own route, the cached one, or a new entry filled *)
(* in from the kernel.                                                      *)
RouteGet(x) ==
  LET k == KeyOf[x]
  IN  IF route[x] # None THEN {<<route[x], rt[route[x]]>>}
      ELSE IF RouteFind(k) # {}
      THEN {<<r, [rt[r] EXCEPT !.count = @ + 1]>> : r \in RouteFind(k)}
      ELSE IF kroute[k] # None
      THEN {<<r, [key |-> k, gw |-> kroute[k], neigh |-> None, count |-> 1,
                  inv |-> FALSE]>> : r \in {f \in Rts : rt[f].key = None}}
      ELSE {}

(* __cmmNeighRegister and __cmmFPPRouteRegister of leg x = <<cur, l>> with  *)
(* route p: without the MAC address of its neighbour the leg fails.         *)
LegTakes(x, l, p) ==
  LET e == p[2]
      m == nb'[e.gw].mac
  IN  /\ route' = [route EXCEPT ![x] = p[1]]
      /\ rt' = [rt EXCEPT ![p[1]] = [e EXCEPT !.neigh = e.gw]]
      /\ nb' = IF e.neigh = None THEN NeighGet(e.gw) ELSE nb
      /\ \/ m = None /\ dir' = dir \ {l} /\ UNCHANGED fppVars
         \/ m # None /\ dir' = dir /\ slot[x] = 0 /\ FPPRouteGet(x, m)
         \/ m # None /\ dir' = dir /\ slot[x] # 0 /\ UNCHANGED fppVars

(* __cmmRouteRegister of one leg: __cmmRouteGet, __cmmNeighRegister and     *)
(* __cmmFPPRouteRegister.  What a failing leg obtained it keeps.            *)
RegisterLeg(l) ==
  LET x == <<cur, l>>
  IN  /\ pc = l
      /\ \/ /\ l \notin dir
            /\ UNCHANGED <<fppVars, cacheVars, dir>>
         \/ /\ l \in dir
            /\ RouteGet(x) = {}
            /\ dir' = dir \ {l}
            /\ UNCHANGED <<fppVars, cacheVars>>
         \/ /\ l \in dir
            /\ \E p \in RouteGet(x) : LegTakes(x, l, p)
      /\ pc' = NextPc[l]
      /\ UNCHANGED <<ctVars, kernelVars, cur, job>>

(* A bug to compare with: a leg whose route the engine refused stays.       *)
ProgramLegKeeps(at, l) ==
  /\ pc = at
  /\ \/ l \notin dir /\ UNCHANGED <<fppVars, dir>>
     \/ /\ l \in dir
        /\ \E ok \in Outcome("rtAdd") : FeRouteAdd(slot[<<cur, l>>], ok)
        /\ UNCHANGED dir
  /\ pc' = NextPc[at]
  /\ UNCHANGED <<cacheVars, ctVars, kernelVars, cur, job>>

(* cmmFeRouteUpdate(ADD | UPDATE) for one leg.                              *)
ProgramLeg(at, l) ==
  /\ pc = at
  /\ \/ l \notin dir /\ UNCHANGED <<fppVars, dir>>
     \/ /\ l \in dir
        /\ \E ok \in Outcome("rtAdd") :
             /\ FeRouteAdd(slot[<<cur, l>>], ok)
             /\ dir' = IF fpp_rt_table'[slot[<<cur, l>>]].prog THEN dir
                       ELSE dir \ {l}
  /\ pc' = NextPc[at]
  /\ UNCHANGED <<cacheVars, ctVars, kernelVars, cur, job>>

(* A bug to compare with: a changed route identifier alone is not noticed.  *)
RefreshedDirOnly(e) ==
  LET ids == [l \in Legs |-> slot[<<cur, l>>]]
  IN  [e EXCEPT !.fpp_dir = dir, !.id = ids, !.upd = @ \/ e.fpp_dir # dir]

(* fpp_dir and __cmmCheckFPPRouteIdUpdate: what the connection command will *)
(* carry, and whether it differs from the last one.                         *)
Refreshed(e) ==
  LET ids == [l \in Legs |-> slot[<<cur, l>>]]
  IN  [e EXCEPT !.fpp_dir = dir, !.id = ids,
                !.upd = @ \/ e.fpp_dir # dir \/ e.id # ids]

(* What the engine stores for connection e.                                 *)
EngineView(e) == [l \in Legs |-> IF l \in e.fpp_dir THEN e.id[l] ELSE 0]

(* cmmFeCtUpdate: REGISTER, UPDATE or nothing.  ALREADY_REGISTERED counts   *)
(* as success, an UPDATE of an unknown connection is an error.              *)
FeCtUpdate(e) ==
  \/ /\ ~ e.prog /\ dir # {}
     /\ \E ok \in Outcome("ctAdd") :
          IF ok
          THEN /\ ct' = [ct EXCEPT ![cur] = [e EXCEPT !.prog = TRUE, !.upd = FALSE]]
               /\ engine_ct' = IF engine_ct[cur] = None
                               THEN [engine_ct EXCEPT ![cur] = EngineView(e)]
                               ELSE engine_ct
          ELSE ct' = [ct EXCEPT ![cur] = e] /\ UNCHANGED engine_ct
  \/ /\ e.prog /\ e.upd
     /\ \E ok \in Outcome("ctUpd") :
          IF ok /\ engine_ct[cur] # None
          THEN /\ ct' = [ct EXCEPT ![cur] = [e EXCEPT !.upd = FALSE]]
               /\ engine_ct' = [engine_ct EXCEPT ![cur] = EngineView(e)]
          ELSE ct' = [ct EXCEPT ![cur] = e] /\ UNCHANGED engine_ct
  \/ /\ IF e.prog THEN ~ e.upd ELSE dir = {}
     /\ ct' = [ct EXCEPT ![cur] = e]
     /\ UNCHANGED engine_ct

ProgramCt ==
  /\ pc = "ct"
  /\ FeCtUpdate(Refreshed(ct[cur]))
  /\ pc' = "release"
  /\ UNCHANGED <<fppVars, cacheVars, kernelVars, cur, dir, job>>

(* The caller of ____cmmCtRegister lets go of the leg's former route and    *)
(* returns to its list of connections, if it has one.                       *)
Release ==
  /\ pc = "release"
  /\ FppHalf(Local)
  /\ RouteDeregister(Local)
  /\ cur' = None /\ dir' = {}
  /\ IF job.kind = "register"
     THEN pc' = "idle" /\ job' = NoJob
     ELSE pc' = "walk" /\ UNCHANGED job
  /\ UNCHANGED <<ctVars, kernelVars>>

----------------------------------------------------------------------------
(* __cmmCtRegister: a NEW or UPDATE event of the kernel for connection c.   *)
CtRegister(c, d) ==
  /\ pc = "idle"
  /\ External
  /\ ct' = [ct EXCEPT ![c].here = TRUE, ![c].dir = d]
  /\ Start(c)
  /\ job' = [NoJob EXCEPT !.kind = "register"]
  /\ UNCHANGED <<fppVars, cacheVars, engine_ct, kroute, kmac, rq, nq>>

(* A bug to compare with: FPP_PROGRAMMED is cleared although the removal    *)
(* failed.                                                                  *)
CtDeregisterForgets(c) ==
  /\ pc = "idle"
  /\ External
  /\ ct[c].here
  /\ \E ok \in IF ct[c].prog THEN Outcome("ctDel") ELSE {TRUE} :
       /\ job' = [NoJob EXCEPT !.kind = "deregister", !.ok = ok]
       /\ engine_ct' = IF ok /\ ct[c].prog THEN [engine_ct EXCEPT ![c] = None]
                                           ELSE engine_ct
       /\ ct' = [ct EXCEPT ![c].prog = FALSE]
  /\ cur' = c /\ pc' = "delRep"
  /\ UNCHANGED <<fppVars, cacheVars, kroute, kmac, rq, nq, dir>>

(* ____cmmCtDeregister, first half: cmmFeCtUpdate(REMOVE).  NOT_FOUND       *)
(* counts as success.                                                       *)
CtDeregister(c) ==
  /\ pc = "idle"
  /\ External
  /\ ct[c].here
  /\ \E ok \in IF ct[c].prog THEN Outcome("ctDel") ELSE {TRUE} :
       /\ job' = [NoJob EXCEPT !.kind = "deregister", !.ok = ok]
       /\ engine_ct' = IF ok /\ ct[c].prog THEN [engine_ct EXCEPT ![c] = None]
                                           ELSE engine_ct
       /\ ct' = IF ok THEN [ct EXCEPT ![c].prog = FALSE] ELSE ct
  /\ cur' = c /\ pc' = "delRep"
  /\ UNCHANGED <<fppVars, cacheVars, kroute, kmac, rq, nq, dir>>

(* cmmFeCtChange4/6, FPP_ACTION_REMOVED: the engine gives up an idle        *)
(* connection and tells CMM, which deregisters it without a command.  (FCI  *)
(* reports a connection it has removed; cpal_bpf.c removes the one it       *)
(* reports when the callback returns.)                                      *)
FppRemoved(c) ==
  /\ pc = "idle"
  /\ External
  /\ ct[c].here /\ engine_ct[c] # None
  /\ engine_ct' = [engine_ct EXCEPT ![c] = None]
  /\ ct' = [ct EXCEPT ![c].prog = FALSE]
  /\ job' = [NoJob EXCEPT !.kind = "deregister"]
  /\ cur' = c /\ pc' = "delRep"
  /\ UNCHANGED <<fppVars, cacheVars, kroute, kmac, rq, nq, dir>>

(* A bug to compare with: a leg the engine does not forward is not released. *)
DeregisterLegInUse(at, l) ==
  /\ pc = at
  /\ IF l \in ct[cur].fpp_dir
     THEN FppHalf(<<cur, l>>) /\ RouteDeregister(<<cur, l>>)
     ELSE UNCHANGED <<fppVars, cacheVars>>
  /\ IF l = "rep"
     THEN pc' = NextPc[at] /\ UNCHANGED <<ct, cur, job>>
     ELSE /\ pc' = "idle" /\ cur' = None /\ job' = NoJob
          /\ ct' = IF job.ok THEN [ct EXCEPT ![cur] = NoCt] ELSE ct
  /\ UNCHANGED <<engine_ct, kernelVars, dir>>

(* ____cmmCtDeregister, second half: both legs are released whatever became *)
(* of the command, the entry is freed only if it succeeded.                 *)
DeregisterLeg(at, l) ==
  /\ pc = at
  /\ FppHalf(<<cur, l>>)
  /\ RouteDeregister(<<cur, l>>)
  /\ IF l = "rep"
     THEN pc' = NextPc[at] /\ UNCHANGED <<ct, cur, job>>
     ELSE /\ pc' = "idle" /\ cur' = None /\ job' = NoJob
          /\ ct' = IF job.ok THEN [ct EXCEPT ![cur] = NoCt] ELSE ct
  /\ UNCHANGED <<engine_ct, kernelVars, dir>>

----------------------------------------------------------------------------
(* cmmRtnlRoute and __cmmRouteUpdate: a cached route is looked up again; if *)
(* it is gone or has another gateway every leg that uses it moves.          *)
RouteEvent ==
  LET k == Head(rq).key
      walk == [NoJob EXCEPT !.key = k, !.new = Head(rq).new, !.todo = CtLegs]
  IN  /\ pc = "idle"
      /\ rq # <<>>
      /\ rq' = Tail(rq)
      /\ pc' = "walk"
      /\ \/ /\ RouteFind(k) = {}
            /\ job' = [walk EXCEPT !.kind = "none"]
            /\ UNCHANGED rt
         \/ \E r \in RouteFind(k) :
              \/ /\ kroute[k] = None
                 /\ rt' = [rt EXCEPT ![r].inv = TRUE]
                 /\ job' = [walk EXCEPT !.kind = "route", !.rt = r]
              \/ /\ kroute[k] \notin {None, rt[r].gw}
                 /\ rt' = [rt EXCEPT ![r].gw = kroute[k], ![r].neigh = None]
                 /\ job' = [walk EXCEPT !.kind = "route", !.rt = r,
                                        !.neigh = rt[r].neigh]
              \/ /\ kroute[k] = rt[r].gw
                 /\ job' = [walk EXCEPT !.kind = "none"]
                 /\ UNCHANGED rt
      /\ UNCHANGED <<fppVars, route, nb, ctVars, kroute, kmac, nq, events, cur, dir>>

(* cmmNeighborUpdate: the entry follows the kernel; when its MAC address    *)
(* comes, goes or changes every leg behind the neighbour is registered      *)
(* again (__cmmNeighborResolved, __cmmNeighborUnresolved).                  *)
NeighEvent ==
  LET g == Head(nq).gw
      m == Head(nq).mac
  IN  /\ pc = "idle"
      /\ nq # <<>>
      /\ nq' = Tail(nq)
      /\ \/ /\ ~ nb[g].here \/ nb[g].mac = m
            /\ UNCHANGED <<nb, job, pc>>
         \/ /\ nb[g].here /\ nb[g].count = 0 /\ m = None   \* RTM_DELNEIGH
            /\ nb' = [nb EXCEPT ![g] = NoNeigh]
            /\ UNCHANGED <<job, pc>>
         \/ /\ nb[g].here /\ nb[g].mac # m
            /\ nb' = [nb EXCEPT ![g].mac = m]
            /\ pc' = "walk"
            /\ job' = [NoJob EXCEPT !.kind = "neigh", !.neigh = g, !.todo = CtLegs]
      /\ UNCHANGED <<fppVars, route, rt, ctVars, kroute, kmac, rq, events, cur, dir>>

(* Does the list walk in progress stop at leg x?                            *)
Concerned(x) ==
  CASE job.kind = "route" -> route[x] = job.rt
    [] job.kind = "neigh" -> route[x] # None /\ rt[route[x]].neigh = job.neigh
    [] job.kind = "new"   -> /\ x[2] \in ct[x[1]].dir /\ ct[x[1]].here
                             /\ route[x] = None /\ KeyOf[x] = job.key
    [] OTHER -> FALSE

(* A bug to compare with: the walk does not go on to the next leg.          *)
VisitAgain(x) ==
  /\ pc = "walk"
  /\ x \in job.todo
  /\ Concerned(x)
  /\ IF slot[x] = 0 THEN UNCHANGED fppVars ELSE FPPRouteMove(x, Local)
  /\ route' = IF job.kind = "route" /\ rt[job.rt].inv
              THEN [route EXCEPT ![x] = None, ![Local] = route[x]] ELSE route
  /\ UNCHANGED <<rt, nb, ctVars, kernelVars, job>>
  /\ Start(x[1])

(* __cmmCtRouteUpdate, __cmmCtUpdateWithRoute and the loop of               *)
(* __cmmRouteNew: take the fast-path route (and an invalid route) off the   *)
(* leg and register the connection again.                                   *)
Visit(x) ==
  /\ pc = "walk"
  /\ x \in job.todo
  /\ Concerned(x)
  /\ job' = [job EXCEPT !.todo = @ \ {x}]
  /\ IF slot[x] = 0 THEN UNCHANGED fppVars ELSE FPPRouteMove(x, Local)
  /\ route' = IF job.kind = "route" /\ rt[job.rt].inv
              THEN [route EXCEPT ![x] = None, ![Local] = route[x]] ELSE route
  /\ UNCHANGED <<rt, nb, ctVars, kernelVars>>
  /\ Start(x[1])

(* The walk is over: a gateway that was given up is released, and a new     *)
(* route goes on to the connections that wait for one.                      *)
WalkDone ==
  /\ pc = "walk"
  /\ \A x \in job.todo : ~ Concerned(x)
  /\ nb' = IF job.kind = "route" /\ job.neigh # None THEN NeighPut(job.neigh) ELSE nb
  /\ IF job.new
     THEN /\ job' = [NoJob EXCEPT !.kind = "new", !.key = job.key, !.todo = CtLegs]
          /\ pc' = "walk"
     ELSE job' = NoJob /\ pc' = "idle"
  /\ UNCHANGED <<fppVars, route, rt, ctVars, kernelVars, cur, dir>>

----------------------------------------------------------------------------
HandlerStep ==
  \/ \E l \in Legs : RegisterLeg(l)
  \/ ProgramLeg("progOrig", "orig")
  \/ ProgramLeg("progRep", "rep")
  \/ ProgramCt
  \/ Release
  \/ DeregisterLeg("delRep", "rep")
  \/ DeregisterLeg("delOrig", "orig")
  \/ RouteEvent
  \/ NeighEvent
  \/ \E x \in CtLegs : Visit(x)
  \/ WalkDone

Environment ==
  \/ \E k \in Keys, g \in Gws \cup {None} : KernelRoute(k, g)
  \/ \E g \in Gws, m \in Dsts \cup {None} : KernelNeigh(g, m)
  \/ \E c \in Cts, d \in {{"orig"}, Legs} : CtRegister(c, d)
  \/ \E c \in Cts : CtDeregister(c)
  \/ \E c \in Cts : FppRemoved(c)

Next == HandlerStep \/ Environment

(* The conntrack thread keeps running: a handler goes on to its end and     *)
(* queued events are read.                                                  *)
Spec == Init /\ [][Next]_vars /\ WF_vars(HandlerStep)

----------------------------------------------------------------------------
Pcs == {"idle", "walk", "orig", "rep", "progOrig", "progRep", "ct", "release",
        "delRep", "delOrig"}
RtEntries == [key : Keys \cup {None}, gw : Gws \cup {None},
              neigh : Gws \cup {None}, count : Nat, inv : BOOLEAN]
NeighEntries == [here : BOOLEAN, mac : Dsts \cup {None}, count : Nat]
CtEntries == [here : BOOLEAN, dir : SUBSET Legs, fpp_dir : SUBSET Legs,
              id : [Legs -> 0..MaxId], prog : BOOLEAN, upd : BOOLEAN]
Jobs == [kind : {"none", "register", "deregister", "route", "neigh", "new"},
         rt : Rts \cup {None}, neigh : Gws \cup {None}, key : Keys \cup {None},
         todo : SUBSET CtLegs, new : BOOLEAN, ok : BOOLEAN]

CacheTypeOK ==
  /\ route \in [Slots -> Rts \cup {None}]
  /\ rt \in [Rts -> RtEntries]
  /\ nb \in [Gws -> NeighEntries]
CtTypeOK ==
  /\ ct \in [Cts -> CtEntries]
  /\ engine_ct \in [Cts -> [Legs -> 0..MaxId] \cup {None}]
KernelTypeOK ==
  /\ kroute \in [Keys -> Gws \cup {None}]
  /\ kmac \in [Gws -> Dsts \cup {None}]
  /\ rq \in Seq([key : Keys, new : BOOLEAN])
  /\ nq \in Seq([gw : Gws, mac : Dsts \cup {None}])
  /\ events \in 0..MaxEvents
HandlerTypeOK ==
  /\ pc \in Pcs
  /\ cur \in Cts \cup {None}
  /\ dir \in SUBSET Legs
  /\ job \in Jobs

(* The state stays within its types: counts never go negative and every     *)
(* pointer, flag and queue entry is of its kind.                            *)
TypeOK ==
  FppTypeOK /\ CacheTypeOK /\ CtTypeOK /\ KernelTypeOK /\ HandlerTypeOK

RouteHolders(r) == {s \in Slots : route[s] = r}
RouteCounts ==
  \A r \in Rts : /\ rt[r].count = Cardinality(RouteHolders(r))
                 /\ rt[r].count > 0 <=> rt[r].key # None

(* A neighbour is held by the routes through it and by the handler of a     *)
(* route event, which lets go of the former gateway last.                   *)
NeighHolders(g) == {r \in Rts : rt[r].neigh = g}
JobRef(g) == IF job.kind = "route" /\ job.neigh = g THEN 1 ELSE 0
NeighCounts ==
  \A g \in Gws : /\ nb[g].count = Cardinality(NeighHolders(g)) + JobRef(g)
                 /\ nb[g].count > 0 => nb[g].here

(* RtEntry and NeighborEntry counts equal the number of pointers held, the  *)
(* handler's own included, and a pointer never outlives its entry: no       *)
(* interleaving of handlers leaks or double-frees a route or a neighbour.   *)
CacheCounts == RouteCounts /\ NeighCounts

(* Make before break: at every moment, between any two commands, each leg   *)
(* the engine forwards has a route the engine holds.                        *)
EngineRoutesExist ==
  \A c \in Cts : engine_ct[c] # None =>
    \A l \in Legs : engine_ct[c][l] # 0 => engine_rt[engine_ct[c][l]] # None

(* FPP_PROGRAMMED tells exactly whether the engine has the connection, and  *)
(* without FPP_NEEDS_UPDATE the engine has the connection as CMM does.      *)
CtTracked ==
  \A c \in Cts :
    /\ ct[c].prog <=> engine_ct[c] # None
    /\ ct[c].prog /\ ~ ct[c].upd => engine_ct[c] = EngineView(ct[c])

(* The caches have followed the kernel and no handler is running.           *)
Quiescent == pc = "idle" /\ rq = <<>> /\ nq = <<>>

(* The legs of c the kernel can forward.                                    *)
Forwardable(c) ==
  {l \in ct[c].dir : /\ kroute[KeyOf[<<c, l>>]] # None
                     /\ kmac[kroute[KeyOf[<<c, l>>]]] # None}

(* Once every event is handled (and no command failed) the engine forwards  *)
(* exactly the legs the kernel can forward, to the kernel's next hop.       *)
InStep ==
  Quiescent => \A c \in Cts : ct[c].here =>
    \A l \in Legs :
      LET i == IF engine_ct[c] = None THEN 0 ELSE engine_ct[c][l]
      IN  IF l \in Forwardable(c)
          THEN i # 0 /\ engine_rt[i] = kmac[kroute[KeyOf[<<c, l>>]]]
          ELSE i = 0

(* No route survives its connections: with nothing tracked the caches are   *)
(* empty and the engine has no route.                                       *)
NothingLeftBehind ==
  pc = "idle" /\ (\A c \in Cts : ~ ct[c].here) =>
    /\ \A i \in Ids : engine_rt[i] = None
    /\ \A r \in Rts : rt[r].key = None

(* When events stop every handler and every list walk comes to its end, and *)
(* the engine ends up in step with the kernel for good.                     *)
EventuallyInStep == <>[](Quiescent /\ InStep)

----------------------------------------------------------------------------
(* What makes these properties inductive.                                   *)

(* The handler in progress and its bookkeeping fit together, and its local  *)
(* ct_route is empty outside ____cmmCtRegister.                             *)
Registering == {"orig", "rep", "progOrig", "progRep", "ct", "release"}
Deregistering == {"delRep", "delOrig"}
HandlerShape ==
  /\ pc = "idle" => job = NoJob
  /\ pc = "walk" => job.kind \in {"none", "route", "neigh", "new"}
  /\ pc \in Deregistering => job.kind = "deregister"
  /\ pc \in Registering => job.kind # "deregister"
  /\ pc \in Registering \cup Deregistering => cur # None
  /\ pc \notin Registering => slot[Local] = 0 /\ route[Local] = None

(* A cached route in use has its gateway, and its neighbour if it has one   *)
(* is that gateway.                                                         *)
RouteShape ==
  \A r \in Rts :
    IF rt[r].key = None THEN rt[r] = FreeRt
    ELSE rt[r].gw # None /\ rt[r].neigh \in {None, rt[r].gw}

(* The legs ____cmmCtRegister has been through and has not given up hold a  *)
(* fast-path route, those it has programmed a programmed one.               *)
Acquired == CASE pc = "rep" -> {"orig"}
              [] pc \in {"progOrig", "progRep", "ct"} -> Legs
              [] OTHER -> {}
Programmed == CASE pc = "progRep" -> {"orig"} [] pc = "ct" -> Legs [] OTHER -> {}
LegsReady ==
  /\ \A l \in Acquired \cap dir : slot[<<cur, l>>] # 0
  /\ \A l \in Programmed \cap dir : fpp_rt_table[slot[<<cur, l>>]].prog

(* A connection on its way out has left the engine if its removal worked.   *)
GoneFromEngine ==
  pc \in Deregistering /\ job.ok => engine_ct[cur] = None

(* With an engine that does not look after its routes and no failing update *)
(* or removal of a connection: the route of every leg the engine forwards   *)
(* is held by that leg, or by the handler that is about to replace it.      *)
EngineHeld ==
  \A c \in Cts, l \in Legs :
    engine_ct[c] # None /\ engine_ct[c][l] # 0 =>
      \/ slot[<<c, l>>] = engine_ct[c][l]
      \/ /\ c = cur /\ pc \in Registering \ {"release"}
         /\ slot[Local] = engine_ct[c][l]
CommandsReliable == Faults \cap {"ctUpd", "ctDel"} = {}

(* The engine never forwards a connection by a route it does not have, with *)
(* what makes that inductive: __cmmCtUpdateWithRoute lets go of the old     *)
(* route only after the connection has been moved off it.                   *)
ForwardInv ==
  /\ EngineRoutesExist
  /\ ~ EngineChecksLinks => /\ EngineHeld
                            /\ pc \in Deregistering => job.ok

(* The inductive invariant of the register, update and deregister paths: the*)
(* counts, the slots and the engine's tables agree at every step of every   *)
(* handler, whatever command fails.                                         *)
OffloadInv ==
  /\ TypeOK
  /\ FppInv
  /\ HandlerShape
  /\ RouteShape
  /\ RouteCounts
  /\ NeighCounts
  /\ LegsReady
  /\ CtTracked
  /\ GoneFromEngine
=============================================================================
