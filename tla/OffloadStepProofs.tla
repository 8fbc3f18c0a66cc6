--------------------------- MODULE OffloadStepProofs ---------------------------
(***************************************************************************)
(* Proofs about Offload: what every step keeps.                            *)
(***************************************************************************)
EXTENDS OffloadCacheProofs

(* The end of a neighbour or route walk, and a neighbour event, keep the    *)
(* caches consistent.                                                       *)
LEMMA WalkDoneKeepsCaches ==
  ASSUME OffloadInv, WalkDone
  PROVE  CacheInv'
<1>1. CacheInv /\ UNCHANGED <<route, rt>> /\ job \in Jobs
  BY DEF OffloadInv, TypeOK, HandlerTypeOK, CacheInv, WalkDone
<1>2. job'.kind \in {"new", "none"}
  <2>1. /\ [NoJob EXCEPT !.kind = "new", !.key = job.key, !.todo = CtLegs].kind = "new"
        /\ NoJob.kind = "none"
    BY DEF NoJob
  <2> QED BY <2>1 DEF WalkDone
<1>3. \A g \in Gws : JobRef(g)' = 0
  BY <1>2 DEF JobRef
<1>4. CASE job.kind = "route" /\ job.neigh # None
  <2>1. PICK g \in Gws : g = job.neigh
    BY <1>1, <1>4 DEF Jobs
  <2>2. /\ \A h \in Gws : JobRef(h) = IF h = g THEN 1 ELSE 0
        /\ nb' = NeighPut(g)
    BY <1>4, <2>1 DEF JobRef, WalkDone
  <2>3. /\ nb \in [Gws -> NeighEntries]
        /\ \A h \in Gws : /\ nb[h].count = Cardinality(NeighHolders(h)) + JobRef(h)
                          /\ nb[h].count > 0 => nb[h].here
                          /\ Cardinality(NeighHolders(h)) \in Nat
    BY <1>1, NeighHoldersFinite DEF CacheInv, CacheTypeOK, NeighCounts
  <2>4. nb[g].count # 0 /\ nb[g].count > 0
    BY <2>2, <2>3
  <2>5. /\ nb' \in [Gws -> NeighEntries]
        /\ nb'[g].count = nb[g].count - 1
        /\ nb'[g].count > 0 => nb'[g].here = nb[g].here
        /\ \A h \in Gws : h # g => nb'[h] = nb[h]
    BY <2>2, <2>3, <2>4, NeighPutGives
  <2>6. \A h : RouteHolders(h)' = RouteHolders(h) /\ NeighHolders(h)' = NeighHolders(h)
    BY <1>1 DEF RouteHolders, NeighHolders
  <2>7. \A h \in Gws : /\ nb'[h].count = Cardinality(NeighHolders(h)) + JobRef(h)'
                       /\ nb'[h].count > 0 => nb'[h].here
    BY <1>3, <2>2, <2>3, <2>4, <2>5
  <2>8. NeighCounts'
    BY <2>6, <2>7 DEF NeighCounts
  <2>9. RouteShape' /\ RouteCounts' /\ CacheTypeOK'
    BY <1>1, <2>5, <2>6 DEF CacheInv, CacheTypeOK, RouteShape, RouteCounts
  <2> QED BY <2>8, <2>9 DEF CacheInv
<1>5. CASE ~ (job.kind = "route" /\ job.neigh # None)
  <2>1. UNCHANGED nb
    BY <1>5 DEF WalkDone
  <2>2. \A g \in Gws : JobRef(g) = 0
    BY <1>5, NoneIsNone DEF JobRef
  <2> QED BY <1>1, <1>3, <2>1, <2>2, CachesUntouched
<1> QED BY <1>4, <1>5

(* cmmNeighborUpdate changes MAC addresses, or drops an entry nobody uses.  *)
LEMMA NeighEventKeepsCaches ==
  ASSUME OffloadInv, NeighEvent
  PROVE  CacheInv'
<1>1. /\ CacheInv /\ UNCHANGED <<route, rt>> /\ job = NoJob /\ nq # <<>>
      /\ KernelTypeOK
  BY DEF OffloadInv, TypeOK, HandlerShape, CacheInv, NeighEvent
<1>2. PICK q : q = Head(nq)
  OBVIOUS
<1>3. q \in [gw : Gws, mac : Dsts \cup {None}]
  BY <1>1, <1>2, HeadTailProperties DEF KernelTypeOK
<1>4. PICK g \in Gws, m \in Dsts \cup {None} : g = q.gw /\ m = q.mac
  BY <1>3
<1>5. \/ UNCHANGED <<nb, job>>
      \/ /\ nb[g].count = 0 /\ nb' = [nb EXCEPT ![g] = NoNeigh] /\ UNCHANGED job
      \/ /\ nb' = [nb EXCEPT ![g].mac = m]
         /\ job' = [NoJob EXCEPT !.kind = "neigh", !.neigh = g, !.todo = CtLegs]
  BY <1>2, <1>4 DEF NeighEvent
<1>6. [NoJob EXCEPT !.kind = "neigh", !.neigh = g, !.todo = CtLegs].kind = "neigh"
  BY DEF NoJob
<1>7. \A h \in Gws : JobRef(h) = 0 /\ JobRef(h)' = 0
  <2>1. NoJob.kind = "none"
    BY DEF NoJob
  <2>2. job.kind # "route" /\ job'.kind # "route"
    BY <1>1, <1>5, <1>6, <2>1
  <2> QED BY <2>2 DEF JobRef
<1>8. nb \in [Gws -> NeighEntries] /\ nb[g] \in NeighEntries
  BY <1>1 DEF CacheInv, CacheTypeOK
<1>9. ASSUME nb' \in [Gws -> NeighEntries],
             \A h \in Gws : nb'[h].count = nb[h].count
                            /\ (nb[h].count > 0 => nb'[h].here = nb[h].here)
      PROVE  CacheInv'
  <2>1. NeighCounts'
    BY <1>1, <1>7, <1>9 DEF CacheInv, NeighCounts, NeighHolders
  <2>2. RouteShape' /\ RouteCounts' /\ CacheTypeOK'
    BY <1>1, <1>9 DEF CacheInv, CacheTypeOK, RouteShape, RouteCounts, RouteHolders
  <2> QED BY <2>1, <2>2 DEF CacheInv
<1>10. CASE UNCHANGED nb
  BY <1>8, <1>9, <1>10
<1>11. CASE nb[g].count = 0 /\ nb' = [nb EXCEPT ![g] = NoNeigh]
  <2>1. NoNeigh \in NeighEntries /\ NoNeigh.count = 0
    BY DEF NoNeigh, NeighEntries
  <2> HIDE DEF NoNeigh
  <2>2. /\ nb' \in [Gws -> NeighEntries]
        /\ \A h \in Gws : nb'[h].count = nb[h].count
                          /\ (nb[h].count > 0 => nb'[h].here = nb[h].here)
    BY <1>8, <1>11, <2>1
  <2> QED BY <1>9, <2>2
<1>12. CASE nb' = [nb EXCEPT ![g].mac = m]
  <2>1. PICK n : n = [nb[g] EXCEPT !.mac = m]
    OBVIOUS
  <2>2. n \in NeighEntries /\ n.count = nb[g].count /\ n.here = nb[g].here
    BY <1>8, <2>1 DEF NeighEntries
  <2>3. nb' = [nb EXCEPT ![g] = n]
    BY <1>12, <2>1
  <2>4. /\ nb' \in [Gws -> NeighEntries]
        /\ \A h \in Gws : nb'[h].count = nb[h].count
                          /\ (nb[h].count > 0 => nb'[h].here = nb[h].here)
    BY <1>8, <2>2, <2>3
  <2> QED BY <1>9, <2>4
<1> QED BY <1>5, <1>10, <1>11, <1>12

(* Every step keeps the caches consistent.                                  *)
LEMMA StepKeepsCaches ==
  ASSUME OffloadInv, [Next]_vars
  PROVE  CacheInv'
<1>0. CacheInv /\ TypeOK /\ HandlerShape
  BY DEF OffloadInv, TypeOK, CacheInv
<1>1. ASSUME NEW l \in Legs, RegisterLeg(l) PROVE CacheInv'
  BY <1>1, RegisterLegCases
<1>2. ASSUME Release PROVE CacheInv'
  <2>1. job.kind = "register" => job' = NoJob
    BY <1>2 DEF Release
  <2>2. job.kind # "register" => job' = job
    BY <1>2 DEF Release
  <2>3. \A g \in Gws : JobRef(g)' = JobRef(g)
    BY <2>1, <2>2 DEF JobRef, NoJob
  <2> QED BY <1>0, <1>2, <2>3, RouteDeregisterKeeps, SlotFacts DEF Release
<1>3. ASSUME NEW l \in Legs, NEW at \in Deregistering, DeregisterLeg(at, l)
      PROVE  CacheInv'
  <2>1. PICK x : x = <<cur, l>>
    OBVIOUS
  <2>2. job.kind = "deregister" /\ x \in Slots /\ RouteDeregister(x)
    BY <1>0, <1>3, <2>1, CurLeg DEF DeregisterLeg, HandlerShape
  <2>3. job' = job \/ job' = NoJob
    BY <1>3 DEF DeregisterLeg
  <2>4. \A g \in Gws : JobRef(g)' = JobRef(g)
    BY <2>2, <2>3 DEF JobRef, NoJob
  <2> QED BY <1>0, <2>2, <2>4, RouteDeregisterKeeps
<1>4. ASSUME NEW x \in CtLegs, Visit(x) PROVE CacheInv'
  BY <1>4, VisitKeepsCaches
<1>5. ASSUME \/ ProgramCt \/ ProgramLeg("progOrig", "orig")
             \/ ProgramLeg("progRep", "rep") \/ UNCHANGED vars
             \/ \E k \in Keys, g \in Gws \cup {None} : KernelRoute(k, g)
             \/ \E g \in Gws, m \in Dsts \cup {None} : KernelNeigh(g, m)
      PROVE  CacheInv'
  <2>1. UNCHANGED <<route, rt, nb, job>>
    BY <1>5 DEF ProgramCt, ProgramLeg, KernelRoute, KernelNeigh, vars, cacheVars
  <2>2. \A g \in Gws : JobRef(g)' = JobRef(g)
    BY <2>1 DEF JobRef
  <2> QED BY <1>0, <2>1, <2>2, CachesUntouched
<1>6. ASSUME \/ \E c \in Cts, d \in {{"orig"}, Legs} : CtRegister(c, d)
             \/ \E c \in Cts : CtDeregister(c)
             \/ \E c \in Cts : FppRemoved(c)
      PROVE  CacheInv'
  <2>1. UNCHANGED <<route, rt, nb>> /\ job = NoJob /\ job'.kind \in {"register", "deregister"}
    BY <1>0, <1>6 DEF CtRegister, CtDeregister, FppRemoved, cacheVars, HandlerShape, NoJob
  <2>2. \A g \in Gws : JobRef(g)' = JobRef(g)
    BY <2>1 DEF JobRef, NoJob
  <2> QED BY <1>0, <2>1, <2>2, CachesUntouched
<1>7. ASSUME DeregisterLeg("delRep", "rep") \/ DeregisterLeg("delOrig", "orig")
      PROVE  CacheInv'
  BY <1>3, <1>7 DEF Legs, Deregistering
<1> QED BY <1>1, <1>2, <1>4, <1>5, <1>6, <1>7, RouteEventKeepsCaches,
           NeighEventKeepsCaches, WalkDoneKeepsCaches DEF Next, HandlerStep, Environment

----------------------------------------------------------------------------
(* The connections.                                                         *)

CtInv == CtTypeOK /\ CtTracked /\ GoneFromEngine

(* What the connection command carries depends on fpp_dir and the route     *)
(* identifiers only, and is never the absence of a connection.              *)
LEMMA EngineViewFacts ==
  /\ \A e \in CtEntries : EngineView(e) \in [Legs -> 0..MaxId] /\ EngineView(e) # None
  /\ \A e, f \in CtEntries : e.fpp_dir = f.fpp_dir /\ e.id = f.id
                               => EngineView(e) = EngineView(f)
<1>1. ASSUME NEW e \in CtEntries PROVE EngineView(e) \in [Legs -> 0..MaxId]
  BY MaxIdPos DEF EngineView, CtEntries
<1>2. ASSUME NEW e \in CtEntries, NEW f \in CtEntries, e.fpp_dir = f.fpp_dir,
             e.id = f.id
      PROVE  EngineView(e) = EngineView(f)
  BY <1>2 DEF EngineView
<1> QED BY <1>1, <1>2, NoneNoView

(* fpp_dir and __cmmCheckFPPRouteIdUpdate: without FPP_NEEDS_UPDATE nothing *)
(* the engine knows has changed.                                            *)
LEMMA RefreshedFacts ==
  ASSUME TypeOK, cur \in Cts, NEW e, e = Refreshed(ct[cur])
  PROVE  /\ e \in CtEntries
         /\ e.fpp_dir = dir
         /\ \A l \in Legs : e.id[l] = slot[<<cur, l>>]
         /\ e.prog = ct[cur].prog
         /\ ~ e.upd => EngineView(e) = EngineView(ct[cur]) /\ ~ ct[cur].upd
<1> DEFINE ids == [l \in Legs |-> slot[<<cur, l>>]]
<1>1. ct[cur] \in CtEntries /\ dir \in SUBSET Legs
  BY DEF TypeOK, CtTypeOK, HandlerTypeOK
<1>2. \A l \in Legs : <<cur, l>> \in Slots
  BY SlotFacts
<1>3. ids \in [Legs -> 0..MaxId]
  BY <1>2 DEF TypeOK, FppTypeOK
<1>4. e = [ct[cur] EXCEPT !.fpp_dir = dir, !.id = ids,
             !.upd = ct[cur].upd \/ ct[cur].fpp_dir # dir \/ ct[cur].id # ids]
  BY DEF Refreshed
<1>5. \A l \in Legs : ids[l] = slot[<<cur, l>>]
  OBVIOUS
<1> HIDE DEF ids
<1>6. /\ e \in CtEntries /\ e.fpp_dir = dir /\ e.id = ids /\ e.prog = ct[cur].prog
      /\ e.upd = (ct[cur].upd \/ ct[cur].fpp_dir # dir \/ ct[cur].id # ids)
  BY <1>1, <1>3, <1>4 DEF CtEntries
<1>7. ~ e.upd => ct[cur].fpp_dir = e.fpp_dir /\ ct[cur].id = e.id /\ ~ ct[cur].upd
  BY <1>6
<1> QED BY <1>1, <1>5, <1>6, <1>7, EngineViewFacts

(* cmmFeCtUpdate leaves CMM's record of the connection exact.               *)
LEMMA ProgramCtKeeps ==
  ASSUME OffloadInv, ProgramCt
  PROVE  CtInv'
<1>1. /\ TypeOK /\ CtTypeOK /\ CtTracked /\ pc = "ct" /\ pc' = "release"
      /\ UNCHANGED <<cur, job>> /\ cur \in Cts
  BY CurLeg DEF OffloadInv, TypeOK, ProgramCt, Registering, Legs
<1>2. PICK c \in Cts : c = cur
  BY <1>1
<1>3. PICK e : e = Refreshed(ct[cur])
  OBVIOUS
<1>4. /\ e \in CtEntries /\ e.prog = ct[c].prog
      /\ ~ e.upd => EngineView(e) = EngineView(ct[c]) /\ ~ ct[c].upd
  BY <1>1, <1>2, <1>3, RefreshedFacts
<1>5. /\ ct[c].prog <=> engine_ct[c] # None
      /\ ct[c].prog /\ ~ ct[c].upd => engine_ct[c] = EngineView(ct[c])
      /\ ct \in [Cts -> CtEntries]
      /\ engine_ct \in [Cts -> [Legs -> 0..MaxId] \cup {None}]
  BY <1>1 DEF CtTracked, CtTypeOK
<1>6. PICK v : v = EngineView(e)
  OBVIOUS
<1>7. v \in [Legs -> 0..MaxId] /\ v # None
  BY <1>4, <1>6, EngineViewFacts
<1>8. ASSUME NEW f \in CtEntries, NEW w \in [Legs -> 0..MaxId] \cup {None},
             ct' = [ct EXCEPT ![c] = f], engine_ct' = [engine_ct EXCEPT ![c] = w],
             f.prog <=> w # None,
             f.prog /\ ~ f.upd => w = EngineView(f)
      PROVE  CtInv'
  <2>1. CtTypeOK'
    BY <1>5, <1>8 DEF CtTypeOK
  <2>2. CtTracked'
    BY <1>1, <1>5, <1>8 DEF CtTracked, EngineView
  <2>3. GoneFromEngine'
    BY <1>1 DEF GoneFromEngine, Deregistering
  <2> QED BY <2>1, <2>2, <2>3 DEF CtInv
<1>9. PICK f : f = [e EXCEPT !.prog = TRUE, !.upd = FALSE]
  OBVIOUS
<1>10. /\ f \in CtEntries /\ f.prog /\ ~ f.upd /\ EngineView(f) = v
  <2>1. f \in CtEntries /\ f.prog /\ ~ f.upd /\ f.fpp_dir = e.fpp_dir /\ f.id = e.id
    BY <1>4, <1>9 DEF CtEntries
  <2> QED BY <1>4, <1>6, <2>1, EngineViewFacts
<1>11. PICK h : h = [e EXCEPT !.upd = FALSE]
  OBVIOUS
<1>12. /\ h \in CtEntries /\ h.prog = e.prog /\ ~ h.upd /\ EngineView(h) = v
  <2>1. h \in CtEntries /\ h.prog = e.prog /\ ~ h.upd /\ h.fpp_dir = e.fpp_dir /\ h.id = e.id
    BY <1>4, <1>11 DEF CtEntries
  <2> QED BY <1>4, <1>6, <2>1, EngineViewFacts
<1>13. engine_ct = [engine_ct EXCEPT ![c] = engine_ct[c]]
  BY <1>5
<1>14. \/ ~ e.prog /\ engine_ct[c] = None /\ ct' = [ct EXCEPT ![c] = f]
            /\ engine_ct' = [engine_ct EXCEPT ![c] = v]
       \/ ~ e.prog /\ ct' = [ct EXCEPT ![c] = e] /\ UNCHANGED engine_ct
       \/ e.prog /\ ct' = [ct EXCEPT ![c] = h]
            /\ engine_ct' = [engine_ct EXCEPT ![c] = v]
       \/ e.prog /\ e.upd /\ ct' = [ct EXCEPT ![c] = e] /\ UNCHANGED engine_ct
       \/ e.prog /\ ~ e.upd /\ ct' = [ct EXCEPT ![c] = e] /\ UNCHANGED engine_ct
  <2>1. FeCtUpdate(e)
    BY <1>3 DEF ProgramCt
  <2>2. ~ e.prog => engine_ct[c] = None
    BY <1>4, <1>5
  <2>3. \/ /\ ~ e.prog
           /\ \E ok \in Outcome("ctAdd") :
                IF ok
                THEN /\ ct' = [ct EXCEPT ![c] = f]
                     /\ engine_ct' = IF engine_ct[c] = None
                                     THEN [engine_ct EXCEPT ![c] = v]
                                     ELSE engine_ct
                ELSE ct' = [ct EXCEPT ![c] = e] /\ UNCHANGED engine_ct
        \/ /\ e.prog /\ e.upd
           /\ \E ok \in Outcome("ctUpd") :
                IF ok /\ engine_ct[c] # None
                THEN /\ ct' = [ct EXCEPT ![c] = h]
                     /\ engine_ct' = [engine_ct EXCEPT ![c] = v]
                ELSE ct' = [ct EXCEPT ![c] = e] /\ UNCHANGED engine_ct
        \/ /\ e.prog => ~ e.upd
           /\ ct' = [ct EXCEPT ![c] = e]
           /\ UNCHANGED engine_ct
    BY <1>2, <1>6, <1>9, <1>11, <2>1 DEF FeCtUpdate
  <2> QED BY <2>2, <2>3
<1>15. engine_ct[c] \in [Legs -> 0..MaxId] \cup {None}
  BY <1>5
<1>16. CASE ~ e.prog /\ engine_ct[c] = None /\ ct' = [ct EXCEPT ![c] = f]
            /\ engine_ct' = [engine_ct EXCEPT ![c] = v]
  BY <1>7, <1>8, <1>10, <1>16
<1>17. CASE ~ e.prog /\ ct' = [ct EXCEPT ![c] = e] /\ UNCHANGED engine_ct
  BY <1>4, <1>5, <1>8, <1>13, <1>15, <1>17
<1>18. CASE e.prog /\ ct' = [ct EXCEPT ![c] = h]
            /\ engine_ct' = [engine_ct EXCEPT ![c] = v]
  BY <1>7, <1>8, <1>12, <1>18
<1>19. CASE e.prog /\ e.upd /\ ct' = [ct EXCEPT ![c] = e] /\ UNCHANGED engine_ct
  BY <1>4, <1>5, <1>8, <1>13, <1>15, <1>19
<1>20. CASE e.prog /\ ~ e.upd /\ ct' = [ct EXCEPT ![c] = e] /\ UNCHANGED engine_ct
  BY <1>4, <1>5, <1>8, <1>13, <1>15, <1>20
<1> QED BY <1>14, <1>16, <1>17, <1>18, <1>19, <1>20

(* A connection event, and the end of a deregistration.                     *)
LEMMA CtEventKeeps ==
  ASSUME OffloadInv, NEW c \in Cts, NEW f \in CtEntries, ct' = [ct EXCEPT ![c] = f],
         \/ /\ UNCHANGED engine_ct
            /\ engine_ct[c] # None <=> f.prog
            /\ f.prog /\ ~ f.upd => engine_ct[c] = EngineView(f)
         \/ engine_ct' = [engine_ct EXCEPT ![c] = None] /\ ~ f.prog
  PROVE  CtTypeOK' /\ CtTracked'
<1>1. /\ CtTracked
      /\ ct \in [Cts -> CtEntries]
      /\ engine_ct \in [Cts -> [Legs -> 0..MaxId] \cup {None}]
  BY DEF OffloadInv, TypeOK, CtTypeOK
<1>2. CtTypeOK'
  BY <1>1 DEF CtTypeOK
<1>3. \A b \in Cts : b # c => ct'[b] = ct[b] /\ engine_ct'[b] = engine_ct[b]
  BY <1>1
<1>4. ct'[c] = f
  BY <1>1
<1>5. CASE UNCHANGED engine_ct /\ (engine_ct[c] # None <=> f.prog)
           /\ (f.prog /\ ~ f.upd => engine_ct[c] = EngineView(f))
  BY <1>1, <1>2, <1>3, <1>4, <1>5 DEF CtTracked, EngineView
<1>6. CASE engine_ct' = [engine_ct EXCEPT ![c] = None] /\ ~ f.prog
  <2>1. engine_ct'[c] = None
    BY <1>1, <1>6
  <2> QED BY <1>1, <1>2, <1>3, <1>4, <1>6, <2>1 DEF CtTracked, EngineView
<1> QED BY <1>2, <1>5, <1>6

(* Every step keeps the connection table in line with the engine.           *)
LEMMA StepKeepsCts ==
  ASSUME OffloadInv, [Next]_vars
  PROVE  CtInv'
<1>0. /\ CtTypeOK /\ CtTracked /\ GoneFromEngine /\ TypeOK /\ HandlerShape
      /\ ct \in [Cts -> CtEntries]
  BY DEF OffloadInv, TypeOK, CtTypeOK
<1>1. ASSUME NEW c \in Cts, NEW d \in {{"orig"}, Legs}, CtRegister(c, d)
      PROVE  CtInv'
  <2>1. PICK f : f = [ct[c] EXCEPT !.here = TRUE, !.dir = d]
    OBVIOUS
  <2>2. f \in CtEntries /\ f.prog = ct[c].prog /\ f.upd = ct[c].upd
        /\ f.fpp_dir = ct[c].fpp_dir /\ f.id = ct[c].id /\ ct[c] \in CtEntries
    BY <1>0, <2>1 DEF CtEntries, Legs
  <2>3. EngineView(f) = EngineView(ct[c])
    BY <2>2, EngineViewFacts
  <2>4. ct' = [ct EXCEPT ![c] = f] /\ UNCHANGED engine_ct /\ pc' = "orig"
    BY <1>0, <1>1, <2>1 DEF CtRegister, Start
  <2>5. CtTypeOK' /\ CtTracked'
    BY <1>0, <2>2, <2>3, <2>4, CtEventKeeps DEF CtTracked
  <2>6. GoneFromEngine'
    BY <2>4 DEF GoneFromEngine, Deregistering
  <2> QED BY <2>5, <2>6 DEF CtInv
<1>2. ASSUME NEW c \in Cts,
             \/ /\ engine_ct' = [engine_ct EXCEPT ![c] = None]
                /\ ct' = [ct EXCEPT ![c].prog = FALSE]
             \/ UNCHANGED <<ct, engine_ct>> /\ ~ job'.ok,
             cur' = c
      PROVE  CtInv'
  <2>1. CASE /\ engine_ct' = [engine_ct EXCEPT ![c] = None]
             /\ ct' = [ct EXCEPT ![c].prog = FALSE]
    <3>1. PICK f : f = [ct[c] EXCEPT !.prog = FALSE]
      OBVIOUS
    <3>2. f \in CtEntries /\ ~ f.prog
      BY <1>0, <3>1 DEF CtEntries
    <3>3. ct' = [ct EXCEPT ![c] = f]
      BY <2>1, <3>1
    <3>4. CtTypeOK' /\ CtTracked'
      BY <2>1, <3>2, <3>3, CtEventKeeps
    <3>5. engine_ct'[c] = None
      BY <1>0, <2>1 DEF CtTypeOK
    <3> QED BY <1>2, <3>4, <3>5 DEF CtInv, GoneFromEngine
  <2>2. CASE UNCHANGED <<ct, engine_ct>> /\ ~ job'.ok
    BY <1>0, <2>2 DEF CtInv, CtTypeOK, CtTracked, EngineView, GoneFromEngine
  <2> QED BY <1>2, <2>1, <2>2
<1>3. ASSUME NEW c \in Cts, CtDeregister(c) PROVE CtInv'
  <2>1. PICK ok \in IF ct[c].prog THEN Outcome("ctDel") ELSE {TRUE} :
          /\ job' = [NoJob EXCEPT !.kind = "deregister", !.ok = ok]
          /\ engine_ct' = IF ok /\ ct[c].prog THEN [engine_ct EXCEPT ![c] = None]
                                              ELSE engine_ct
          /\ ct' = IF ok THEN [ct EXCEPT ![c].prog = FALSE] ELSE ct
    BY <1>3 DEF CtDeregister
  <2>2. cur' = c
    BY <1>3 DEF CtDeregister
  <2>3. CASE ok
    <3>1. ~ ct[c].prog => engine_ct = [engine_ct EXCEPT ![c] = None]
      BY <1>0 DEF CtTracked, CtTypeOK
    <3> QED BY <1>2, <2>1, <2>2, <2>3, <3>1
  <2>4. CASE ~ ok
    <3>1. job'.ok = ok
      BY <2>1 DEF NoJob
    <3> QED BY <1>2, <2>1, <2>2, <2>4, <3>1
  <2> QED BY <2>3, <2>4
<1>4. ASSUME NEW c \in Cts, FppRemoved(c) PROVE CtInv'
  BY <1>2, <1>4 DEF FppRemoved
<1>5. ASSUME NEW l \in Legs, NEW at \in Deregistering, DeregisterLeg(at, l)
      PROVE  CtInv'
  <2>1. PICK c \in Cts : c = cur
    BY <1>0, <1>5, CurLeg DEF DeregisterLeg
  <2>2. pc = at /\ UNCHANGED engine_ct
    BY <1>5 DEF DeregisterLeg
  <2>3. CASE UNCHANGED ct
    <3>1. \/ pc' \notin Deregistering
          \/ UNCHANGED <<cur, job>>
      BY <1>5 DEF DeregisterLeg, Deregistering
    <3> QED BY <1>0, <1>5, <2>2, <2>3, <3>1
           DEF CtInv, CtTypeOK, CtTracked, EngineView, GoneFromEngine
  <2>4. CASE job.ok /\ ct' = [ct EXCEPT ![c] = NoCt] /\ pc' = "idle"
    <3>1. engine_ct[c] = None
      BY <1>0, <1>5, <2>1, <2>2, <2>4 DEF GoneFromEngine
    <3>2. NoCt \in CtEntries /\ ~ NoCt.prog
      BY MaxIdPos DEF NoCt, CtEntries
    <3> HIDE DEF NoCt
    <3>3. CtTypeOK' /\ CtTracked'
      BY <2>2, <2>4, <3>1, <3>2, CtEventKeeps
    <3> QED BY <2>4, <3>3 DEF CtInv, GoneFromEngine, Deregistering
  <2> QED BY <1>5, <2>1, <2>3, <2>4 DEF DeregisterLeg
<1>6. ASSUME UNCHANGED ctVars, pc' \in Deregistering => UNCHANGED <<pc, cur, job>>
      PROVE  CtInv'
  BY <1>0, <1>6 DEF CtInv, ctVars, CtTypeOK, CtTracked, EngineView, GoneFromEngine
<1>7. ASSUME \/ \E k \in Keys, g \in Gws \cup {None} : KernelRoute(k, g)
             \/ \E g \in Gws, m \in Dsts \cup {None} : KernelNeigh(g, m)
             \/ UNCHANGED vars
      PROVE  CtInv'
  BY <1>6, <1>7 DEF KernelRoute, KernelNeigh, vars
<1>8. ASSUME NEW l \in Legs, RegisterLeg(l) PROVE CtInv'
  <2>1. UNCHANGED ctVars
    BY <1>8 DEF RegisterLeg
  <2>2. pc' \in {"rep", "progOrig"}
    BY <1>8 DEF RegisterLeg, NextPc, Legs
  <2> QED BY <1>6, <2>1, <2>2 DEF Deregistering
<1>9. ASSUME ProgramLeg("progOrig", "orig") \/ ProgramLeg("progRep", "rep")
      PROVE  CtInv'
  <2>1. UNCHANGED ctVars
    BY <1>9 DEF ProgramLeg
  <2>2. pc' \in {"progRep", "ct"}
    BY <1>9 DEF ProgramLeg, NextPc
  <2> QED BY <1>6, <2>1, <2>2 DEF Deregistering
<1>10. ASSUME \/ Release \/ WalkDone \/ RouteEvent \/ \E x \in CtLegs : Visit(x)
       PROVE  CtInv'
  <2>1. UNCHANGED ctVars
    BY <1>10 DEF Release, WalkDone, RouteEvent, Visit
  <2>2. pc' \in {"idle", "walk", "orig"}
    BY <1>10 DEF Release, WalkDone, RouteEvent, Visit, Start
  <2> QED BY <1>6, <2>1, <2>2 DEF Deregistering
<1>11. ASSUME NeighEvent PROVE CtInv'
  <2>1. UNCHANGED ctVars
    BY <1>11 DEF NeighEvent
  <2>2. pc' \in {"idle", "walk"}
    BY <1>11 DEF NeighEvent
  <2> QED BY <1>6, <2>1, <2>2 DEF Deregistering
<1>12. ASSUME DeregisterLeg("delRep", "rep") \/ DeregisterLeg("delOrig", "orig")
       PROVE  CtInv'
  BY <1>5, <1>12 DEF Legs, Deregistering
<1> QED BY <1>1, <1>3, <1>4, <1>7, <1>8, <1>9, <1>10, <1>11, <1>12, ProgramCtKeeps
        DEF Next, HandlerStep, Environment

----------------------------------------------------------------------------
(* The kernel side and the handler.                                         *)
LEMMA StepKeepsKernelTypes ==
  ASSUME OffloadInv, [Next]_vars
  PROVE  KernelTypeOK'
<1> DEFINE Q == [key : Keys, new : BOOLEAN]
           N == [gw : Gws, mac : Dsts \cup {None}]
<1>0. /\ kroute \in [Keys -> Gws \cup {None}] /\ kmac \in [Gws -> Dsts \cup {None}]
      /\ rq \in Seq(Q) /\ nq \in Seq(N) /\ events \in 0..MaxEvents
  BY DEF OffloadInv, TypeOK, KernelTypeOK
<1>1. ASSUME External PROVE events' \in 0..MaxEvents
  BY <1>0, <1>1, MaxEventsNat DEF External
<1>2. ASSUME NEW k \in Keys, NEW g \in Gws \cup {None}, KernelRoute(k, g)
      PROVE  KernelTypeOK'
  <2>1. PICK q : q = [key |-> k, new |-> g # None]
    OBVIOUS
  <2>2. q \in Q
    BY <2>1
  <2> HIDE DEF Q
  <2>3. Append(rq, q) \in Seq(Q)
    BY <1>0, <2>2, AppendProperties
  <2>4. rq' = Append(rq, q)
    BY <1>2, <2>1 DEF KernelRoute
  <2> QED BY <1>0, <1>1, <1>2, <2>3, <2>4 DEF KernelRoute, KernelTypeOK, Q
<1>3. ASSUME NEW g \in Gws, NEW m \in Dsts \cup {None}, KernelNeigh(g, m)
      PROVE  KernelTypeOK'
  <2>1. PICK q : q = [gw |-> g, mac |-> m]
    OBVIOUS
  <2>2. q \in N
    BY <2>1
  <2> HIDE DEF N
  <2>3. Append(nq, q) \in Seq(N)
    BY <1>0, <2>2, AppendProperties
  <2>4. nq' = Append(nq, q)
    BY <1>3, <2>1 DEF KernelNeigh
  <2> QED BY <1>0, <1>1, <1>3, <2>3, <2>4 DEF KernelNeigh, KernelTypeOK, N
<1>4. ASSUME RouteEvent PROVE KernelTypeOK'
  <2> HIDE DEF Q
  <2>1. rq' \in Seq(Q)
    BY <1>0, <1>4, HeadTailProperties DEF RouteEvent
  <2> QED BY <1>0, <1>4, <2>1 DEF RouteEvent, KernelTypeOK, Q
<1>5. ASSUME NeighEvent PROVE KernelTypeOK'
  <2> HIDE DEF N
  <2>1. nq' \in Seq(N)
    BY <1>0, <1>5, HeadTailProperties DEF NeighEvent
  <2> QED BY <1>0, <1>5, <2>1 DEF NeighEvent, KernelTypeOK, N
<1>6. ASSUME \/ \E c \in Cts, d \in {{"orig"}, Legs} : CtRegister(c, d)
             \/ \E c \in Cts : CtDeregister(c)
             \/ \E c \in Cts : FppRemoved(c)
      PROVE  KernelTypeOK'
  BY <1>0, <1>1, <1>6 DEF CtRegister, CtDeregister, FppRemoved, KernelTypeOK
<1>7. ASSUME UNCHANGED kernelVars PROVE KernelTypeOK'
  BY <1>0, <1>7 DEF kernelVars, KernelTypeOK
<1>8. ASSUME \/ \E l \in Legs : RegisterLeg(l)
             \/ ProgramLeg("progOrig", "orig") \/ ProgramLeg("progRep", "rep")
             \/ ProgramCt \/ Release
             \/ DeregisterLeg("delRep", "rep") \/ DeregisterLeg("delOrig", "orig")
             \/ \E x \in CtLegs : Visit(x)
             \/ WalkDone \/ UNCHANGED vars
      PROVE  UNCHANGED kernelVars
  BY <1>8 DEF RegisterLeg, ProgramLeg, ProgramCt, Release, DeregisterLeg, Visit,
       WalkDone, vars
<1> QED BY <1>2, <1>3, <1>4, <1>5, <1>6, <1>7, <1>8 DEF Next, HandlerStep, Environment

(* The handler's variables keep their types and fit together.               *)
HandlerInv == HandlerTypeOK /\ HandlerShape

(* The jobs that handlers start are of their type.                          *)
LEMMA JobFacts ==
  /\ NoJob \in Jobs /\ NoJob.kind = "none"
  /\ \A j \in Jobs : \A x : /\ [j EXCEPT !.todo = @ \ {x}] \in Jobs
                            /\ [j EXCEPT !.todo = @ \ {x}].kind = j.kind
  /\ [NoJob EXCEPT !.kind = "register"] \in Jobs
  /\ [NoJob EXCEPT !.kind = "register"].kind = "register"
BY DEF NoJob, Jobs

(* __cmmRouteDeregister empties its slot and no other.                      *)
LEMMA HalfEmpties ==
  ASSUME FppTypeOK, CacheTypeOK, NEW s \in Slots, FppHalf(s), RouteDeregister(s)
  PROVE  /\ slot'[s] = 0 /\ route'[s] = None
         /\ \A t \in Slots : t # s => slot'[t] = slot[t] /\ route'[t] = route[t]
<1>1. route' = [route EXCEPT ![s] = None]
  BY DEF RouteDeregister
<1>2. CASE slot[s] = 0
  BY <1>1, <1>2 DEF FppHalf, fppVars, FppTypeOK, CacheTypeOK
<1>3. CASE slot[s] # 0
  <2>1. slot' = [slot EXCEPT ![s] = 0]
    BY <1>3 DEF FppHalf, FPPRouteDeregister
  <2> QED BY <1>1, <2>1 DEF FppTypeOK, CacheTypeOK
<1> QED BY <1>2, <1>3

(* Every step keeps the bookkeeping of the handler in progress in shape.    *)
LEMMA StepKeepsHandler ==
  ASSUME OffloadInv, [Next]_vars
  PROVE  HandlerInv'
<1>0. /\ TypeOK /\ HandlerShape /\ FppTypeOK /\ CacheTypeOK /\ FppInv /\ CacheInv
      /\ pc \in Pcs /\ cur \in Cts \cup {None} /\ dir \in SUBSET Legs /\ job \in Jobs
  BY DEF OffloadInv, TypeOK, HandlerTypeOK, CacheInv
<1>1. ct' \in [Cts -> CtEntries] /\ None \notin Cts
  BY StepKeepsCts, NoneIsNone DEF CtInv, CtTypeOK
<1>2. \A c \in Cts : ct'[c].dir \in SUBSET Legs
  BY <1>1 DEF CtEntries
<1>3. \A l \in Legs : dir \ {l} \in SUBSET Legs
  BY <1>0
<1>4. ASSUME NEW l \in Legs, RegisterLeg(l) PROVE HandlerInv'
  <2>1. /\ pc = l /\ UNCHANGED <<cur, job>> /\ dir' \in {dir, dir \ {l}}
        /\ pc' = NextPc[l]
    BY <1>4, RegisterLegCases
  <2>2. pc \in Registering /\ pc' \in Registering /\ pc' \in Pcs
    <3>1. NextPc["orig"] = "rep" /\ NextPc["rep"] = "progOrig"
      BY DEF NextPc
    <3>2. pc' \in {"rep", "progOrig"} /\ pc \in {"orig", "rep"}
      BY <2>1, <3>1 DEF Legs
    <3> QED BY <3>2 DEF Registering, Pcs
  <2> QED BY <1>0, <1>3, <2>1, <2>2
          DEF HandlerInv, HandlerTypeOK, HandlerShape, Registering, Deregistering
<1>5. ASSUME ProgramLeg("progOrig", "orig") \/ ProgramLeg("progRep", "rep")
      PROVE  HandlerInv'
  <2>1. /\ pc \in Registering /\ pc' \in Registering /\ pc' \in Pcs
        /\ UNCHANGED <<cur, job>>
    BY <1>5 DEF ProgramLeg, NextPc, Registering, Pcs
  <2>2. \E l \in Legs : dir' \in {dir, dir \ {l}}
    BY <1>5 DEF ProgramLeg, Legs
  <2> QED BY <1>0, <1>3, <2>1, <2>2
          DEF HandlerInv, HandlerTypeOK, HandlerShape, Registering, Deregistering
<1>6. ASSUME ProgramCt PROVE HandlerInv'
  BY <1>0, <1>6
     DEF ProgramCt, HandlerInv, HandlerTypeOK, HandlerShape, Registering, Deregistering, Pcs
<1>7. ASSUME Release PROVE HandlerInv'
  <2>1. slot'[Local] = 0 /\ route'[Local] = None /\ pc = "release"
    BY <1>0, <1>7, HalfEmpties, SlotFacts DEF Release
  <2>2. job.kind # "deregister" /\ cur' = None /\ dir' = {}
    BY <1>0, <1>7, <2>1 DEF HandlerShape, Registering, Release
  <2>3. CASE job.kind = "register"
    BY <1>7, <2>1, <2>2, <2>3, JobFacts
       DEF Release, HandlerInv, HandlerTypeOK, HandlerShape, Registering, Deregistering, Pcs
  <2>4. CASE job.kind # "register"
    <3>1. job.kind \in {"none", "route", "neigh", "new"}
      BY <1>0, <2>2, <2>4 DEF Jobs
    <3> QED BY <1>0, <1>7, <2>1, <2>2, <2>4, <3>1
            DEF Release, HandlerInv, HandlerTypeOK, HandlerShape, Registering,
                Deregistering, Pcs
  <2> QED BY <2>3, <2>4
<1>8. ASSUME NEW l \in Legs, NEW at \in Deregistering, DeregisterLeg(at, l),
             at = "delRep" <=> l = "rep"
      PROVE  HandlerInv'
  <2>1. PICK x : x = <<cur, l>>
    OBVIOUS
  <2>2. x \in Slots /\ x # Local /\ Local \in Slots /\ pc = at
    BY <1>0, <1>8, <2>1, CurLeg, SlotFacts DEF DeregisterLeg
  <2>3. slot'[Local] = slot[Local] /\ route'[Local] = route[Local]
    BY <1>0, <1>8, <2>1, <2>2, HalfEmpties DEF DeregisterLeg
  <2>4. slot[Local] = 0 /\ route[Local] = None /\ job.kind = "deregister" /\ cur # None
    BY <1>0, <1>8, <2>2 DEF HandlerShape, Registering, Deregistering
  <2>5. CASE l = "rep"
    <3>1. NextPc["delRep"] = "delOrig"
      BY DEF NextPc
    <3>2. pc' = NextPc[at] /\ UNCHANGED <<cur, job, dir>>
      BY <1>8, <2>5 DEF DeregisterLeg
    <3>3. pc' = "delOrig" /\ UNCHANGED <<cur, job, dir>>
      BY <1>8, <2>5, <3>1, <3>2
    <3> QED BY <1>0, <2>3, <2>4, <3>3
            DEF HandlerInv, HandlerTypeOK, HandlerShape, Registering, Deregistering, Pcs
  <2>6. CASE l # "rep"
    BY <1>0, <1>8, <2>3, <2>4, <2>6, JobFacts
       DEF DeregisterLeg, HandlerInv, HandlerTypeOK, HandlerShape, Registering,
           Deregistering, Pcs
  <2> QED BY <2>5, <2>6
<1>9. ASSUME NEW x \in CtLegs, Visit(x) PROVE HandlerInv'
  <2>1. x[1] \in Cts /\ pc = "walk"
    BY <1>9, VisitCases
  <2>2. /\ cur' = x[1] /\ dir' = ct'[x[1]].dir /\ pc' = "orig"
        /\ job' = [job EXCEPT !.todo = @ \ {x}]
    BY <1>9 DEF Visit, Start
  <2>3. job' \in Jobs /\ job'.kind = job.kind
    BY <1>0, <2>2, JobFacts
  <2>4. job.kind # "deregister"
    BY <1>0, <2>1 DEF HandlerShape
  <2> QED BY <1>1, <1>2, <2>1, <2>2, <2>3, <2>4
          DEF HandlerInv, HandlerTypeOK, HandlerShape, Registering, Deregistering, Pcs
<1>10. ASSUME UNCHANGED <<slot, route>>, pc \in {"idle", "walk"}, UNCHANGED <<cur, dir>>,
              \/ pc' = "idle" /\ job' = NoJob
              \/ /\ pc' = "walk" /\ job' \in Jobs
                 /\ job'.kind \in {"none", "route", "neigh", "new"}
       PROVE  HandlerInv'
  <2>1. slot[Local] = 0 /\ route[Local] = None
    BY <1>0, <1>10 DEF HandlerShape, Registering
  <2> QED BY <1>0, <1>10, <2>1, JobFacts
          DEF HandlerInv, HandlerTypeOK, HandlerShape, Registering, Deregistering, Pcs
<1>11. ASSUME WalkDone PROVE HandlerInv'
  <2>1. job.key \in Keys \cup {None}
    BY <1>0 DEF Jobs
  <2>2. /\ UNCHANGED <<slot, route, cur, dir>> /\ pc = "walk"
        /\ \/ pc' = "idle" /\ job' = NoJob
           \/ /\ pc' = "walk"
              /\ job' = [NoJob EXCEPT !.kind = "new", !.key = job.key, !.todo = CtLegs]
    BY <1>11 DEF WalkDone, fppVars
  <2>3. PICK j : j = [NoJob EXCEPT !.kind = "new", !.key = job.key, !.todo = CtLegs]
    OBVIOUS
  <2>4. j \in Jobs /\ j.kind = "new"
    BY <2>1, <2>3 DEF NoJob, Jobs
  <2> QED BY <1>10, <2>2, <2>3, <2>4
<1>12. ASSUME RouteEvent PROVE HandlerInv'
  <2>1. PICK q : q = Head(rq)
    OBVIOUS
  <2>2. q \in [key : Keys, new : BOOLEAN]
    BY <1>0, <1>12, <2>1, HeadTailProperties DEF TypeOK, KernelTypeOK, RouteEvent
  <2>3. PICK w : w = [NoJob EXCEPT !.key = q.key, !.new = q.new, !.todo = CtLegs]
    OBVIOUS
  <2>4. /\ UNCHANGED <<slot, route, cur, dir>> /\ pc = "idle" /\ pc' = "walk"
        /\ \/ job' = [w EXCEPT !.kind = "none"]
           \/ \E r \in RouteFind(q.key) : job' = [w EXCEPT !.kind = "route", !.rt = r]
           \/ \E r \in RouteFind(q.key) :
                job' = [w EXCEPT !.kind = "route", !.rt = r, !.neigh = rt[r].neigh]
    BY <1>12, <2>1, <2>3 DEF RouteEvent, fppVars
  <2>5. \A r \in RouteFind(q.key) : r \in Rts /\ rt[r].neigh \in Gws \cup {None}
    BY <1>0 DEF RouteFind, CacheTypeOK, RtEntries
  <2>6. q.key \in Keys /\ q.new \in BOOLEAN
    BY <2>2
  <2>7. job' \in Jobs /\ job'.kind \in {"none", "route"}
    <3>1. [w EXCEPT !.kind = "none"] \in Jobs /\ [w EXCEPT !.kind = "none"].kind = "none"
      BY <2>3, <2>6 DEF NoJob, Jobs
    <3>2. ASSUME NEW r \in RouteFind(q.key)
          PROVE  /\ [w EXCEPT !.kind = "route", !.rt = r] \in Jobs
                 /\ [w EXCEPT !.kind = "route", !.rt = r].kind = "route"
      BY <2>3, <2>5, <2>6 DEF NoJob, Jobs
    <3>3. ASSUME NEW r \in RouteFind(q.key)
          PROVE  /\ [w EXCEPT !.kind = "route", !.rt = r, !.neigh = rt[r].neigh] \in Jobs
                 /\ [w EXCEPT !.kind = "route", !.rt = r, !.neigh = rt[r].neigh].kind
                      = "route"
      BY <2>3, <2>5, <2>6 DEF NoJob, Jobs
    <3>4. CASE job' = [w EXCEPT !.kind = "none"]
      BY <3>1, <3>4
    <3>5. ASSUME NEW r \in RouteFind(q.key), job' = [w EXCEPT !.kind = "route", !.rt = r]
          PROVE  job' \in Jobs /\ job'.kind \in {"none", "route"}
      BY <3>2, <3>5
    <3>6. ASSUME NEW r \in RouteFind(q.key),
                 job' = [w EXCEPT !.kind = "route", !.rt = r, !.neigh = rt[r].neigh]
          PROVE  job' \in Jobs /\ job'.kind \in {"none", "route"}
      BY <3>3, <3>6
    <3> QED BY <2>4, <3>4, <3>5, <3>6
  <2> QED BY <1>10, <2>4, <2>7
<1>13. ASSUME NeighEvent PROVE HandlerInv'
  <2>1. PICK q : q = Head(nq)
    OBVIOUS
  <2>2. q \in [gw : Gws, mac : Dsts \cup {None}]
    BY <1>0, <1>13, <2>1, HeadTailProperties DEF TypeOK, KernelTypeOK, NeighEvent
  <2>3. q.gw \in Gws
    BY <2>2
  <2>4. /\ UNCHANGED <<slot, route, cur, dir>> /\ pc = "idle"
        /\ \/ UNCHANGED <<job, pc>>
           \/ /\ pc' = "walk"
              /\ job' = [NoJob EXCEPT !.kind = "neigh", !.neigh = q.gw, !.todo = CtLegs]
    BY <1>13, <2>1 DEF NeighEvent, fppVars
  <2>5. job = NoJob
    BY <1>0, <2>4 DEF HandlerShape
  <2>6. PICK j : j = [NoJob EXCEPT !.kind = "neigh", !.neigh = q.gw, !.todo = CtLegs]
    OBVIOUS
  <2>7. j \in Jobs /\ j.kind = "neigh"
    BY <2>3, <2>6 DEF NoJob, Jobs
  <2> QED BY <1>10, <2>4, <2>5, <2>6, <2>7
<1>14. ASSUME NEW c \in Cts, NEW d \in {{"orig"}, Legs}, CtRegister(c, d)
       PROVE  HandlerInv'
  <2>1. /\ job' = [NoJob EXCEPT !.kind = "register"] /\ cur' = c /\ pc' = "orig"
        /\ dir' = ct'[c].dir
    BY <1>14 DEF CtRegister, Start
  <2> QED BY <1>1, <1>2, <2>1, JobFacts
          DEF HandlerInv, HandlerTypeOK, HandlerShape, Registering, Deregistering, Pcs
<1>15. ASSUME NEW c \in Cts, CtDeregister(c) \/ FppRemoved(c)
       PROVE  HandlerInv'
  <2>1. /\ cur' = c /\ pc' = "delRep" /\ UNCHANGED <<dir, slot, route>> /\ pc = "idle"
        /\ \/ \E ok \in BOOLEAN : job' = [NoJob EXCEPT !.kind = "deregister", !.ok = ok]
           \/ job' = [NoJob EXCEPT !.kind = "deregister"]
    BY <1>15 DEF CtDeregister, FppRemoved, Outcome, fppVars, cacheVars
  <2>2. job' \in Jobs /\ job'.kind = "deregister"
    BY <2>1 DEF NoJob, Jobs
  <2>3. slot[Local] = 0 /\ route[Local] = None
    BY <1>0, <2>1 DEF HandlerShape, Registering
  <2> QED BY <1>0, <1>1, <2>1, <2>2, <2>3
          DEF HandlerInv, HandlerTypeOK, HandlerShape, Registering, Deregistering, Pcs
<1>16. ASSUME UNCHANGED <<slot, route, pc, cur, dir, job>> PROVE HandlerInv'
  BY <1>0, <1>16 DEF HandlerInv, HandlerTypeOK, HandlerShape
<1>17. ASSUME \/ \E k \in Keys, g \in Gws \cup {None} : KernelRoute(k, g)
              \/ \E g \in Gws, m \in Dsts \cup {None} : KernelNeigh(g, m)
              \/ UNCHANGED vars
       PROVE  UNCHANGED <<slot, route, pc, cur, dir, job>>
  BY <1>17 DEF KernelRoute, KernelNeigh, vars, fppVars, cacheVars
<1>18. ASSUME DeregisterLeg("delRep", "rep") \/ DeregisterLeg("delOrig", "orig")
       PROVE  HandlerInv'
  BY <1>8, <1>18 DEF Legs, Deregistering
<1> QED BY <1>4, <1>5, <1>6, <1>7, <1>9, <1>11, <1>12, <1>13, <1>14, <1>15, <1>16,
           <1>17, <1>18 DEF Next, HandlerStep, Environment
=============================================================================
