--------------------------- MODULE OffloadProofs ---------------------------
(***************************************************************************)
(* The theorems about Offload: its inductive invariant, that it uses the    *)
(* fast-path routes as FppRoutes says, and that the engine never forwards   *)
(* to a route that is gone.                                                 *)
(***************************************************************************)
EXTENDS OffloadStepProofs

(* What the steps of FppRoutes leave alone.                                 *)
LEMMA GetSlots ==
  ASSUME FppTypeOK, NEW s \in Slots, NEW d \in Dsts, FPPRouteGet(s, d)
  PROVE  /\ slot'[s] # 0
         /\ \A t \in Slots : t # s => slot'[t] = slot[t]
         /\ \A i \in Ids : fpp_rt_table[i].prog /\ Live(i) => fpp_rt_table'[i].prog
         /\ UNCHANGED engine_rt
<1>1. CASE \E i \in FPPRouteFind(d) :
             /\ fpp_rt_table' = [fpp_rt_table EXCEPT ![i].count = @ + 1]
             /\ slot' = [slot EXCEPT ![s] = i]
  BY <1>1 DEF FppTypeOK, FPPRouteFind, Ids, Entries, FPPRouteGet
<1>2. CASE \E i \in NewRouteId :
             /\ fpp_rt_table' = [fpp_rt_table EXCEPT ![i] =
                                   [dst |-> d, count |-> 1, prog |-> FALSE]]
             /\ slot' = [slot EXCEPT ![s] = i]
  BY <1>2 DEF FppTypeOK, NewRouteId, Ids, Entries, FPPRouteGet, Live
<1> QED BY <1>1, <1>2 DEF FPPRouteGet

(* cmmFeRouteUpdate marks an entry as programmed and changes no pointer.    *)
LEMMA AddPrograms ==
  ASSUME FppInv, NEW i \in Ids, NEW ok \in BOOLEAN, FeRouteAdd(i, ok)
  PROVE  /\ UNCHANGED slot
         /\ \A j \in Ids : fpp_rt_table[j].prog => fpp_rt_table'[j].prog
         /\ \A j \in Ids : engine_rt[j] # None => engine_rt'[j] # None
<1>1. fpp_rt_table \in [Ids -> Entries] /\ engine_rt \in [Ids -> Dsts \cup {None}]
  BY DEF FppInv, FppTypeOK
<1>2. \A j \in Ids : fpp_rt_table[j].prog => fpp_rt_table'[j].prog
  BY <1>1 DEF FeRouteAdd, Entries
<1>3. \A j \in Ids : engine_rt[j] # None => engine_rt'[j] # None
  BY <1>1 DEF FeRouteAdd
<1> QED BY <1>2, <1>3 DEF FeRouteAdd

(* The legs a registration has been through stay ready until the command.   *)
LEMMA StepKeepsLegsReady ==
  ASSUME OffloadInv, [Next]_vars
  PROVE  LegsReady'
<1>0. /\ TypeOK /\ HandlerShape /\ FppInv /\ LegsReady /\ FppTypeOK
      /\ dir \in SUBSET Legs
  BY DEF OffloadInv, TypeOK, HandlerTypeOK
<1>1. ASSUME pc' \notin {"rep", "progOrig", "progRep", "ct"} PROVE LegsReady'
  BY <1>1 DEF LegsReady, Acquired, Programmed
<1>2. ASSUME NEW l \in Legs, RegisterLeg(l) PROVE LegsReady'
  <2>1. PICK x : x = <<cur, l>>
    OBVIOUS
  <2>2. /\ cur \in Cts /\ x \in Slots /\ pc = l /\ pc' = NextPc[l] /\ UNCHANGED cur
        /\ dir' \in {dir, dir \ {l}}
        /\ l \in dir' => slot'[x] # 0
        /\ \A t \in Slots : t # x => slot'[t] = slot[t]
    <3>1. /\ cur \in Cts /\ x \in Slots /\ pc = l /\ pc' = NextPc[l] /\ UNCHANGED cur
          /\ \/ UNCHANGED fppVars /\ dir' = dir \ {l}
             \/ UNCHANGED fppVars /\ dir' = dir /\ slot[x] # 0
             \/ /\ slot[x] = 0 /\ dir' = dir
                /\ \E m \in Dsts : FPPRouteGet(x, m)
      BY <1>2, <2>1, RegisterLegCases
    <3>2. CASE /\ UNCHANGED fppVars
               /\ dir' = dir \ {l} \/ (dir' = dir /\ slot[x] # 0)
      BY <1>0, <3>1, <3>2 DEF fppVars
    <3>3. CASE dir' = dir /\ \E m \in Dsts : FPPRouteGet(x, m)
      BY <1>0, <3>1, <3>3, GetSlots
    <3> QED BY <3>1, <3>2, <3>3
  <2>3. CASE l = "orig"
    <3>1. pc' = "rep"
      BY <2>2, <2>3 DEF NextPc
    <3>2. Acquired' = {"orig"} /\ Programmed' = {}
      BY <3>1 DEF Acquired, Programmed
    <3> QED BY <2>1, <2>2, <2>3, <3>2 DEF LegsReady
  <2>4. CASE l = "rep"
    <3>1. pc' = "progOrig"
      BY <2>2, <2>4 DEF NextPc
    <3>2. Acquired' = Legs /\ Programmed' = {} /\ Acquired = {"orig"}
      BY <2>2, <2>4, <3>1 DEF Acquired, Programmed
    <3>3. "orig" \in dir' => slot'[<<cur, "orig">>] # 0
      <4>1. <<cur, "orig">> \in Slots /\ <<cur, "orig">> # x
        BY <2>1, <2>2, <2>4, SlotFacts DEF Legs
      <4> QED BY <1>0, <2>2, <3>2, <4>1 DEF LegsReady
    <3> QED BY <2>1, <2>2, <2>4, <3>2, <3>3 DEF LegsReady, Legs
  <2> QED BY <2>3, <2>4 DEF Legs
<1>3. ASSUME NEW l \in Legs, NEW at \in {"progOrig", "progRep"},
             l = (IF at = "progOrig" THEN "orig" ELSE "rep"), ProgramLeg(at, l)
      PROVE  LegsReady'
  <2>1. PICK i : i = slot[<<cur, l>>]
    OBVIOUS
  <2>2. /\ cur \in Cts /\ <<cur, l>> \in Slots
        /\ \/ l \notin dir /\ UNCHANGED <<fppVars, dir>>
           \/ /\ l \in dir
              /\ i # 0
              /\ \E ok \in BOOLEAN : FeRouteAdd(i, ok)
              /\ dir' = IF fpp_rt_table'[i].prog THEN dir ELSE dir \ {l}
    BY <1>3, <2>1, ProgramLegCases
  <2>3. pc = at /\ pc' = NextPc[at] /\ UNCHANGED cur
    BY <1>3 DEF ProgramLeg
  <2>4. i # 0 => i \in Ids
    BY <1>0, <2>1, <2>2, MaxIdPos DEF FppTypeOK, Ids
  <2>5. /\ UNCHANGED slot /\ dir' \subseteq dir
        /\ \A j \in Ids : fpp_rt_table[j].prog => fpp_rt_table'[j].prog
        /\ l \in dir' => fpp_rt_table'[i].prog
    <3>1. CASE l \notin dir /\ UNCHANGED <<fppVars, dir>>
      BY <3>1 DEF fppVars
    <3>2. CASE /\ i # 0
               /\ \E ok \in BOOLEAN : FeRouteAdd(i, ok)
               /\ dir' = IF fpp_rt_table'[i].prog THEN dir ELSE dir \ {l}
      BY <1>0, <2>4, <3>2, AddPrograms
    <3> QED BY <2>2, <3>1, <3>2
  <2>6. Acquired = Legs /\ Acquired' \subseteq Legs
    BY <1>3, <2>3 DEF Acquired, NextPc, Legs
  <2>7. \A k \in Acquired' \cap dir' : slot'[<<cur', k>>] # 0
    BY <1>0, <2>3, <2>5, <2>6 DEF LegsReady
  <2>8. Programmed' = Programmed \cup {l}
    BY <1>3, <2>3 DEF Programmed, NextPc, Legs
  <2>9. \A k \in Legs : <<cur, k>> \in Slots /\ slot[<<cur, k>>] \in 0..MaxId
    BY <1>0, <2>2, SlotFacts DEF FppTypeOK
  <2>10. ASSUME NEW k \in Programmed' \cap dir'
         PROVE  fpp_rt_table'[slot'[<<cur', k>>]].prog
    <3>1. CASE k = l
      BY <2>1, <2>3, <2>5, <2>10, <3>1
    <3>2. CASE k # l
      <4>1. k \in Programmed \cap dir /\ k \in Legs
        BY <1>0, <2>5, <2>8, <2>10, <3>2
      <4>2. slot[<<cur, k>>] # 0 /\ fpp_rt_table[slot[<<cur, k>>]].prog
        BY <1>0, <2>6, <4>1 DEF LegsReady
      <4>3. slot[<<cur, k>>] \in Ids
        BY <2>9, <4>1, <4>2, MaxIdPos DEF Ids
      <4> QED BY <2>3, <2>5, <4>2, <4>3
    <3> QED BY <3>1, <3>2
  <2> QED BY <2>7, <2>10 DEF LegsReady
<1>4. ASSUME \/ ProgramCt \/ Release \/ WalkDone \/ RouteEvent
             \/ \E x \in CtLegs : Visit(x)
             \/ \E c \in Cts, d \in {{"orig"}, Legs} : CtRegister(c, d)
             \/ \E c \in Cts : CtDeregister(c)
             \/ \E c \in Cts : FppRemoved(c)
      PROVE  LegsReady'
  <2>1. pc' \in {"release", "idle", "walk", "orig", "delRep"}
    BY <1>4 DEF ProgramCt, Release, WalkDone, RouteEvent, Visit, Start, CtRegister,
         CtDeregister, FppRemoved
  <2> QED BY <1>1, <2>1
<1>5. ASSUME NeighEvent PROVE LegsReady'
  <2>1. pc' \in {"idle", "walk"}
    BY <1>5 DEF NeighEvent
  <2> QED BY <1>1, <2>1
<1>6. ASSUME DeregisterLeg("delRep", "rep") \/ DeregisterLeg("delOrig", "orig")
      PROVE  LegsReady'
  <2>1. pc' \in {"delOrig", "idle"}
    BY <1>6 DEF DeregisterLeg, NextPc
  <2> QED BY <1>1, <2>1
<1>7. ASSUME \/ \E k \in Keys, g \in Gws \cup {None} : KernelRoute(k, g)
             \/ \E g \in Gws, m \in Dsts \cup {None} : KernelNeigh(g, m)
             \/ UNCHANGED vars
      PROVE  LegsReady'
  <2>1. UNCHANGED <<slot, fpp_rt_table, pc, cur, dir>>
    BY <1>7 DEF KernelRoute, KernelNeigh, vars, fppVars
  <2> QED BY <1>0, <2>1 DEF LegsReady, Acquired, Programmed
<1>8. ASSUME ProgramLeg("progOrig", "orig") \/ ProgramLeg("progRep", "rep")
      PROVE  LegsReady'
  BY <1>3, <1>8 DEF Legs
<1> QED BY <1>2, <1>4, <1>5, <1>6, <1>7, <1>8 DEF Next, HandlerStep, Environment

----------------------------------------------------------------------------
(* The initial state satisfies the invariant.                               *)
LEMMA InitEstablishes == Init => OffloadInv
<1> SUFFICES ASSUME Init PROVE OffloadInv
  OBVIOUS
<1>1. FppInv
  BY FppInitEstablishes DEF Init
<1>2. /\ FreeRt \in RtEntries /\ FreeRt.key = None /\ FreeRt.count = 0
      /\ FreeRt.neigh = None
  BY DEF FreeRt, RtEntries
<1>3. NoNeigh \in NeighEntries /\ NoNeigh.count = 0
  BY DEF NoNeigh, NeighEntries
<1>4. NoCt \in CtEntries /\ ~ NoCt.prog
  BY MaxIdPos DEF NoCt, CtEntries
<1>5. NoJob \in Jobs /\ NoJob.kind = "none"
  BY JobFacts
<1>6. TypeOK
  <2>1. CacheTypeOK
    BY <1>2, <1>3 DEF Init, CacheTypeOK
  <2>2. CtTypeOK
    BY <1>4 DEF Init, CtTypeOK
  <2>3. rq \in Seq([key : Keys, new : BOOLEAN]) /\ nq \in Seq([gw : Gws, mac : Dsts \cup {None}])
    BY EmptySeq DEF Init
  <2>4. KernelTypeOK
    BY <2>3, MaxEventsNat DEF Init, KernelTypeOK
  <2>5. HandlerTypeOK
    BY <1>5 DEF Init, HandlerTypeOK, Pcs
  <2> QED BY <1>1, <2>1, <2>2, <2>4, <2>5 DEF TypeOK, FppInv
<1>7. HandlerShape
  BY SlotFacts DEF Init, FppInit, HandlerShape, Registering, Deregistering
<1>8. RouteShape
  BY <1>2 DEF Init, RouteShape
<1>9. RouteCounts
  <2>1. \A r \in Rts : RouteHolders(r) = {}
    BY NoneIsNone DEF Init, RouteHolders
  <2>2. Cardinality({}) = 0
    BY FS_EmptySet
  <2>3. \A r \in Rts : rt[r].count = 0 /\ rt[r].key = None
    BY <1>2 DEF Init
  <2>4. \A r \in Rts : rt[r].count = Cardinality(RouteHolders(r))
    BY <2>1, <2>2, <2>3
  <2>5. \A r \in Rts : rt[r].count > 0 <=> rt[r].key # None
    BY <2>3
  <2> QED BY <2>4, <2>5 DEF RouteCounts
<1>10. NeighCounts
  <2>1. \A g \in Gws : NeighHolders(g) = {} /\ JobRef(g) = 0
    BY <1>2, <1>5, NoneIsNone DEF Init, NeighHolders, JobRef
  <2>2. Cardinality({}) = 0
    BY FS_EmptySet
  <2>3. \A g \in Gws : nb[g].count = 0
    BY <1>3 DEF Init
  <2> QED BY <2>1, <2>2, <2>3 DEF NeighCounts
<1>11. LegsReady /\ GoneFromEngine
  BY DEF Init, LegsReady, Acquired, Programmed, GoneFromEngine, Deregistering
<1>12. CtTracked
  BY <1>4 DEF Init, CtTracked
<1> QED BY <1>1, <1>6, <1>7, <1>8, <1>9, <1>10, <1>11, <1>12 DEF OffloadInv

(* OffloadInv is inductive.                                                 *)
THEOREM StepKeepsInv == OffloadInv /\ [Next]_vars => OffloadInv'
<1> SUFFICES ASSUME OffloadInv, [Next]_vars PROVE OffloadInv'
  OBVIOUS
<1>1. FppInv'
  BY StepIsFppStep, FppNextKeeps DEF OffloadInv
<1>2. CacheInv' /\ CtInv' /\ KernelTypeOK' /\ HandlerInv' /\ LegsReady'
  BY StepKeepsCaches, StepKeepsCts, StepKeepsKernelTypes, StepKeepsHandler,
     StepKeepsLegsReady
<1> QED BY <1>1, <1>2 DEF OffloadInv, TypeOK, FppInv, CacheInv, CtInv, HandlerInv

(* OffloadInv always holds, whatever commands the engine refuses: counts of *)
(* both caches and of the fast-path routes are exact, no pointer dangles,   *)
(* and CMM's flags describe the engine.                                     *)
THEOREM OffloadCorrect == Spec => []OffloadInv
BY InitEstablishes, StepKeepsInv, PTL DEF Spec

(* The parts of OffloadInv the runs check by name: types, the counts of the *)
(* caches, what CMM knows of the engine's connections and routes.           *)
THEOREM OffloadTypes == Spec => []TypeOK
<1>1. OffloadInv => TypeOK
  BY DEF OffloadInv
<1> QED BY <1>1, OffloadCorrect, PTL

(* __cmmRouteGet/Put and __cmmNeighGet/Put balance in every interleaving:   *)
(* the counts of both caches are exact.                                     *)
THEOREM CachesExact == Spec => []CacheCounts
<1>1. OffloadInv => CacheCounts
  BY DEF OffloadInv, CacheCounts
<1> QED BY <1>1, OffloadCorrect, PTL

(* __cmmFPPRouteGet, __cmmFPPRouteDeregister and the move of a leg keep the *)
(* count of every fast-path route at the number of pointers to it, the      *)
(* handler's own ct_route included.                                         *)
THEOREM FastPathCountsExact == Spec => []CountIsHolders
<1>1. OffloadInv => CountIsHolders
  BY DEF OffloadInv, FppInv
<1> QED BY <1>1, OffloadCorrect, PTL

(* After every answer of the engine FPP_PROGRAMMED says whether it has the  *)
(* connection, and a clear FPP_NEEDS_UPDATE that it has it as CMM does.     *)
THEOREM ConnectionsTracked == Spec => []CtTracked
<1>1. OffloadInv => CtTracked
  BY DEF OffloadInv
<1> QED BY <1>1, OffloadCorrect, PTL

(* After every answer of the engine the entries marked FPP_PROGRAMMED are   *)
(* exactly its routes, the ones it refused to remove included.              *)
THEOREM RoutesTracked == Spec => []EngineTracked
<1>1. OffloadInv => EngineTracked
  BY DEF OffloadInv, FppInv
<1> QED BY <1>1, OffloadCorrect, PTL

(* The handlers of Offload, however they interleave with the kernel and     *)
(* with failing commands, are users of the table FppRoutes describes.       *)
THEOREM OffloadUsesFppRoutes == Spec => FppSpec
<1>1. Init => FppInit
  BY DEF Init
<1>2. OffloadInv /\ [Next]_vars => [FppNext]_fppVars
  BY StepIsFppStep
<1> QED BY <1>1, <1>2, OffloadCorrect, PTL DEF Spec, FppSpec

----------------------------------------------------------------------------
(* Make before break.                                                       *)

(* A route leaves the engine only with its last holder, and not even then   *)
(* if the engine refuses to drop a route it uses.                           *)
LEMMA HalfKeepsRoute ==
  ASSUME OffloadInv, NEW s \in Slots, FppHalf(s), NEW i \in Ids, engine_rt[i] # None,
         \/ EngineChecksLinks /\ Linked(i)
         \/ \E t \in Slots : t # s /\ slot[t] = i
  PROVE  engine_rt'[i] # None
<1>0. FppInv /\ engine_rt \in [Ids -> Dsts \cup {None}]
  BY DEF OffloadInv, FppInv, FppTypeOK
<1>1. CASE slot[s] = 0
  BY <1>1 DEF FppHalf, fppVars
<1>2. CASE slot[s] # 0
  <2>1. PICK ok \in RemoveOutcome(slot[s]) : FPPRouteDeregister(s, ok)
    BY <1>2 DEF FppHalf
  <2>2. CASE slot[s] # i
    BY <1>0, <2>1, <2>2 DEF FPPRouteDeregister
  <2>3. CASE slot[s] = i
    <3>1. CASE EngineChecksLinks /\ Linked(i)
      <4>1. ok = FALSE
        BY <2>1, <2>3, <3>1 DEF RemoveOutcome
      <4> QED BY <2>1, <4>1 DEF FPPRouteDeregister
    <3>2. CASE \E t \in Slots : t # s /\ slot[t] = i
      <4>1. fpp_rt_table[i].count # 1
        BY <1>0, <1>2, <2>3, <3>2, LastHolder
      <4> QED BY <2>1, <2>3, <4>1 DEF FPPRouteDeregister
    <3> QED BY <3>1, <3>2
  <2> QED BY <2>2, <2>3
<1> QED BY <1>1, <1>2

(* Releasing slot s keeps the engine's routes if no leg the engine forwards *)
(* depends on s alone.                                                      *)
LEMMA HalfKeepsForwarding ==
  ASSUME OffloadInv, EngineRoutesExist, NEW s \in Slots, FppHalf(s), UNCHANGED engine_ct,
         ~ EngineChecksLinks =>
           \A c \in Cts, l \in Legs : engine_ct[c] # None /\ engine_ct[c][l] # 0 =>
             \E t \in Slots : t # s /\ slot[t] = engine_ct[c][l]
  PROVE  EngineRoutesExist'
<1> SUFFICES ASSUME NEW c \in Cts, NEW l \in Legs, engine_ct[c] # None,
                    engine_ct[c][l] # 0
             PROVE  engine_rt'[engine_ct[c][l]] # None
  BY DEF EngineRoutesExist
<1>1. PICK i : i = engine_ct[c][l]
  OBVIOUS
<1>2. i \in Ids
  BY <1>1, MaxIdPos DEF OffloadInv, TypeOK, CtTypeOK, Ids
<1>3. engine_rt[i] # None /\ Linked(i)
  BY <1>1 DEF EngineRoutesExist, Linked
<1>4. CASE EngineChecksLinks
  BY <1>1, <1>2, <1>3, <1>4, HalfKeepsRoute
<1>5. CASE ~ EngineChecksLinks
  BY <1>1, <1>2, <1>3, <1>5, HalfKeepsRoute
<1> QED BY <1>4, <1>5

(* cmmFeCtUpdate sends only legs whose routes are programmed, and when it   *)
(* has worked the engine uses the routes the legs hold.                     *)
LEMMA ProgramCtForwards ==
  ASSUME OffloadInv, OffloadInv', ForwardInv, EngineChecksLinks \/ CommandsReliable,
         ProgramCt
  PROVE  ForwardInv'
<1>1. /\ TypeOK /\ pc = "ct" /\ pc' = "release" /\ UNCHANGED fppVars /\ UNCHANGED cur
      /\ cur \in Cts /\ EngineRoutesExist /\ FppInv /\ LegsReady /\ dir \in SUBSET Legs
      /\ CtTypeOK /\ CtTracked
  BY CurLeg DEF OffloadInv, TypeOK, HandlerTypeOK, ProgramCt, Registering, Legs, ForwardInv
<1>2. PICK c \in Cts : c = cur
  BY <1>1
<1>3. PICK e : e = Refreshed(ct[cur])
  OBVIOUS
<1>4. /\ e \in CtEntries /\ e.fpp_dir = dir /\ e.prog = ct[c].prog
      /\ \A l \in Legs : e.id[l] = slot[<<c, l>>]
      /\ ~ e.upd => EngineView(e) = EngineView(ct[c]) /\ ~ ct[c].upd
  BY <1>1, <1>2, <1>3, RefreshedFacts
<1>5. \A l \in Legs : EngineView(e)[l] # 0 =>
         /\ EngineView(e)[l] = slot[<<c, l>>]
         /\ engine_rt[slot[<<c, l>>]] # None
  <2> SUFFICES ASSUME NEW l \in Legs, EngineView(e)[l] # 0
               PROVE  /\ EngineView(e)[l] = slot[<<c, l>>]
                      /\ engine_rt[slot[<<c, l>>]] # None
    OBVIOUS
  <2>1. EngineView(e)[l] = slot[<<c, l>>] /\ l \in dir
    BY <1>4 DEF EngineView
  <2>2. Programmed = Legs
    BY <1>1 DEF Programmed
  <2>3. fpp_rt_table[slot[<<c, l>>]].prog
    BY <1>1, <1>2, <2>1, <2>2 DEF LegsReady
  <2>4. <<c, l>> \in Slots /\ slot[<<c, l>>] # 0
    BY <2>1, SlotFacts
  <2>5. slot[<<c, l>>] \in Ids /\ Live(slot[<<c, l>>])
    BY <1>1, <2>4, HeldIsCounted
  <2> QED BY <1>1, <2>1, <2>3, <2>5 DEF FppInv, EngineTracked, Live
<1>6. \/ engine_ct' = [engine_ct EXCEPT ![c] = EngineView(e)]
      \/ UNCHANGED engine_ct /\ ~ e.prog
      \/ UNCHANGED engine_ct /\ e.prog /\ ~ e.upd
      \/ UNCHANGED engine_ct /\ "ctUpd" \in Faults
  <2>1. FeCtUpdate(e)
    BY <1>3 DEF ProgramCt
  <2>2. e.prog <=> engine_ct[c] # None
    BY <1>1, <1>4 DEF CtTracked
  <2>3. \/ ~ e.prog /\ engine_ct' = [engine_ct EXCEPT ![c] = EngineView(e)]
        \/ ~ e.prog /\ UNCHANGED engine_ct
        \/ e.prog /\ ~ e.upd /\ UNCHANGED engine_ct
        \/ /\ e.prog
           /\ \E ok \in Outcome("ctUpd") :
                IF ok /\ engine_ct[c] # None
                THEN engine_ct' = [engine_ct EXCEPT ![c] = EngineView(e)]
                ELSE UNCHANGED engine_ct
    BY <1>2, <2>1 DEF FeCtUpdate
  <2> QED BY <2>2, <2>3 DEF Outcome
<1>7. EngineRoutesExist'
  <2>1. UNCHANGED engine_rt
    BY <1>1 DEF fppVars
  <2>2. CASE UNCHANGED engine_ct
    BY <1>1, <2>1, <2>2 DEF EngineRoutesExist
  <2>3. CASE engine_ct' = [engine_ct EXCEPT ![c] = EngineView(e)]
    BY <1>1, <1>5, <2>1, <2>3 DEF EngineRoutesExist, CtTypeOK
  <2> QED BY <1>6, <2>2, <2>3
<1>8. ASSUME ~ EngineChecksLinks PROVE EngineHeld'
  <2>1. EngineHeld /\ "ctUpd" \notin Faults /\ UNCHANGED slot
    BY <1>1, <1>8 DEF ForwardInv, CommandsReliable, fppVars
  <2>2. \A b \in Cts, l \in Legs : b # c /\ engine_ct[b] # None /\ engine_ct[b][l] # 0 =>
           slot[<<b, l>>] = engine_ct[b][l]
    BY <1>2, <2>1 DEF EngineHeld
  <2>3. \A b \in Cts : b # c => engine_ct'[b] = engine_ct[b]
    BY <1>1, <1>6 DEF CtTypeOK
  <2>4. \/ engine_ct'[c] = None
        \/ engine_ct'[c] = EngineView(e)
    BY <1>1, <1>4, <1>6, <2>1 DEF CtTypeOK, CtTracked
  <2>5. \A l \in Legs : engine_ct'[c] # None /\ engine_ct'[c][l] # 0 =>
           slot[<<c, l>>] = engine_ct'[c][l]
    BY <1>5, <2>4
  <2> QED BY <2>1, <2>2, <2>3, <2>5 DEF EngineHeld
<1> QED BY <1>1, <1>7, <1>8 DEF ForwardInv, Deregistering

(* Every other step keeps the routes the engine uses in the engine.         *)
LEMMA StepForwards ==
  ASSUME OffloadInv, OffloadInv', ForwardInv, EngineChecksLinks \/ CommandsReliable,
         [Next]_vars
  PROVE  ForwardInv'
<1>0. /\ TypeOK /\ FppTypeOK /\ CacheTypeOK /\ CtTypeOK /\ HandlerShape /\ EngineRoutesExist
      /\ FppInv /\ cur \in Cts \cup {None}
      /\ ~ EngineChecksLinks => EngineHeld /\ (pc \in Deregistering => job.ok)
      /\ engine_rt \in [Ids -> Dsts \cup {None}]
      /\ \A c \in Cts, l \in Legs : engine_ct[c] # None /\ engine_ct[c][l] # 0
                                      => engine_ct[c][l] \in Ids
  BY MaxIdPos DEF OffloadInv, TypeOK, HandlerTypeOK, ForwardInv, FppTypeOK, CtTypeOK, Ids
<1>1. ASSUME UNCHANGED engine_ct, \A i \in Ids : engine_rt[i] # None => engine_rt'[i] # None
      PROVE  EngineRoutesExist'
  BY <1>0, <1>1 DEF EngineRoutesExist
<1>2. ASSUME NEW l \in Legs, RegisterLeg(l) PROVE ForwardInv'
  <2>1. PICK x : x = <<cur, l>>
    OBVIOUS
  <2>2. /\ cur \in Cts /\ x \in Slots /\ x # Local /\ pc = l /\ pc' = NextPc[l]
        /\ UNCHANGED <<engine_ct, cur, engine_rt>>
        /\ \A t \in Slots : t # x \/ slot[x] # 0 => slot'[t] = slot[t]
    <3>1. /\ cur \in Cts /\ x \in Slots /\ x # Local /\ pc = l /\ pc' = NextPc[l]
          /\ UNCHANGED <<engine_ct, cur>>
          /\ \/ UNCHANGED fppVars
             \/ slot[x] = 0 /\ \E m \in Dsts : FPPRouteGet(x, m)
      BY <1>2, <2>1, RegisterLegCases DEF ctVars
    <3>2. CASE UNCHANGED fppVars
      BY <3>1, <3>2 DEF fppVars
    <3>3. CASE slot[x] = 0 /\ \E m \in Dsts : FPPRouteGet(x, m)
      BY <1>0, <3>1, <3>3, GetSlots
    <3> QED BY <3>1, <3>2, <3>3
  <2>3. pc' \in Registering \ {"release"} /\ pc \in Registering \ {"release"}
    BY <2>2 DEF NextPc, Legs, Registering
  <2>4. ASSUME ~ EngineChecksLinks PROVE EngineHeld'
    <3> SUFFICES ASSUME NEW c \in Cts, NEW k \in Legs, engine_ct[c] # None,
                        engine_ct[c][k] # 0
                 PROVE  \/ slot'[<<c, k>>] = engine_ct[c][k]
                        \/ c = cur /\ slot'[Local] = engine_ct[c][k]
      BY <2>2, <2>3 DEF EngineHeld
    <3>1. \/ slot[<<c, k>>] = engine_ct[c][k]
          \/ c = cur /\ slot[Local] = engine_ct[c][k]
      BY <1>0, <2>4 DEF EngineHeld
    <3>2. <<c, k>> \in Slots /\ Local \in Slots
      BY SlotFacts
    <3> QED BY <2>2, <3>1, <3>2
  <2> QED BY <1>1, <2>2, <2>3, <2>4 DEF ForwardInv, Registering, Deregistering
<1>3. ASSUME NEW l \in Legs, NEW at \in {"progOrig", "progRep"},
             l = (IF at = "progOrig" THEN "orig" ELSE "rep"), ProgramLeg(at, l)
      PROVE  ForwardInv'
  <2>1. /\ UNCHANGED <<engine_ct, cur>> /\ pc = at /\ pc' = NextPc[at]
    BY <1>3 DEF ProgramLeg, ctVars
  <2>2. pc' \in Registering \ {"release"} /\ pc \in Registering \ {"release"}
    BY <1>3, <2>1 DEF NextPc, Registering
  <2>3. UNCHANGED slot /\ \A i \in Ids : engine_rt[i] # None => engine_rt'[i] # None
    <3>1. PICK i : i = slot[<<cur, l>>]
      OBVIOUS
    <3>2. /\ <<cur, l>> \in Slots
          /\ \/ UNCHANGED fppVars
             \/ i # 0 /\ \E ok \in BOOLEAN : FeRouteAdd(i, ok)
      BY <1>3, <3>1, ProgramLegCases
    <3>3. i # 0 => i \in Ids
      BY <1>0, <3>1, <3>2, MaxIdPos DEF FppTypeOK, Ids
    <3>4. CASE UNCHANGED fppVars
      BY <3>4 DEF fppVars
    <3>5. CASE i # 0 /\ \E ok \in BOOLEAN : FeRouteAdd(i, ok)
      BY <1>0, <3>3, <3>5, AddPrograms
    <3> QED BY <3>2, <3>4, <3>5
  <2>4. ASSUME ~ EngineChecksLinks PROVE EngineHeld'
    BY <1>0, <2>1, <2>2, <2>3, <2>4 DEF EngineHeld
  <2> QED BY <1>1, <2>1, <2>2, <2>3, <2>4 DEF ForwardInv, Registering, Deregistering
<1>4. ASSUME Release PROVE ForwardInv'
  <2>1. /\ pc = "release" /\ pc' \in {"idle", "walk"} /\ UNCHANGED engine_ct
        /\ FppHalf(Local) /\ RouteDeregister(Local) /\ Local \in Slots
    BY <1>4, SlotFacts DEF Release, ctVars
  <2>2. ~ EngineChecksLinks =>
           \A c \in Cts, l \in Legs : engine_ct[c] # None /\ engine_ct[c][l] # 0 =>
             slot[<<c, l>>] = engine_ct[c][l]
    BY <1>0, <2>1 DEF EngineHeld
  <2>3. \A c \in Cts, l \in Legs : <<c, l>> \in Slots /\ <<c, l>> # Local
    BY SlotFacts
  <2>4. EngineRoutesExist'
    BY <1>0, <2>1, <2>2, <2>3, HalfKeepsForwarding
  <2>5. \A c \in Cts, l \in Legs : slot'[<<c, l>>] = slot[<<c, l>>]
    BY <1>0, <2>1, <2>3, HalfEmpties
  <2> QED BY <2>1, <2>2, <2>4, <2>5 DEF ForwardInv, EngineHeld, Deregistering
<1>5. ASSUME NEW l \in Legs, NEW at \in Deregistering, DeregisterLeg(at, l)
      PROVE  ForwardInv'
  <2>1. PICK x : x = <<cur, l>>
    OBVIOUS
  <2>2. /\ pc = at /\ UNCHANGED engine_ct /\ cur \in Cts /\ x \in Slots
        /\ FppHalf(x) /\ RouteDeregister(x)
    BY <1>0, <1>5, <2>1, CurLeg DEF DeregisterLeg
  <2>3. ~ EngineChecksLinks => job.ok /\ engine_ct[cur] = None
    BY <1>0, <1>5, <2>2 DEF OffloadInv, GoneFromEngine
  <2>4. ~ EngineChecksLinks =>
           \A c \in Cts, k \in Legs : engine_ct[c] # None /\ engine_ct[c][k] # 0 =>
             slot[<<c, k>>] = engine_ct[c][k] /\ <<c, k>> # x
    BY <1>0, <1>5, <2>1, <2>2, <2>3 DEF EngineHeld, Registering, Deregistering
  <2>5. \A c \in Cts, k \in Legs : <<c, k>> \in Slots
    BY SlotFacts
  <2>6. EngineRoutesExist'
    BY <1>0, <2>2, <2>4, <2>5, HalfKeepsForwarding
  <2>7. \A c \in Cts, k \in Legs : <<c, k>> # x => slot'[<<c, k>>] = slot[<<c, k>>]
    BY <1>0, <2>2, <2>5, HalfEmpties
  <2>8. pc' \in Deregistering => UNCHANGED job
    BY <1>5 DEF DeregisterLeg, Deregistering
  <2> QED BY <2>2, <2>3, <2>4, <2>6, <2>7, <2>8 DEF ForwardInv, EngineHeld
<1>6. ASSUME NEW x \in CtLegs, Visit(x) PROVE ForwardInv'
  <2>1. /\ x \in Slots /\ x # Local /\ Local \in Slots /\ x[1] \in Cts /\ pc = "walk"
        /\ \/ slot[x] = 0 /\ UNCHANGED fppVars
           \/ FPPRouteMove(x, Local)
        /\ UNCHANGED engine_ct
    BY <1>6, VisitCases DEF ctVars
  <2>2. cur' = x[1] /\ pc' = "orig"
    BY <1>6 DEF Visit, Start
  <2>3. /\ UNCHANGED engine_rt
        /\ \A t \in Slots : t \notin {x, Local} => slot'[t] = slot[t]
        /\ slot[x] # 0 => slot'[Local] = slot[x]
    BY <1>0, <2>1 DEF FPPRouteMove, fppVars, FppTypeOK
  <2>4. ASSUME ~ EngineChecksLinks PROVE EngineHeld'
    <3> SUFFICES ASSUME NEW c \in Cts, NEW k \in Legs, engine_ct[c] # None,
                        engine_ct[c][k] # 0
                 PROVE  \/ slot'[<<c, k>>] = engine_ct[c][k]
                        \/ c = x[1] /\ slot'[Local] = engine_ct[c][k]
      BY <2>1, <2>2 DEF EngineHeld, Registering
    <3>1. slot[<<c, k>>] = engine_ct[c][k]
      BY <1>0, <2>1, <2>4 DEF EngineHeld, Registering
    <3>2. <<c, k>> \in Slots /\ <<c, k>> # Local
      BY SlotFacts
    <3>3. CASE <<c, k>> = x
      BY <2>3, <3>1, <3>3
    <3>4. CASE <<c, k>> # x
      BY <2>3, <3>1, <3>2, <3>4
    <3> QED BY <3>3, <3>4
  <2> QED BY <1>1, <2>1, <2>2, <2>3, <2>4 DEF ForwardInv, Deregistering
<1>7. ASSUME UNCHANGED <<slot, engine_rt, engine_ct>>, pc \notin Registering,
             pc' \notin Deregistering
      PROVE  ForwardInv'
  BY <1>0, <1>1, <1>7 DEF ForwardInv, EngineHeld
<1>8. ASSUME \/ RouteEvent \/ NeighEvent \/ WalkDone
             \/ \E c \in Cts, d \in {{"orig"}, Legs} : CtRegister(c, d)
      PROVE  ForwardInv'
  <2>1. UNCHANGED <<slot, engine_rt, engine_ct>>
    BY <1>8 DEF RouteEvent, NeighEvent, WalkDone, CtRegister, fppVars, ctVars
  <2>2. pc \in {"idle", "walk"}
    BY <1>8 DEF RouteEvent, NeighEvent, WalkDone, CtRegister
  <2>3. pc' \in {"idle", "walk", "orig"}
    BY <1>8, <2>2 DEF RouteEvent, NeighEvent, WalkDone, CtRegister, Start
  <2> QED BY <1>7, <2>1, <2>2, <2>3 DEF Registering, Deregistering
<1>9. ASSUME NEW c \in Cts, CtDeregister(c) \/ FppRemoved(c) PROVE ForwardInv'
  <2>1. /\ UNCHANGED <<slot, engine_rt>> /\ pc = "idle"
        /\ UNCHANGED engine_ct \/ engine_ct' = [engine_ct EXCEPT ![c] = None]
    BY <1>9 DEF CtDeregister, FppRemoved, fppVars
  <2>2. EngineRoutesExist'
    BY <1>0, <2>1 DEF EngineRoutesExist, CtTypeOK
  <2>3. ASSUME ~ EngineChecksLinks PROVE EngineHeld'
    BY <1>0, <2>1, <2>3 DEF EngineHeld, Registering, CtTypeOK
  <2>4. ASSUME ~ EngineChecksLinks PROVE job'.ok
    <3>1. Outcome("ctDel") = {TRUE}
      BY <2>4 DEF CommandsReliable, Outcome
    <3>2. \/ job' = [NoJob EXCEPT !.kind = "deregister", !.ok = TRUE]
          \/ job' = [NoJob EXCEPT !.kind = "deregister"]
      BY <1>9, <3>1 DEF CtDeregister, FppRemoved
    <3> QED BY <3>2 DEF NoJob
  <2> QED BY <2>2, <2>3, <2>4 DEF ForwardInv
<1>10. ASSUME \/ \E k \in Keys, g \in Gws \cup {None} : KernelRoute(k, g)
              \/ \E g \in Gws, m \in Dsts \cup {None} : KernelNeigh(g, m)
              \/ UNCHANGED vars
       PROVE  ForwardInv'
  <2>1. UNCHANGED <<slot, engine_rt, engine_ct, pc, cur, job>>
    BY <1>10 DEF KernelRoute, KernelNeigh, vars, fppVars, ctVars
  <2> QED BY <1>0, <1>1, <2>1 DEF ForwardInv, EngineHeld
<1>11. ASSUME \/ ProgramLeg("progOrig", "orig") \/ ProgramLeg("progRep", "rep")
              \/ DeregisterLeg("delRep", "rep") \/ DeregisterLeg("delOrig", "orig")
       PROVE  ForwardInv'
  BY <1>3, <1>5, <1>11 DEF Legs, Deregistering
<1> QED BY <1>2, <1>4, <1>6, <1>8, <1>9, <1>10, <1>11, ProgramCtForwards
        DEF Next, HandlerStep, Environment

(* Make before break, for every instance: if the engine refuses to drop a   *)
(* route it uses, or if it never refuses an update or a removal of a        *)
(* connection, then between any two commands each leg it forwards has its   *)
(* route.  Routes may fail to be added or removed either way.               *)
THEOREM MakeBeforeBreak ==
  EngineChecksLinks \/ CommandsReliable => (Spec => []EngineRoutesExist)
<1> SUFFICES ASSUME EngineChecksLinks \/ CommandsReliable
             PROVE  Spec => []EngineRoutesExist
  OBVIOUS
<1>1. Init => ForwardInv
  BY DEF Init, ForwardInv, EngineRoutesExist, EngineHeld, Deregistering
<1>2. OffloadInv /\ OffloadInv' /\ ForwardInv /\ [Next]_vars => ForwardInv'
  BY StepForwards
<1>3. ForwardInv => EngineRoutesExist
  BY DEF ForwardInv
<1> QED BY <1>1, <1>2, <1>3, OffloadCorrect, PTL DEF Spec
=============================================================================
