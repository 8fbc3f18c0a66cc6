--------------------------- MODULE OffloadCacheProofs ---------------------------
(***************************************************************************)
(* Proofs about Offload for any number of connections, flows, gateways,     *)
(* next hops and identifiers.                                               *)
(***************************************************************************)
EXTENDS Offload, FppRoutesProofs, SequenceTheorems

(* The places that hold pointers.                                           *)
LEMMA SlotFacts ==
  /\ \A c \in Cts, l \in Legs : <<c, l>> \in Slots /\ <<c, l>> # Local
  /\ \A x \in CtLegs : x \in Slots /\ x # Local
  /\ Local \in Slots
  /\ IsFiniteSet(Slots)
BY SlotsAre, SlotsFinite DEF CtLegs

(* The slots that point to a route can be counted.                          *)
LEMMA RouteHoldersFinite ==
  ASSUME NEW r
  PROVE  /\ IsFiniteSet(RouteHolders(r))
         /\ Cardinality(RouteHolders(r)) \in Nat
         /\ Cardinality(RouteHolders(r)) = 0 <=> RouteHolders(r) = {}
<1>1. RouteHolders(r) \in SUBSET Slots
  BY DEF RouteHolders
<1> QED BY <1>1, SlotsFinite, FS_Subset, FS_CardinalityType, FS_EmptySet

(* The routes through a neighbour can be counted.                           *)
LEMMA NeighHoldersFinite ==
  ASSUME NEW g
  PROVE  /\ IsFiniteSet(NeighHolders(g))
         /\ Cardinality(NeighHolders(g)) \in Nat
<1>1. NeighHolders(g) \in SUBSET Rts
  BY DEF NeighHolders
<1> QED BY <1>1, RtsFinite, FS_Subset, FS_CardinalityType

(* A route some slot points to is in use: it is counted and has a gateway.  *)
LEMMA HeldRoute ==
  ASSUME CacheTypeOK, RouteCounts, RouteShape, NEW s \in Slots, route[s] # None
  PROVE  /\ route[s] \in Rts
         /\ rt[route[s]] \in RtEntries
         /\ rt[route[s]].count \in Nat \ {0}
         /\ rt[route[s]].key \in Keys
         /\ rt[route[s]].gw \in Gws
         /\ rt[route[s]].neigh \in {None, rt[route[s]].gw}
<1> DEFINE r == route[s]
<1>1. r \in Rts /\ rt[r] \in RtEntries
  BY DEF CacheTypeOK
<1>2. s \in RouteHolders(r)
  BY DEF RouteHolders
<1>3. Cardinality(RouteHolders(r)) \in Nat \ {0}
  BY <1>2, RouteHoldersFinite
<1>4. rt[r].count = Cardinality(RouteHolders(r)) /\ rt[r].key # None
  BY <1>1, <1>3 DEF RouteCounts
<1>5. rt[r].gw # None /\ rt[r].neigh \in {None, rt[r].gw}
  BY <1>1, <1>4 DEF RouteShape
<1> QED BY <1>1, <1>3, <1>4, <1>5 DEF RtEntries

(* The last holder of a route is the only one.                              *)
LEMMA LastRouteHolder ==
  ASSUME CacheTypeOK, RouteCounts, NEW s \in Slots, route[s] \in Rts,
         rt[route[s]].count = 1
  PROVE  \A t \in Slots : route[t] = route[s] => t = s
<1>1. Cardinality(RouteHolders(route[s])) = 1
  BY DEF RouteCounts
<1>2. PICK x : RouteHolders(route[s]) = {x}
  BY <1>1, RouteHoldersFinite, FS_Singleton
<1> QED BY <1>2 DEF RouteHolders

(* The two caches are consistent.                                           *)
CacheInv == CacheTypeOK /\ RouteShape /\ RouteCounts /\ NeighCounts

(* __cmmNeighPut gives back one reference.                                  *)
LEMMA NeighPutGives ==
  ASSUME nb \in [Gws -> NeighEntries], NEW g \in Gws, nb[g].count # 0
  PROVE  /\ NeighPut(g) \in [Gws -> NeighEntries]
         /\ NeighPut(g)[g].count = nb[g].count - 1
         /\ NeighPut(g)[g].count > 0 => NeighPut(g)[g].here = nb[g].here
         /\ \A h \in Gws : h # g => NeighPut(g)[h] = nb[h]
<1>1. nb[g] \in NeighEntries
  OBVIOUS
<1>2. nb[g].count \in Nat
  BY <1>1 DEF NeighEntries
<1>3. CASE nb[g].count <= 1
  BY <1>2, <1>3 DEF NeighPut, NoNeigh, NeighEntries
<1>4. CASE ~ (nb[g].count <= 1)
  <2>1. [nb[g] EXCEPT !.count = @ - 1] \in NeighEntries
    BY <1>1, <1>2, <1>4 DEF NeighEntries
  <2>2. NeighPut(g) = [nb EXCEPT ![g] = [nb[g] EXCEPT !.count = @ - 1]]
    BY <1>4 DEF NeighPut
  <2>3. /\ [nb[g] EXCEPT !.count = @ - 1].count = nb[g].count - 1
        /\ [nb[g] EXCEPT !.count = @ - 1].here = nb[g].here
    BY <1>1 DEF NeighEntries
  <2> QED BY <2>1, <2>2, <2>3
<1> QED BY <1>3, <1>4

(* ____cmmRouteDeregister keeps the caches consistent.                      *)
LEMMA RouteDeregisterKeeps ==
  ASSUME CacheInv, NEW s \in Slots, RouteDeregister(s),
         \A g \in Gws : JobRef(g)' = JobRef(g)
  PROVE  CacheInv'
<1>r. PICK r : r = route[s]
  OBVIOUS
<1>e. PICK e : e = rt[r]
  OBVIOUS
<1> DEFINE last == e.count <= 1
           new == IF last THEN FreeRt ELSE Fewer(e)
<1>0. /\ CacheTypeOK /\ RouteShape /\ RouteCounts /\ NeighCounts
      /\ route' = [route EXCEPT ![s] = None]
  BY DEF CacheInv, RouteDeregister
<1>1. CASE r = None
  <2>1. UNCHANGED <<route, rt, nb>>
    BY <1>r, <1>0, <1>1 DEF RouteDeregister, CacheTypeOK
  <2>2. \A x : RouteHolders(x)' = RouteHolders(x) /\ NeighHolders(x)' = NeighHolders(x)
    BY <2>1 DEF RouteHolders, NeighHolders
  <2>3. CacheTypeOK' /\ RouteShape'
    BY <1>0, <2>1 DEF CacheTypeOK, RouteShape
  <2>4. RouteCounts'
    BY <1>0, <2>1, <2>2 DEF RouteCounts
  <2>5. NeighCounts'
    BY <1>0, <2>1, <2>2 DEF NeighCounts
  <2> QED BY <2>3, <2>4, <2>5 DEF CacheInv
<1>2. CASE r # None
  <2>1. /\ r \in Rts /\ e \in RtEntries /\ e.count \in Nat \ {0}
        /\ e.key \in Keys /\ e.gw \in Gws /\ e.neigh \in {None, e.gw}
    BY <1>r, <1>e, <1>0, <1>2, HeldRoute
  <2>2. /\ rt' = [rt EXCEPT ![r] = new]
        /\ nb' = IF last /\ e.neigh # None THEN NeighPut(e.neigh) ELSE nb
    BY <1>r, <1>e, <1>2, <2>1 DEF RouteDeregister
  <2>3. /\ new \in RtEntries
        /\ new.count = e.count - 1
        /\ IF last THEN new = FreeRt
           ELSE new.key = e.key /\ new.gw = e.gw /\ new.neigh = e.neigh
    BY <2>1 DEF FreeRt, Fewer, RtEntries
  <2> HIDE DEF new
  <2>4. \A x \in Rts : rt'[x] = IF x = r THEN new ELSE rt[x]
    BY <1>0, <2>1, <2>2 DEF CacheTypeOK
  <2>5. last => \A t \in Slots : route[t] = r => t = s
    BY <1>r, <1>e, <1>0, <2>1, LastRouteHolder
  <2>6. RouteShape'
    <3>1. FreeRt.key = None
      BY DEF FreeRt
    <3>2. IF new.key = None THEN new = FreeRt
          ELSE new.gw # None /\ new.neigh \in {None, new.gw}
      BY <2>1, <2>3, <3>1, NoneIsNone
    <3> QED BY <1>0, <2>4, <3>2 DEF RouteShape
  <2>7. RouteCounts'
    <3>1. /\ RouteHolders(r)' = RouteHolders(r) \ {s}
          /\ s \in RouteHolders(r)
      BY <1>r, <1>0, <1>2, <2>1 DEF RouteHolders, CacheTypeOK
    <3>2. Cardinality(RouteHolders(r)') = Cardinality(RouteHolders(r)) - 1
      BY <3>1, RouteHoldersFinite, FS_RemoveElement
    <3>3. \A x \in Rts : x # r => RouteHolders(x)' = RouteHolders(x)
      BY <1>r, <1>0, <1>2, <2>1, NoneIsNone DEF RouteHolders, CacheTypeOK
    <3>4. new.count > 0 <=> new.key # None
      BY <2>1, <2>3, NoneIsNone DEF FreeRt
    <3>5. \A x \in Rts : /\ rt[x].count = Cardinality(RouteHolders(x))
                         /\ rt[x].count > 0 <=> rt[x].key # None
      BY <1>0 DEF RouteCounts
    <3>6. /\ rt'[r].count = Cardinality(RouteHolders(r)')
          /\ rt'[r].count > 0 <=> rt'[r].key # None
      BY <1>e, <2>1, <2>3, <2>4, <3>2, <3>4, <3>5
    <3>7. \A x \in Rts : x # r =>
             /\ rt'[x].count = Cardinality(RouteHolders(x)')
             /\ rt'[x].count > 0 <=> rt'[x].key # None
      BY <2>4, <3>3, <3>5
    <3> QED BY <2>1, <3>6, <3>7 DEF RouteCounts
  <2>8. rt' \in [Rts -> RtEntries] /\ route' \in [Slots -> Rts \cup {None}]
    BY <1>0, <2>2, <2>3 DEF CacheTypeOK
  <2>9. CASE last /\ e.neigh # None
    <3>g. PICK g : g = e.neigh
      OBVIOUS
    <3>1. g \in Gws /\ nb' = NeighPut(g)
      BY <3>g, <2>1, <2>2, <2>9
    <3>2. /\ NeighHolders(g)' = NeighHolders(g) \ {r}
          /\ r \in NeighHolders(g)
          /\ \A h \in Gws : h # g => NeighHolders(h)' = NeighHolders(h)
      <4>1. \A x \in Rts : rt'[x].neigh = IF x = r THEN None ELSE rt[x].neigh
        BY <2>3, <2>4, <2>9 DEF FreeRt
      <4>2. rt[r].neigh = g /\ g # None /\ None \notin Gws
        BY <1>e, <3>g, <2>9, NoneIsNone
      <4>3. NeighHolders(g)' = NeighHolders(g) \ {r}
        BY <4>1, <4>2 DEF NeighHolders
      <4>4. r \in NeighHolders(g)
        BY <2>1, <4>2 DEF NeighHolders
      <4>5. \A h \in Gws : h # g => NeighHolders(h)' = NeighHolders(h)
        BY <4>1, <4>2 DEF NeighHolders
      <4> QED BY <4>3, <4>4, <4>5
    <3>3. /\ Cardinality(NeighHolders(g)') = Cardinality(NeighHolders(g)) - 1
          /\ Cardinality(NeighHolders(g)) # 0
      BY <3>2, NeighHoldersFinite, FS_RemoveElement, FS_EmptySet
    <3>4. /\ nb \in [Gws -> NeighEntries]
          /\ \A h \in Gws : nb[h].count = Cardinality(NeighHolders(h)) + JobRef(h)
          /\ \A h \in Gws : nb[h].count > 0 => nb[h].here
          /\ \A h \in Gws : JobRef(h) \in {0, 1}
      BY <1>0 DEF CacheTypeOK, NeighCounts, JobRef
    <3>5. nb[g].count # 0 /\ nb[g].count > 0
      BY <3>1, <3>3, <3>4, NeighHoldersFinite
    <3>6. /\ nb' \in [Gws -> NeighEntries]
          /\ nb'[g].count = nb[g].count - 1
          /\ nb'[g].count > 0 => nb'[g].here = nb[g].here
          /\ \A h \in Gws : h # g => nb'[h] = nb[h]
      BY <3>1, <3>4, <3>5, NeighPutGives
    <3>7. NeighCounts'
      <4>1. Cardinality(NeighHolders(g)) \in Nat
        BY NeighHoldersFinite
      <4>2. /\ nb'[g].count = Cardinality(NeighHolders(g)') + JobRef(g)'
            /\ nb'[g].count > 0 => nb'[g].here
        BY <3>1, <3>3, <3>4, <3>5, <3>6, <4>1
      <4>3. \A h \in Gws : h # g =>
               /\ nb'[h].count = Cardinality(NeighHolders(h)') + JobRef(h)'
               /\ nb'[h].count > 0 => nb'[h].here
        BY <3>2, <3>4, <3>6
      <4> QED BY <3>1, <4>2, <4>3 DEF NeighCounts
    <3>8. CacheTypeOK'
      BY <2>8, <3>6 DEF CacheTypeOK
    <3> QED BY <2>6, <2>7, <3>7, <3>8 DEF CacheInv
  <2>10. CASE ~ (last /\ e.neigh # None)
    <3>1. UNCHANGED nb
      BY <2>2, <2>10
    <3>2. \A x \in Rts : rt'[x].neigh = rt[x].neigh
      BY <1>e, <2>1, <2>3, <2>4, <2>10 DEF FreeRt
    <3>3. \A h : NeighHolders(h)' = NeighHolders(h)
      BY <3>2 DEF NeighHolders
    <3>4. NeighCounts'
      BY <1>0, <3>1, <3>3 DEF NeighCounts
    <3>5. CacheTypeOK'
      BY <1>0, <2>8, <3>1 DEF CacheTypeOK
    <3> QED BY <2>6, <2>7, <3>4, <3>5 DEF CacheInv
  <2> QED BY <2>9, <2>10
<1> QED BY <1>1, <1>2

(* __cmmNeighGet takes one reference, whatever else it loads.               *)
LEMMA NeighGetTakes ==
  ASSUME nb \in [Gws -> NeighEntries], kmac \in [Gws -> Dsts \cup {None}],
         NEW g \in Gws, \A h \in Gws : nb[h].count > 0 => nb[h].here
  PROVE  /\ NeighGet(g) \in [Gws -> NeighEntries]
         /\ NeighGet(g)[g].count = nb[g].count + 1
         /\ NeighGet(g)[g].here
         /\ \A h \in Gws : h # g =>
              /\ NeighGet(g)[h].count = nb[h].count
              /\ NeighGet(g)[h].count > 0 => NeighGet(g)[h].here
<1>1. \A h \in Gws : nb[h] \in NeighEntries /\ nb[h].count \in Nat
  BY DEF NeighEntries
<1>2. CASE nb[g].here
  <2>1. [nb[g] EXCEPT !.count = @ + 1] \in NeighEntries
    BY <1>1 DEF NeighEntries
  <2>2. NeighGet(g) = [nb EXCEPT ![g] = [nb[g] EXCEPT !.count = @ + 1]]
    BY <1>2 DEF NeighGet
  <2>3. /\ [nb[g] EXCEPT !.count = @ + 1].count = nb[g].count + 1
        /\ [nb[g] EXCEPT !.count = @ + 1].here = nb[g].here
    BY <1>1 DEF NeighEntries
  <2> QED BY <1>1, <1>2, <2>1, <2>2, <2>3
<1>3. CASE ~ nb[g].here
  <2> DEFINE got == [here |-> TRUE, mac |-> kmac[g], count |-> 1]
             seen(h) == [here |-> TRUE, mac |-> kmac[h], count |-> 0]
  <2>1. got \in NeighEntries /\ got.count = 1 /\ got.here
    BY DEF NeighEntries
  <2>2. \A h \in Gws : seen(h) \in NeighEntries /\ seen(h).count = 0 /\ seen(h).here
    BY DEF NeighEntries
  <2>3. NeighGet(g) = [h \in Gws |-> IF h = g THEN got
                                     ELSE IF ~ nb[h].here /\ kmac[h] # None
                                          THEN seen(h) ELSE nb[h]]
    BY <1>3 DEF NeighGet
  <2>4. \A h \in Gws : ~ nb[h].here => nb[h].count = 0
    BY <1>1
  <2> HIDE DEF got, seen
  <2> QED BY <1>1, <1>3, <2>1, <2>2, <2>3, <2>4
<1> QED BY <1>2, <1>3

(* What __cmmRouteGet hands out: the route the leg has, or one that gains a *)
(* reference.                                                               *)
LEMMA RouteGetCases ==
  ASSUME CacheInv, KernelTypeOK, NEW x \in CtLegs, NEW p \in RouteGet(x)
  PROVE  \E r \in Rts, e \in RtEntries :
           /\ p[1] = r /\ p[2] = e
           /\ e.key \in Keys /\ e.gw \in Gws /\ e.neigh \in {None, e.gw}
           /\ e.neigh = rt[r].neigh
           /\ \/ route[x] = r /\ e.count = rt[r].count
              \/ route[x] = None /\ e.count = rt[r].count + 1
<1> USE DEF CacheInv
<1>0. x \in Slots /\ KeyOf[x] \in Keys /\ None \notin Keys /\ None \notin Gws
  BY SlotFacts, KeyOfType, NoneIsNone
<1>1. CASE route[x] # None
  <2>1. p = <<route[x], rt[route[x]]>>
    BY <1>1 DEF RouteGet
  <2> QED BY <1>0, <1>1, <2>1, HeldRoute
<1>2. CASE route[x] = None /\ RouteFind(KeyOf[x]) # {}
  <2>1. PICK r \in RouteFind(KeyOf[x]) : p = <<r, [rt[r] EXCEPT !.count = @ + 1]>>
    BY <1>2 DEF RouteGet
  <2>2. r \in Rts /\ rt[r].key = KeyOf[x] /\ rt[r] \in RtEntries
    BY DEF RouteFind, CacheTypeOK
  <2>3. rt[r].gw # None /\ rt[r].neigh \in {None, rt[r].gw}
    BY <1>0, <2>2 DEF RouteShape
  <2>4. PICK e : e = [rt[r] EXCEPT !.count = @ + 1]
    OBVIOUS
  <2>5. /\ e \in RtEntries /\ e.count = rt[r].count + 1 /\ e.key = rt[r].key
        /\ e.gw = rt[r].gw /\ e.neigh = rt[r].neigh /\ e.gw \in Gws
    BY <2>2, <2>3, <2>4 DEF RtEntries
  <2>6. p[1] = r /\ p[2] = e
    BY <2>1, <2>4
  <2> QED BY <1>0, <1>2, <2>2, <2>3, <2>5, <2>6
<1>3. CASE route[x] = None /\ RouteFind(KeyOf[x]) = {}
  <2> DEFINE fresh == [key |-> KeyOf[x], gw |-> kroute[KeyOf[x]], neigh |-> None,
                       count |-> 1, inv |-> FALSE]
  <2>1. kroute[KeyOf[x]] # None
    BY <1>3 DEF RouteGet
  <2>2. PICK r \in {f \in Rts : rt[f].key = None} : p = <<r, fresh>>
    BY <1>3, <2>1 DEF RouteGet
  <2>3. rt[r] = FreeRt /\ r \in Rts
    BY DEF RouteShape
  <2>4. rt[r].count = 0 /\ rt[r].neigh = None
    BY <2>3 DEF FreeRt
  <2>5. /\ fresh \in RtEntries /\ fresh.key \in Keys /\ fresh.gw \in Gws
        /\ fresh.neigh = None /\ fresh.count = 1
    BY <1>0, <2>1 DEF RtEntries, KernelTypeOK
  <2>6. p[1] = r /\ p[2] = fresh
    BY <2>2
  <2> QED BY <1>3, <2>3, <2>4, <2>5, <2>6
<1> QED BY <1>1, <1>2, <1>3

(* __cmmRouteRegister keeps the caches consistent and finds the next hop.   *)
LEMMA LegKeepsCaches ==
  ASSUME CacheInv, KernelTypeOK, NEW x \in CtLegs, NEW p \in RouteGet(x),
         route' = [route EXCEPT ![x] = p[1]],
         rt' = [rt EXCEPT ![p[1]] = [p[2] EXCEPT !.neigh = p[2].gw]],
         nb' = IF p[2].neigh = None THEN NeighGet(p[2].gw) ELSE nb,
         \A g \in Gws : JobRef(g)' = JobRef(g)
  PROVE  /\ CacheInv'
         /\ p[2].gw \in Gws
         /\ nb'[p[2].gw].mac \in Dsts \cup {None}
<1>1. PICK r \in Rts, e \in RtEntries :
           /\ p[1] = r /\ p[2] = e
           /\ e.key \in Keys /\ e.gw \in Gws /\ e.neigh \in {None, e.gw}
           /\ e.neigh = rt[r].neigh
           /\ \/ route[x] = r /\ e.count = rt[r].count
              \/ route[x] = None /\ e.count = rt[r].count + 1
  BY RouteGetCases
<1>2. /\ CacheTypeOK /\ RouteShape /\ RouteCounts /\ NeighCounts
      /\ x \in Slots /\ None \notin Gws /\ None \notin Rts /\ None \notin Keys
  BY SlotFacts, NoneIsNone DEF CacheInv
<1>3. PICK n : n = [e EXCEPT !.neigh = e.gw]
  OBVIOUS
<1>4. /\ n \in RtEntries /\ n.key = e.key /\ n.gw = e.gw /\ n.neigh = e.gw
      /\ n.count = e.count
  BY <1>1, <1>3 DEF RtEntries
<1>5. /\ route' = [route EXCEPT ![x] = r]
      /\ rt' = [rt EXCEPT ![r] = n]
      /\ nb' = IF e.neigh = None THEN NeighGet(e.gw) ELSE nb
  BY <1>1, <1>3
<1>6. \A y \in Rts : rt'[y] = IF y = r THEN n ELSE rt[y]
  BY <1>2, <1>5 DEF CacheTypeOK
<1>7. rt' \in [Rts -> RtEntries] /\ route' \in [Slots -> Rts \cup {None}]
  BY <1>1, <1>2, <1>4, <1>5 DEF CacheTypeOK
<1>8. RouteShape'
  <2>1. n.key # None /\ n.gw # None /\ n.neigh \in {None, n.gw}
    BY <1>1, <1>2, <1>4
  <2> QED BY <1>2, <1>6, <2>1 DEF RouteShape
<1>9. RouteCounts'
  <2>1. \A y \in Rts : /\ rt[y].count = Cardinality(RouteHolders(y))
                       /\ rt[y].count > 0 <=> rt[y].key # None
    BY <1>2 DEF RouteCounts
  <2>2. CASE route[x] = r /\ e.count = rt[r].count
    <3>1. route' = route
      BY <1>2, <1>5, <2>2 DEF CacheTypeOK
    <3>2. \A y : RouteHolders(y)' = RouteHolders(y)
      BY <3>1 DEF RouteHolders
    <3>3. e.count > 0
      BY <1>1, <1>2, <2>2, HeldRoute
    <3>4. \A y \in Rts : /\ rt'[y].count = rt[y].count
                         /\ rt'[y].count > 0 <=> rt'[y].key # None
      BY <1>1, <1>2, <1>4, <1>6, <2>1, <2>2, <3>3
    <3> QED BY <2>1, <3>2, <3>4 DEF RouteCounts
  <2>3. CASE route[x] = None /\ e.count = rt[r].count + 1
    <3>1. /\ RouteHolders(r)' = RouteHolders(r) \cup {x}
          /\ x \notin RouteHolders(r)
          /\ \A y \in Rts : y # r => RouteHolders(y)' = RouteHolders(y)
      BY <1>1, <1>2, <1>5, <2>3 DEF RouteHolders, CacheTypeOK
    <3>2. Cardinality(RouteHolders(r) \cup {x}) = Cardinality(RouteHolders(r)) + 1
      BY <3>1, RouteHoldersFinite, FS_AddElement
    <3>3. Cardinality(RouteHolders(r)') = rt[r].count + 1
      BY <1>1, <2>1, <3>1, <3>2
    <3>4. e.count > 0
      BY <1>1, <2>1, <2>3, RouteHoldersFinite
    <3>5. /\ rt'[r].count = Cardinality(RouteHolders(r)')
          /\ rt'[r].count > 0 <=> rt'[r].key # None
      BY <1>1, <1>2, <1>4, <1>6, <2>3, <3>3, <3>4
    <3>6. \A y \in Rts : y # r => /\ rt'[y].count = Cardinality(RouteHolders(y)')
                                  /\ rt'[y].count > 0 <=> rt'[y].key # None
      BY <1>6, <2>1, <3>1
    <3> QED BY <3>5, <3>6 DEF RouteCounts
  <2> QED BY <1>1, <2>2, <2>3
<1>10. /\ nb \in [Gws -> NeighEntries] /\ kmac \in [Gws -> Dsts \cup {None}]
       /\ \A h \in Gws : nb[h].count = Cardinality(NeighHolders(h)) + JobRef(h)
       /\ \A h \in Gws : nb[h].count > 0 => nb[h].here
       /\ \A h \in Gws : JobRef(h) \in {0, 1}
  BY <1>2 DEF CacheTypeOK, NeighCounts, JobRef, KernelTypeOK
<1>11. PICK g \in Gws : g = e.gw
  BY <1>1
<1>12. NeighCounts' /\ nb' \in [Gws -> NeighEntries]
  <2>1. CASE e.neigh = None
    <3>1. nb' = NeighGet(g)
      BY <1>5, <1>11, <2>1
    <3>2. /\ nb' \in [Gws -> NeighEntries]
          /\ nb'[g].count = nb[g].count + 1
          /\ nb'[g].here
          /\ \A h \in Gws : h # g => /\ nb'[h].count = nb[h].count
                                     /\ nb'[h].count > 0 => nb'[h].here
      BY <1>10, <3>1, NeighGetTakes
    <3>3. /\ NeighHolders(g)' = NeighHolders(g) \cup {r}
          /\ r \notin NeighHolders(g)
          /\ \A h \in Gws : h # g => NeighHolders(h)' = NeighHolders(h)
      <4>1. rt[r].neigh = None /\ n.neigh = g /\ g # None /\ r \in Rts
        BY <1>1, <1>2, <1>4, <1>11, <2>1
      <4>2. NeighHolders(g)' = NeighHolders(g) \cup {r}
        BY <1>6, <4>1 DEF NeighHolders
      <4>3. r \notin NeighHolders(g)
        BY <4>1 DEF NeighHolders
      <4>4. \A h \in Gws : h # g => NeighHolders(h)' = NeighHolders(h)
        BY <1>2, <1>6, <4>1 DEF NeighHolders
      <4> QED BY <4>2, <4>3, <4>4
    <3>4. Cardinality(NeighHolders(g) \cup {r}) = Cardinality(NeighHolders(g)) + 1
      BY <3>3, NeighHoldersFinite, FS_AddElement
    <3>5. Cardinality(NeighHolders(g)) \in Nat
      BY NeighHoldersFinite
    <3>6. /\ nb'[g].count = Cardinality(NeighHolders(g)') + JobRef(g)'
          /\ nb'[g].count > 0 => nb'[g].here
      BY <1>10, <3>2, <3>3, <3>4, <3>5
    <3>7. \A h \in Gws : h # g =>
             /\ nb'[h].count = Cardinality(NeighHolders(h)') + JobRef(h)'
             /\ nb'[h].count > 0 => nb'[h].here
      BY <1>10, <3>2, <3>3
    <3> QED BY <3>2, <3>6, <3>7 DEF NeighCounts
  <2>2. CASE e.neigh # None
    <3>1. UNCHANGED nb
      BY <1>5, <2>2
    <3>2. \A y \in Rts : rt'[y].neigh = rt[y].neigh
      BY <1>1, <1>4, <1>6, <2>2
    <3>3. \A h : NeighHolders(h)' = NeighHolders(h)
      BY <3>2 DEF NeighHolders
    <3> QED BY <1>10, <3>1, <3>3 DEF NeighCounts
  <2> QED BY <2>1, <2>2
<1>13. nb'[g].mac \in Dsts \cup {None}
  BY <1>12 DEF NeighEntries
<1> QED BY <1>1, <1>7, <1>8, <1>9, <1>11, <1>12, <1>13 DEF CacheInv, CacheTypeOK

----------------------------------------------------------------------------
(* Every step of Offload uses the fast-path routes the way FppRoutes allows. *)

(* The fpp_rt half of __cmmRouteDeregister is a step of FppRoutes, or none. *)
LEMMA HalfIsStep ==
  ASSUME FppInv, NEW s \in Slots, FppHalf(s)
  PROVE  [FppNext]_fppVars
<1>1. CASE slot[s] = 0
  BY <1>1 DEF FppHalf
<1>2. CASE slot[s] # 0
  <2>1. PICK ok \in RemoveOutcome(slot[s]) : FPPRouteDeregister(s, ok)
    BY <1>2 DEF FppHalf
  <2>2. ok \in BOOLEAN
    BY DEF RemoveOutcome, Outcome
  <2> QED BY <2>1, <2>2 DEF FppNext
<1> QED BY <1>1, <1>2

(* The handler's current leg is one of the slots.                           *)
LEMMA CurLeg ==
  ASSUME TypeOK, HandlerShape, pc \in Registering \cup Deregistering, NEW l \in Legs
  PROVE  /\ cur \in Cts
         /\ <<cur, l>> \in CtLegs
         /\ <<cur, l>> \in Slots
         /\ <<cur, l>> # Local
<1>1. cur \in Cts
  BY DEF TypeOK, HandlerTypeOK, HandlerShape
<1> QED BY <1>1, SlotFacts DEF CtLegs

(* What a leg does in ____cmmCtRegister.                                    *)
LEMMA RegisterLegCases ==
  ASSUME OffloadInv, NEW l \in Legs, RegisterLeg(l)
  PROVE  LET x == <<cur, l>>
         IN  /\ cur \in Cts /\ x \in CtLegs /\ x \in Slots /\ x # Local
             /\ pc = l /\ pc' = NextPc[l]
             /\ UNCHANGED <<ctVars, kernelVars, cur, job>>
             /\ CacheInv'
             /\ route'[Local] = route[Local]
             /\ \/ UNCHANGED fppVars /\ dir' = dir \ {l}
                \/ UNCHANGED fppVars /\ dir' = dir /\ slot[x] # 0
                \/ /\ slot[x] = 0 /\ dir' = dir
                   /\ \E m \in Dsts : FPPRouteGet(x, m)
<1>1. /\ TypeOK /\ HandlerShape /\ CacheInv /\ KernelTypeOK
      /\ pc = l /\ pc' = NextPc[l] /\ UNCHANGED <<ctVars, kernelVars, cur, job>>
      /\ \A g \in Gws : JobRef(g)' = JobRef(g)
  BY DEF OffloadInv, CacheInv, TypeOK, RegisterLeg, JobRef
<1>2. PICK x : x = <<cur, l>>
  OBVIOUS
<1>3. cur \in Cts /\ x \in CtLegs /\ x \in Slots /\ x # Local
  BY <1>1, <1>2, CurLeg DEF Registering, Legs
<1>4. CASE /\ dir' = dir \ {l}
           /\ UNCHANGED <<fppVars, cacheVars>>
  <2>1. CacheInv'
    BY <1>1, <1>4 DEF CacheInv, cacheVars, CacheTypeOK, RouteShape, RouteCounts,
         RouteHolders, NeighCounts, NeighHolders
  <2> QED BY <1>1, <1>2, <1>3, <1>4, <2>1 DEF cacheVars
<1>5. ASSUME NEW p \in RouteGet(x), LegTakes(x, l, p)
      PROVE  /\ CacheInv'
             /\ route'[Local] = route[Local]
             /\ \/ UNCHANGED fppVars /\ dir' = dir \ {l}
                \/ UNCHANGED fppVars /\ dir' = dir /\ slot[x] # 0
                \/ /\ slot[x] = 0 /\ dir' = dir
                   /\ \E m \in Dsts : FPPRouteGet(x, m)
  <2>1. /\ CacheInv'
        /\ nb'[p[2].gw].mac \in Dsts \cup {None}
    BY <1>1, <1>3, <1>5, LegKeepsCaches DEF LegTakes
  <2>2. route'[Local] = route[Local]
    BY <1>1, <1>3, <1>5, SlotFacts DEF CacheInv, CacheTypeOK, LegTakes
  <2> QED BY <1>5, <2>1, <2>2 DEF LegTakes
<1>6. \/ l \notin dir /\ UNCHANGED <<fppVars, cacheVars, dir>>
      \/ dir' = dir \ {l} /\ UNCHANGED <<fppVars, cacheVars>>
      \/ \E p \in RouteGet(x) : LegTakes(x, l, p)
  BY <1>2 DEF RegisterLeg
<1>7. l \notin dir /\ dir' = dir => dir' = dir \ {l}
  BY <1>1 DEF TypeOK, HandlerTypeOK
<1>8. CASE \/ l \notin dir /\ UNCHANGED <<fppVars, cacheVars, dir>>
           \/ dir' = dir \ {l} /\ UNCHANGED <<fppVars, cacheVars>>
  BY <1>4, <1>7, <1>8
<1>9. CASE \E p \in RouteGet(x) : LegTakes(x, l, p)
  <2>1. /\ CacheInv'
        /\ route'[Local] = route[Local]
        /\ \/ UNCHANGED fppVars /\ dir' = dir \ {l}
           \/ UNCHANGED fppVars /\ dir' = dir /\ slot[x] # 0
           \/ /\ slot[x] = 0 /\ dir' = dir
              /\ \E m \in Dsts : FPPRouteGet(x, m)
    BY <1>5, <1>9
  <2> QED BY <1>1, <1>2, <1>3, <2>1
<1> QED BY <1>6, <1>8, <1>9

(* Programming a leg is a step of FppRoutes: the leg holds a route.         *)
LEMMA ProgramLegCases ==
  ASSUME OffloadInv, NEW l \in Legs, NEW at \in {"progOrig", "progRep"},
         l = (IF at = "progOrig" THEN "orig" ELSE "rep"), ProgramLeg(at, l)
  PROVE  /\ cur \in Cts
         /\ <<cur, l>> \in CtLegs /\ <<cur, l>> \in Slots /\ <<cur, l>> # Local
         /\ \/ l \notin dir /\ UNCHANGED <<fppVars, dir>>
            \/ /\ l \in dir
               /\ slot[<<cur, l>>] # 0
               /\ \E ok \in BOOLEAN : FeRouteAdd(slot[<<cur, l>>], ok)
               /\ dir' = IF fpp_rt_table'[slot[<<cur, l>>]].prog THEN dir
                         ELSE dir \ {l}
<1>1. pc = at /\ pc \in Registering /\ TypeOK /\ HandlerShape /\ LegsReady
  BY DEF ProgramLeg, Registering, OffloadInv
<1>2. cur \in Cts /\ <<cur, l>> \in CtLegs /\ <<cur, l>> \in Slots /\ <<cur, l>> # Local
  BY <1>1, CurLeg
<1>3. l \in Acquired
  BY <1>1 DEF Acquired, Legs
<1>4. l \in dir => slot[<<cur, l>>] # 0
  BY <1>1, <1>3 DEF LegsReady
<1>5. Outcome("rtAdd") \subseteq BOOLEAN
  BY DEF Outcome
<1> QED BY <1>2, <1>4, <1>5 DEF ProgramLeg

(* A list walk moves the fast-path route of the leg it stops at.            *)
LEMMA VisitCases ==
  ASSUME OffloadInv, NEW x \in CtLegs, Visit(x)
  PROVE  /\ x \in Slots /\ x # Local /\ Local \in Slots /\ x[1] \in Cts
         /\ pc = "walk" /\ route[Local] = None /\ slot[Local] = 0
         /\ \/ slot[x] = 0 /\ UNCHANGED fppVars
            \/ FPPRouteMove(x, Local)
         /\ \/ UNCHANGED route
            \/ route' = [route EXCEPT ![x] = None, ![Local] = route[x]]
         /\ UNCHANGED <<rt, nb, ctVars, kernelVars>>
         /\ \A g \in Gws : JobRef(g)' = JobRef(g)
<1>1. TypeOK /\ HandlerShape /\ pc = "walk"
  BY DEF OffloadInv, Visit
<1>2. route[Local] = None /\ slot[Local] = 0
  BY <1>1 DEF HandlerShape, Registering
<1>3. x \in Slots /\ x # Local /\ Local \in Slots /\ x[1] \in Cts
  BY SlotFacts DEF CtLegs
<1>4. job' = [job EXCEPT !.todo = @ \ {x}] /\ job \in Jobs
  BY <1>1 DEF Visit, TypeOK, HandlerTypeOK
<1>5. job'.kind = job.kind /\ job'.neigh = job.neigh
  BY <1>4 DEF Jobs
<1>6. \A g \in Gws : JobRef(g)' = JobRef(g)
  BY <1>5 DEF JobRef
<1>7. /\ \/ slot[x] = 0 /\ UNCHANGED fppVars
         \/ FPPRouteMove(x, Local)
      /\ \/ UNCHANGED route
         \/ route' = [route EXCEPT ![x] = None, ![Local] = route[x]]
      /\ UNCHANGED <<rt, nb, ctVars, kernelVars>>
  BY DEF Visit
<1> QED BY <1>1, <1>2, <1>3, <1>6, <1>7

(* Every step of the conntrack thread and of its environment uses the       *)
(* fast-path routes the way FppRoutes allows: Offload implements FppRoutes. *)
LEMMA StepIsFppStep ==
  ASSUME OffloadInv, [Next]_vars
  PROVE  [FppNext]_fppVars
<1>0. TypeOK /\ FppInv /\ HandlerShape
  BY DEF OffloadInv
<1>1. ASSUME NEW l \in Legs, RegisterLeg(l) PROVE [FppNext]_fppVars
  BY <1>1, RegisterLegCases DEF FppNext
<1>2. ASSUME NEW l \in Legs, NEW at \in {"progOrig", "progRep"},
             l = (IF at = "progOrig" THEN "orig" ELSE "rep"), ProgramLeg(at, l)
      PROVE  [FppNext]_fppVars
  BY <1>2, ProgramLegCases DEF FppNext
<1>3. ASSUME Release PROVE [FppNext]_fppVars
  BY <1>0, <1>3, HalfIsStep, SlotFacts DEF Release
<1>4. ASSUME NEW l \in Legs, NEW at \in Deregistering, DeregisterLeg(at, l)
      PROVE  [FppNext]_fppVars
  BY <1>0, <1>4, HalfIsStep, CurLeg DEF DeregisterLeg
<1>5. ASSUME NEW x \in CtLegs, Visit(x) PROVE [FppNext]_fppVars
  BY <1>5, VisitCases DEF FppNext
<1>6. ASSUME \/ ProgramCt \/ RouteEvent \/ NeighEvent \/ WalkDone
             \/ Environment \/ UNCHANGED vars
      PROVE  UNCHANGED fppVars
  BY <1>6 DEF ProgramCt, RouteEvent, NeighEvent, WalkDone, Environment,
       KernelRoute, KernelNeigh, CtRegister, CtDeregister, FppRemoved, vars
<1>7. ASSUME ProgramLeg("progOrig", "orig") \/ ProgramLeg("progRep", "rep")
      PROVE  [FppNext]_fppVars
  BY <1>2, <1>7 DEF Legs
<1>8. ASSUME DeregisterLeg("delRep", "rep") \/ DeregisterLeg("delOrig", "orig")
      PROVE  [FppNext]_fppVars
  BY <1>4, <1>8 DEF Legs, Deregistering
<1> QED BY <1>1, <1>3, <1>5, <1>6, <1>7, <1>8 DEF Next, HandlerStep

----------------------------------------------------------------------------
(* The caches stay consistent.                                              *)

(* A step that leaves the caches and the handler's reference alone keeps the*)
(* counts.                                                                  *)
LEMMA CachesUntouched ==
  ASSUME CacheInv, UNCHANGED <<route, rt, nb>>, \A g \in Gws : JobRef(g)' = JobRef(g)
  PROVE  CacheInv'
BY DEF CacheInv, CacheTypeOK, RouteShape, RouteCounts, RouteHolders, NeighCounts,
       NeighHolders

(* An invalid route moves to the handler: as many holders as before.        *)
LEMMA VisitKeepsCaches ==
  ASSUME OffloadInv, NEW x \in CtLegs, Visit(x)
  PROVE  CacheInv'
<1>1. /\ x \in Slots /\ x # Local /\ Local \in Slots /\ route[Local] = None
      /\ \/ UNCHANGED route
         \/ route' = [route EXCEPT ![x] = None, ![Local] = route[x]]
      /\ UNCHANGED <<rt, nb>>
      /\ \A g \in Gws : JobRef(g)' = JobRef(g)
  BY VisitCases
<1>2. CacheInv /\ None \notin Rts
  BY NoneIsNone DEF OffloadInv, TypeOK, CacheInv
<1>3. CASE UNCHANGED route
  BY <1>1, <1>2, <1>3, CachesUntouched
<1>4. CASE route' = [route EXCEPT ![x] = None, ![Local] = route[x]]
  <2>1. PICK r : r = route[x]
    OBVIOUS
  <2>2. route \in [Slots -> Rts \cup {None}]
    BY <1>2 DEF CacheInv, CacheTypeOK
  <2>3. route' \in [Slots -> Rts \cup {None}]
    BY <1>1, <1>4, <2>2
  <2>4. \A y \in Rts : Cardinality(RouteHolders(y)') = Cardinality(RouteHolders(y))
    <3> TAKE y \in Rts
    <3>1. CASE y # r
      <4>1. RouteHolders(y)' = RouteHolders(y)
        BY <1>1, <1>2, <1>4, <2>1, <2>2, <3>1 DEF RouteHolders
      <4> QED BY <4>1
    <3>2. CASE y = r
      <4>1. RouteHolders(y)' = (RouteHolders(y) \ {x}) \cup {Local}
        BY <1>1, <1>2, <1>4, <2>1, <2>2, <3>2 DEF RouteHolders
      <4>2. x \in RouteHolders(y) /\ Local \notin RouteHolders(y) \ {x}
        BY <1>1, <1>2, <2>1, <3>2 DEF RouteHolders
      <4>3. /\ IsFiniteSet(RouteHolders(y) \ {x})
            /\ Cardinality(RouteHolders(y) \ {x}) = Cardinality(RouteHolders(y)) - 1
        BY <4>2, RouteHoldersFinite, FS_RemoveElement
      <4>4. Cardinality((RouteHolders(y) \ {x}) \cup {Local}) =
              Cardinality(RouteHolders(y) \ {x}) + 1
        BY <4>2, <4>3, FS_AddElement
      <4> QED BY <4>1, <4>3, <4>4, RouteHoldersFinite
    <3> QED BY <3>1, <3>2
  <2>5. RouteCounts'
    BY <1>1, <1>2, <2>4 DEF CacheInv, RouteCounts
  <2>6. NeighCounts' /\ RouteShape' /\ CacheTypeOK'
    BY <1>1, <1>2, <2>3 DEF CacheInv, NeighCounts, NeighHolders, RouteShape, CacheTypeOK
  <2> QED BY <2>5, <2>6 DEF CacheInv
<1> QED BY <1>1, <1>3, <1>4

(* A route event invalidates a route or gives it another gateway; the       *)
(* reference to the former neighbour passes to the handler.                 *)
LEMMA RouteEventKeepsCaches ==
  ASSUME OffloadInv, RouteEvent
  PROVE  CacheInv'
<1>1. PICK k : k = Head(rq).key
  OBVIOUS
<1>2. /\ CacheInv /\ job = NoJob /\ KernelTypeOK /\ rq # <<>>
      /\ UNCHANGED <<route, nb>>
      /\ None \notin Rts /\ None \notin Gws /\ None \notin Keys
  BY NoneIsNone DEF OffloadInv, TypeOK, CacheInv, HandlerShape, RouteEvent
<1>3. k \in Keys
  <2>1. Head(rq) \in [key : Keys, new : BOOLEAN]
    BY <1>2, HeadTailProperties DEF KernelTypeOK
  <2> QED BY <1>1, <2>1
<1>4. \A g \in Gws : JobRef(g) = 0
  BY <1>2 DEF JobRef, NoJob
<1>5. job'.kind # "route" => \A g \in Gws : JobRef(g)' = 0
  BY DEF JobRef
<1>6. CASE UNCHANGED rt /\ job'.kind = "none"
  BY <1>2, <1>4, <1>5, <1>6, CachesUntouched
<1>7. ASSUME NEW r \in RouteFind(k), rt' = [rt EXCEPT ![r].inv = TRUE],
             job'.neigh = None
      PROVE  CacheInv'
  <2>1. \A g \in Gws : JobRef(g)' = JobRef(g)
    BY <1>2, <1>4, <1>7 DEF JobRef
  <2>2. r \in Rts /\ rt[r] \in RtEntries /\ rt[r].key = k
    BY <1>2 DEF RouteFind, CacheInv, CacheTypeOK
  <2>3. PICK n : n = [rt[r] EXCEPT !.inv = TRUE]
    OBVIOUS
  <2>4. /\ n \in RtEntries /\ n.key = k /\ n.gw = rt[r].gw
        /\ n.neigh = rt[r].neigh /\ n.count = rt[r].count
    BY <2>2, <2>3 DEF RtEntries
  <2>5. /\ \A y \in Rts : rt'[y] = IF y = r THEN n ELSE rt[y]
        /\ rt' \in [Rts -> RtEntries]
    BY <1>2, <1>7, <2>2, <2>3, <2>4 DEF CacheInv, CacheTypeOK
  <2>6. \A y : RouteHolders(y)' = RouteHolders(y) /\ NeighHolders(y)' = NeighHolders(y)
    BY <1>2, <2>2, <2>4, <2>5 DEF RouteHolders, NeighHolders
  <2>7. RouteShape'
    BY <1>2, <1>3, <2>2, <2>4, <2>5 DEF CacheInv, RouteShape
  <2>8. RouteCounts'
    BY <1>2, <2>2, <2>4, <2>5, <2>6 DEF CacheInv, RouteCounts
  <2>9. NeighCounts'
    BY <1>2, <2>1, <2>6 DEF CacheInv, NeighCounts
  <2> QED BY <1>2, <2>5, <2>7, <2>8, <2>9 DEF CacheInv, CacheTypeOK
<1>8. ASSUME NEW r \in RouteFind(k), kroute[k] # None,
             rt' = [rt EXCEPT ![r].gw = kroute[k], ![r].neigh = None],
             job'.kind = "route", job'.neigh = rt[r].neigh
      PROVE  CacheInv'
  <2>1. r \in Rts /\ rt[r] \in RtEntries /\ rt[r].key = k /\ kroute[k] \in Gws
    BY <1>2, <1>3, <1>8 DEF RouteFind, CacheInv, CacheTypeOK, KernelTypeOK
  <2>2. PICK n : n = [rt[r] EXCEPT !.gw = kroute[k], !.neigh = None]
    OBVIOUS
  <2>3. /\ n \in RtEntries /\ n.key = k /\ n.gw = kroute[k]
        /\ n.neigh = None /\ n.count = rt[r].count
    BY <2>1, <2>2 DEF RtEntries
  <2>4. /\ \A y \in Rts : rt'[y] = IF y = r THEN n ELSE rt[y]
        /\ rt' \in [Rts -> RtEntries]
    BY <1>2, <1>8, <2>1, <2>2, <2>3 DEF CacheInv, CacheTypeOK
  <2>5. \A y : RouteHolders(y)' = RouteHolders(y)
    BY <1>2 DEF RouteHolders
  <2>6. RouteShape'
    BY <1>2, <1>3, <2>1, <2>3, <2>4 DEF CacheInv, RouteShape
  <2>7. RouteCounts'
    BY <1>2, <2>1, <2>3, <2>4, <2>5 DEF CacheInv, RouteCounts
  <2>8. PICK o : o = rt[r].neigh
    OBVIOUS
  <2>9. /\ \A g \in Gws : g # o => NeighHolders(g)' = NeighHolders(g)
        /\ NeighHolders(o)' = NeighHolders(o) \ {r} \/ o = None
        /\ r \in NeighHolders(o)
    BY <1>2, <2>1, <2>3, <2>4, <2>8 DEF NeighHolders
  <2>10. Cardinality(NeighHolders(o) \ {r}) = Cardinality(NeighHolders(o)) - 1
    BY <2>9, NeighHoldersFinite, FS_RemoveElement
  <2>11. \A g \in Gws : JobRef(g)' = IF g = o THEN 1 ELSE 0
    BY <1>8, <2>8 DEF JobRef
  <2>12. \A g \in Gws : /\ nb[g].count = Cardinality(NeighHolders(g))
                        /\ nb[g].count > 0 => nb[g].here
                        /\ Cardinality(NeighHolders(g)) \in Nat
    BY <1>2, <1>4, NeighHoldersFinite DEF CacheInv, NeighCounts
  <2>13. o \in Gws => nb'[o].count = Cardinality(NeighHolders(o)') + JobRef(o)'
    <3> SUFFICES ASSUME o \in Gws
                 PROVE  nb'[o].count = Cardinality(NeighHolders(o)') + JobRef(o)'
      OBVIOUS
    <3>1. Cardinality(NeighHolders(o)') = Cardinality(NeighHolders(o)) - 1
      BY <1>2, <2>9, <2>10
    <3>2. /\ JobRef(o)' = 1 /\ nb'[o].count = Cardinality(NeighHolders(o))
          /\ Cardinality(NeighHolders(o)) \in Nat
      BY <1>2, <2>11, <2>12
    <3> QED BY <3>1, <3>2
  <2>14. NeighCounts'
    BY <1>2, <2>9, <2>11, <2>12, <2>13 DEF NeighCounts
  <2> QED BY <1>2, <2>4, <2>6, <2>7, <2>14 DEF CacheInv, CacheTypeOK
<1> QED
  <2> DEFINE walk == [NoJob EXCEPT !.key = k, !.new = Head(rq).new, !.todo = CtLegs]
  <2>1. walk.neigh = None
    BY DEF NoJob
  <2>2. [walk EXCEPT !.kind = "none"].kind = "none"
    BY DEF NoJob
  <2>3. \A r : [walk EXCEPT !.kind = "route", !.rt = r].neigh = None
    BY DEF NoJob
  <2>4. \A r, g : /\ [walk EXCEPT !.kind = "route", !.rt = r, !.neigh = g].neigh = g
                  /\ [walk EXCEPT !.kind = "route", !.rt = r, !.neigh = g].kind = "route"
    BY DEF NoJob
  <2>5. \/ job' = [walk EXCEPT !.kind = "none"] /\ UNCHANGED rt
        \/ \E r \in RouteFind(k) :
              /\ rt' = [rt EXCEPT ![r].inv = TRUE]
              /\ job' = [walk EXCEPT !.kind = "route", !.rt = r]
        \/ \E r \in RouteFind(k) :
              /\ kroute[k] \notin {None, rt[r].gw}
              /\ rt' = [rt EXCEPT ![r].gw = kroute[k], ![r].neigh = None]
              /\ job' = [walk EXCEPT !.kind = "route", !.rt = r, !.neigh = rt[r].neigh]
    BY <1>1 DEF RouteEvent
  <2> HIDE DEF walk
  <2>6. CASE job' = [walk EXCEPT !.kind = "none"] /\ UNCHANGED rt
    BY <1>6, <2>2, <2>6
  <2>7. ASSUME NEW r \in RouteFind(k), rt' = [rt EXCEPT ![r].inv = TRUE],
               job' = [walk EXCEPT !.kind = "route", !.rt = r]
        PROVE  CacheInv'
    BY <1>7, <2>3, <2>7
  <2>8. ASSUME NEW r \in RouteFind(k), kroute[k] \notin {None, rt[r].gw},
               rt' = [rt EXCEPT ![r].gw = kroute[k], ![r].neigh = None],
               job' = [walk EXCEPT !.kind = "route", !.rt = r, !.neigh = rt[r].neigh]
        PROVE  CacheInv'
    <3>1. job'.kind = "route" /\ job'.neigh = rt[r].neigh
      BY <2>4, <2>8
    <3> QED BY <1>8, <2>8, <3>1
  <2> QED BY <2>5, <2>6, <2>7, <2>8
=============================================================================
