---------------------------- MODULE CpalBpfProofs ----------------------------
(***************************************************************************)
(* The next-hop array of cpal_bpf.c finds what was put into it and keeps    *)
(* the legs of the connections right, for every size of the array.          *)
(***************************************************************************)
EXTENDS CpalBpf, TLAPS

(* What a probe needs of the indices: each identifier is kept where its     *)
(* probe gets to, and only there.                                           *)
Placed(f) == \A k \in Index : f[k] # 0 => Walk(f[k], k) < N - 1
Unique(f) == \A j, k \in Index : f[j] = f[k] /\ f[j] # 0 => j = k

(* Walks of hash_route_id and find_route_id have a length below N.          *)
LEMMA WalkType ==
  ASSUME NEW i \in Ids \cup {0}, NEW k \in Index
  PROVE  Walk(i, k) \in 0..(N - 1)
<1>1. i % N \in 0..(N - 1)
  BY HomeInRange
<1>2. PICK h \in 0..(N - 1) : h = i % N
  BY <1>1
<1>3. Walk(i, k) = IF k >= h THEN k - h ELSE k - h + N
  BY <1>2 DEF Walk
<1> QED
  BY <1>3, NAssumption DEF Index

(* find_route_id finds an identifier that is well placed, and only that.    *)
LEMMA ProbeFinds ==
  ASSUME NEW f \in [Index -> Ids \cup {0}], Placed(f), Unique(f),
         NEW k \in Index, f[k] # 0
  PROVE  FirstFrom(f[k], {j \in Index : f[j] = f[k]}) = {k}
<1>1. {j \in Index : f[j] = f[k]} = {k}
  BY DEF Unique
<1>2. Walk(f[k], k) < N - 1
  BY DEF Placed
<1>3. Walk(f[k], k) \in 0..(N - 1)
  BY WalkType
<1>4. Walk(f[k], k) <= Walk(f[k], k)
  BY <1>3
<1> QED
  BY <1>1, <1>2, <1>4 DEF FirstFrom

(* What find_route_id returns holds the identifier.                         *)
LEMMA FirstFromSound ==
  ASSUME NEW i, NEW S, NEW k \in FirstFrom(i, S)
  PROVE  k \in S /\ Walk(i, k) < N - 1
BY DEF FirstFrom

(* RouteFound says that the identifiers are well placed.                    *)
LEMMA FoundMeansPlaced ==
  ASSUME BpfTypeOK, RouteFound
  PROVE  Placed(route_info) /\ Unique(route_info)
<1>1. ASSUME NEW k \in Index, route_info[k] # 0
      PROVE  Walk(route_info[k], k) < N - 1
  <2>1. k \in find_route_id(route_info[k])
    BY <1>1 DEF RouteFound
  <2> QED
    BY <2>1, FirstFromSound DEF find_route_id
<1>2. ASSUME NEW j \in Index, NEW k \in Index,
             route_info[j] = route_info[k], route_info[j] # 0
      PROVE  j = k
  <2>1. find_route_id(route_info[j]) = {j} /\ find_route_id(route_info[k]) = {k}
    BY <1>2 DEF RouteFound
  <2> QED
    BY <2>1, <1>2
<1> QED
  BY <1>1, <1>2 DEF Placed, Unique

(* In a state of the invariant the probe of an identifier finds the index   *)
(* that holds it.                                                           *)
LEMMA FindIff ==
  ASSUME BpfTypeOK, RouteFound, NEW i \in Ids, NEW k \in Index
  PROVE  k \in find_route_id(i) <=> route_info[k] = i
<1>1. ASSUME k \in find_route_id(i) PROVE route_info[k] = i
  BY <1>1, FirstFromSound DEF find_route_id
<1>2. ASSUME route_info[k] = i PROVE k \in find_route_id(i)
  <2>1. route_info[k] # 0
    BY <1>2, IdsAre
  <2> QED
    BY <2>1, <1>2 DEF RouteFound
<1> QED
  BY <1>1, <1>2

(* A registered route sits at an index of its own.                          *)
LEMMA RegisteredAt ==
  ASSUME BpfTypeOK, RouteFound, NEW i \in Ids
  PROVE  i \in Registered <=> \E k \in Index : route_info[k] = i
<1>1. ASSUME i \in Registered PROVE \E k \in Index : route_info[k] = i
  <2>1. PICK k : k \in find_route_id(i)
    BY <1>1 DEF Registered
  <2>2. k \in Index
    BY <2>1, FirstFromSound DEF find_route_id
  <2> QED
    BY <2>1, <2>2, FindIff
<1>2. ASSUME NEW k \in Index, route_info[k] = i PROVE i \in Registered
  BY <1>2, FindIff DEF Registered
<1> QED
  BY <1>1, <1>2

(* RouteFound after a step, from what the step does to the indices.         *)
LEMMA PlacedMeansFound ==
  ASSUME BpfTypeOK', Placed(route_info'), Unique(route_info'),
         \A k \in Index : (route_info'[k] = 0) <=> (route_map'[k] = None)
  PROVE  RouteFound'
<1>1. ASSUME NEW k \in Index, route_info'[k] # 0
      PROVE  FirstFrom(route_info'[k], {j \in Index : route_info'[j] = route_info'[k]}) = {k}
  <2>1. route_info' \in [Index -> Ids \cup {0}]
    BY DEF BpfTypeOK
  <2> QED
    BY <1>1, <2>1, ProbeFinds
<1> QED
  BY <1>1 DEF RouteFound, find_route_id

-----------------------------------------------------------------------------
(* The step of FPP_ACTION_REGISTER for a next hop keeps the invariant.      *)
LEMMA RouteRegisterKeeps ==
  ASSUME BpfInv, NEW i \in Ids, NEW d \in Dsts, RouteRegister(i, d)
  PROVE  BpfInv'
<1> USE DEF BpfInv
<1>1. PICK k \in hash_route_id(i) :
         /\ route_map[k] = None
         /\ route_map' = [route_map EXCEPT ![k] = d]
         /\ route_info' = [route_info EXCEPT ![k] = i]
  BY DEF RouteRegister
<1>2. k \in Index /\ route_info[k] = 0 /\ Walk(i, k) < N - 1
  BY FirstFromSound DEF hash_route_id
<1>3. \A j \in Index : route_info[j] # i
  BY RegisteredAt DEF RouteRegister
<1>4. UNCHANGED <<ct_map, asked, stale>>
  BY DEF RouteRegister
<1>5. BpfTypeOK'
  BY <1>1, <1>2, <1>4 DEF BpfTypeOK
<1>6. Placed(route_info) /\ Unique(route_info)
  BY FoundMeansPlaced
<1>7. Placed(route_info')
  BY <1>1, <1>2, <1>6 DEF Placed, BpfTypeOK
<1>8. Unique(route_info')
  BY <1>1, <1>2, <1>3, <1>6 DEF Unique, BpfTypeOK
<1>9. \A j \in Index : (route_info'[j] = 0) <=> (route_map'[j] = None)
  BY <1>1, <1>2, NoneIsNone, IdsAre DEF RouteFound, BpfTypeOK
<1>10. RouteFound'
  BY <1>5, <1>7, <1>8, <1>9, PlacedMeansFound
<1>11. ASSUME NEW c \in Cts, asked[c] # None, NEW l \in Legs \ stale[c], asked[c][l] # 0
       PROVE  /\ ct_map[c] # None
              /\ ct_map[c][l] # -1
              /\ route_info'[ct_map[c][l]] = asked[c][l]
  <2>1. ct_map[c] # None /\ ct_map[c][l] # -1 /\ route_info[ct_map[c][l]] = asked[c][l]
    BY <1>11 DEF LegsAsAsked
  <2>2. ct_map[c] \in [Legs -> Index \cup {-1}]
    BY <2>1 DEF BpfTypeOK
  <2>3. ct_map[c][l] \in Index
    BY <2>1, <2>2
  <2>4. ct_map[c][l] # k
    BY <1>2, <2>1, <1>11
  <2>5. route_info'[ct_map[c][l]] = route_info[ct_map[c][l]]
    BY <1>1, <2>3, <2>4 DEF BpfTypeOK
  <2> QED
    BY <2>1, <2>5
<1>12. LegsAsAsked'
  BY <1>4, <1>11 DEF LegsAsAsked
<1> QED
  BY <1>5, <1>10, <1>12

(* So does the one of FPP_ACTION_DEREGISTER, of a route no leg needs.       *)
LEMMA RouteDeregisterKeepsInv ==
  ASSUME BpfInv, NEW i \in Ids, RouteDeregister(i)
  PROVE  BpfInv'
<1> USE DEF BpfInv
<1>1. PICK k \in find_route_id(i) :
         /\ route_map' = [route_map EXCEPT ![k] = None]
         /\ route_info' = [route_info EXCEPT ![k] = 0]
  BY DEF RouteDeregister
<1>2. k \in Index /\ route_info[k] = i
  BY FirstFromSound DEF find_route_id
<1>3. UNCHANGED <<ct_map, asked, stale>> /\ ~ Needed(i)
  BY DEF RouteDeregister
<1>4. BpfTypeOK'
  BY <1>1, <1>2, <1>3 DEF BpfTypeOK
<1>5. Placed(route_info) /\ Unique(route_info)
  BY FoundMeansPlaced
<1>6. Placed(route_info')
  BY <1>1, <1>2, <1>5 DEF Placed, BpfTypeOK
<1>7. Unique(route_info')
  BY <1>1, <1>2, <1>5 DEF Unique, BpfTypeOK
<1>8. \A j \in Index : (route_info'[j] = 0) <=> (route_map'[j] = None)
  BY <1>1, <1>2 DEF RouteFound, BpfTypeOK
<1>9. RouteFound'
  BY <1>4, <1>6, <1>7, <1>8, PlacedMeansFound
<1>10. ASSUME NEW c \in Cts, asked[c] # None, NEW l \in Legs \ stale[c], asked[c][l] # 0
       PROVE  /\ ct_map[c] # None
              /\ ct_map[c][l] # -1
              /\ route_info'[ct_map[c][l]] = asked[c][l]
  <2>1. ct_map[c] # None /\ ct_map[c][l] # -1 /\ route_info[ct_map[c][l]] = asked[c][l]
    BY <1>10 DEF LegsAsAsked
  <2>2. ct_map[c] \in [Legs -> Index \cup {-1}]
    BY <2>1 DEF BpfTypeOK
  <2>3. ct_map[c][l] \in Index
    BY <2>1, <2>2
  <2>4. asked[c][l] # i
    BY <1>3, <1>10 DEF Needed
  <2>5. ct_map[c][l] # k
    BY <1>2, <2>1, <2>4
  <2>6. route_info'[ct_map[c][l]] = route_info[ct_map[c][l]]
    BY <1>1, <2>3, <2>5 DEF BpfTypeOK
  <2> QED
    BY <2>1, <2>6
<1>11. LegsAsAsked'
  BY <1>3, <1>10 DEF LegsAsAsked
<1> QED
  BY <1>4, <1>9, <1>11

(* The entries made for a request hold the indices of its routes.           *)
LEMMA EntriesRight ==
  ASSUME BpfInv, NEW v \in Requests, NEW e \in EntriesFor(v), NEW l \in Legs, v[l] # 0
  PROVE  e[l] # -1 /\ e[l] \in Index /\ route_info[e[l]] = v[l]
<1>1. v[l] \in Registered /\ v[l] \in Ids
  BY DEF Requests, Registered
<1>2. find_route_id(v[l]) # {}
  BY <1>1 DEF Registered
<1>3. e[l] \in RouteIndex(v[l])
  BY DEF EntriesFor, Legs
<1>4. e[l] \in find_route_id(v[l])
  BY <1>2, <1>3 DEF RouteIndex
<1>5. e[l] \in Index /\ route_info[e[l]] = v[l]
  BY <1>4, FirstFromSound DEF find_route_id
<1>6. e[l] # -1
  BY <1>5, NAssumption DEF Index
<1> QED
  BY <1>5, <1>6

(* The connection c is asked to be v and the map holds m for it, with the   *)
(* legs s stale: each other leg was written from e, or was right and is     *)
(* asked for what it was before.                                            *)
CtPut(c, v, e, m, s) ==
  /\ ct_map' = [ct_map EXCEPT ![c] = m]
  /\ asked' = [asked EXCEPT ![c] = v]
  /\ stale' = [stale EXCEPT ![c] = s]
  /\ asked[c] = None \/ ct_map[c] = None => s = {}
  /\ \A l \in Legs \ s :
        \/ m[l] = e[l]
        \/ /\ asked[c] # None /\ ct_map[c] # None
           /\ l \notin stale[c] /\ m[l] = ct_map[c][l] /\ v[l] = asked[c][l]
  /\ UNCHANGED <<route_info, route_map>>

Entries == [Legs -> Index \cup {-1}]

(* A connection command (REGISTER, UPDATE) keeps the invariant.             *)
LEMMA CtPutKeeps ==
  ASSUME BpfInv, NEW c \in Cts, NEW v \in Requests, NEW e \in EntriesFor(v),
         NEW m \in Entries, NEW s \in SUBSET Legs, CtPut(c, v, e, m, s)
  PROVE  BpfInv'
<1> USE DEF BpfInv, CtPut, Entries
<1>1. v \in [Legs -> Ids \cup {0}]
  BY DEF Requests, Registered
<1>2. BpfTypeOK'
  BY <1>1 DEF BpfTypeOK
<1>3. RouteFound'
  BY DEF RouteFound, find_route_id
<1>4. m # None
  BY NoneIsNone
<1>5. ASSUME NEW b \in Cts, asked'[b] # None
      PROVE  /\ ct_map'[b] # None
             /\ \A l \in Legs \ stale'[b] : asked'[b][l] # 0 =>
                   ct_map'[b][l] # -1 /\ route_info'[ct_map'[b][l]] = asked'[b][l]
  <2>1. CASE b = c
    <3>1. ct_map'[b] = m /\ asked'[b] = v /\ stale'[b] = s
      BY <2>1 DEF BpfTypeOK
    <3>2. ASSUME NEW l \in Legs \ s, v[l] # 0
          PROVE  m[l] # -1 /\ route_info[m[l]] = v[l]
      <4>1. CASE m[l] = e[l]
        BY <4>1, <3>2, EntriesRight
      <4>2. CASE /\ asked[c] # None /\ ct_map[c] # None
                 /\ l \notin stale[c] /\ m[l] = ct_map[c][l] /\ v[l] = asked[c][l]
        BY <4>2, <3>2 DEF LegsAsAsked
      <4> QED
        BY <4>1, <4>2
    <3> QED
      BY <3>1, <3>2, <1>4
  <2>2. CASE b # c
    <3>1. ct_map'[b] = ct_map[b] /\ asked'[b] = asked[b] /\ stale'[b] = stale[b]
      BY <2>2 DEF BpfTypeOK
    <3> QED
      BY <3>1, <1>5 DEF LegsAsAsked
  <2> QED
    BY <2>1, <2>2
<1>6. LegsAsAsked'
  BY <1>5 DEF LegsAsAsked
<1> QED
  BY <1>2, <1>3, <1>6

(* What FPP_ACTION_REGISTER and FPP_ACTION_UPDATE leave in the map.         *)
LEMMA CtPutShape ==
  ASSUME BpfTypeOK, NEW c \in Cts, NEW v \in Requests, CtRegister(c, v) \/ CtUpdate(c, v)
  PROVE  \E e \in EntriesFor(v), m \in Entries, s \in SUBSET Legs : CtPut(c, v, e, m, s)
<1> USE DEF Entries
<1>1. CASE CtRegister(c, v)
  <2>1. PICK e \in EntriesFor(v) : ct_map' = [ct_map EXCEPT ![c] = e]
    BY <1>1 DEF CtRegister
  <2>2. e \in [Legs -> Index \cup {-1}]
    BY DEF EntriesFor
  <2>3. /\ asked' = [asked EXCEPT ![c] = v]
        /\ stale' = [stale EXCEPT ![c] = {}]
        /\ UNCHANGED <<route_info, route_map>>
    BY <1>1 DEF CtRegister
  <2>4. CtPut(c, v, e, e, {})
    BY <2>1, <2>3 DEF CtPut
  <2> QED
    BY <2>2, <2>4
<1>2. CASE CtUpdate(c, v)
  <2>1. PICK e \in EntriesFor(v), w \in Written :
           /\ ct_map' = [ct_map EXCEPT ![c] =
                           [l \in Legs |-> IF l \in w THEN e[l] ELSE ct_map[c][l]]]
           /\ stale' = [stale EXCEPT ![c] =
                          {l \in Legs \ w : l \in stale[c] \/ v[l] # asked[c][l]}]
    BY <1>2 DEF CtUpdate, BpfTypeOK
  <2> DEFINE m == [l \in Legs |-> IF l \in w THEN e[l] ELSE ct_map[c][l]]
             s == {l \in Legs \ w : l \in stale[c] \/ v[l] # asked[c][l]}
  <2>2. asked[c] # None /\ ct_map[c] # None
    BY <1>2 DEF CtUpdate
  <2>3. e \in [Legs -> Index \cup {-1}] /\ ct_map[c] \in [Legs -> Index \cup {-1}]
    BY <2>2 DEF EntriesFor, BpfTypeOK
  <2>4. m \in [Legs -> Index \cup {-1}] /\ s \in SUBSET Legs
    BY <2>3
  <2>5. ASSUME NEW l \in Legs \ s
        PROVE  \/ m[l] = e[l]
               \/ /\ asked[c] # None /\ ct_map[c] # None
                  /\ l \notin stale[c] /\ m[l] = ct_map[c][l] /\ v[l] = asked[c][l]
    BY <2>2
  <2>6. asked' = [asked EXCEPT ![c] = v] /\ UNCHANGED <<route_info, route_map>>
    BY <1>2 DEF CtUpdate
  <2>7. ct_map' = [ct_map EXCEPT ![c] = m] /\ stale' = [stale EXCEPT ![c] = s]
    BY <2>1
  <2> HIDE DEF m, s
  <2>8. CtPut(c, v, e, m, s)
    BY <2>2, <2>5, <2>6, <2>7 DEF CtPut
  <2> QED
    BY <2>4, <2>8
<1> QED
  BY <1>1, <1>2

(* A connection that CMM no longer asks for needs nothing.                  *)
LEMMA CtDropKeeps ==
  ASSUME BpfInv, NEW c \in Cts,
         CtDeregister(c) \/ TimeoutReported(c) \/ TimeoutDeleted(c)
  PROVE  BpfInv'
<1> USE DEF BpfInv
<1>1. UNCHANGED <<route_info, route_map>>
  BY DEF CtDeregister, TimeoutReported, TimeoutDeleted
<1>2. BpfTypeOK'
  BY DEF BpfTypeOK, CtDeregister, TimeoutReported, TimeoutDeleted
<1>3. RouteFound'
  BY <1>1 DEF RouteFound, find_route_id
<1>4. ASSUME NEW b \in Cts, asked'[b] # None
      PROVE  ct_map'[b] = ct_map[b] /\ asked'[b] = asked[b] /\ stale'[b] = stale[b]
  BY <1>4 DEF BpfTypeOK, CtDeregister, TimeoutReported, TimeoutDeleted
<1>5. LegsAsAsked'
  BY <1>1, <1>4 DEF LegsAsAsked
<1> QED
  BY <1>2, <1>3, <1>5

(* Every step of cpal_bpf.c keeps the invariant.                            *)
LEMMA BpfStepKeeps ==
  ASSUME BpfInv, [BpfNext]_bpfVars
  PROVE  BpfInv'
<1>1. ASSUME NEW i \in Ids, NEW d \in Dsts, RouteRegister(i, d) PROVE BpfInv'
  BY <1>1, RouteRegisterKeeps
<1>2. ASSUME NEW i \in Ids, RouteDeregister(i) PROVE BpfInv'
  BY <1>2, RouteDeregisterKeepsInv
<1>3. ASSUME NEW c \in Cts, NEW v \in Requests, CtRegister(c, v) \/ CtUpdate(c, v)
      PROVE  BpfInv'
  <2>1. BpfTypeOK
    BY DEF BpfInv
  <2> QED
    BY <1>3, <2>1, CtPutShape, CtPutKeeps
<1>4. ASSUME NEW c \in Cts, CtDeregister(c) \/ TimeoutReported(c) \/ TimeoutDeleted(c)
      PROVE  BpfInv'
  BY <1>4, CtDropKeeps
<1>5. CASE UNCHANGED bpfVars
  BY <1>5 DEF bpfVars, BpfInv, BpfTypeOK, RouteFound, find_route_id, LegsAsAsked
<1> QED
  BY <1>1, <1>2, <1>3, <1>4, <1>5 DEF BpfNext

(* For every size of the array and whatever is registered and removed, the  *)
(* hashing of cpal_bpf.c finds every route at the index where it is kept,   *)
(* and both legs of a connection follow the routes CMM asked for, but for   *)
(* those that an update refused half way did not write.                     *)
THEOREM BpfCorrect == BpfSpec => []BpfInv
<1>1. BpfInit => BpfInv
  BY NoneIsNone DEF BpfInit, BpfInv, BpfTypeOK, RouteFound, LegsAsAsked
<1> QED
  BY <1>1, BpfStepKeeps, PTL DEF BpfSpec

(* hash_route_id never gives an index away that find_route_id would miss.   *)
THEOREM RoutesFound == BpfSpec => []RouteFound
BY BpfCorrect, PTL DEF BpfInv

(* The index a connection's entry keeps is still that of its route, unless  *)
(* the last update of the connection failed before it wrote that entry.     *)
THEOREM LegsRight == BpfSpec => []LegsAsAsked
BY BpfCorrect, PTL DEF BpfInv

-----------------------------------------------------------------------------
(* The refinement of Engine, for a CMM that never disables the leg of the   *)
(* originator.                                                              *)
DisabledRight ==
  \A c \in Cts : asked[c] # None =>
     /\ asked[c]["orig"] # 0
     /\ asked[c]["rep"] = 0 /\ "rep" \notin stale[c] => ct_map[c]["rep"] = -1

(* What CMM may rely on of a request v, when the legs s are stale.          *)
Known(v, s) == [l \in Legs |-> IF l \in s THEN -1 ELSE v[l]]

Seen == [c \in Cts |-> IF asked[c] = None THEN None ELSE Known(asked[c], stale[c])]

(* The connections of the engine are the ones CMM asks for, as far as they  *)
(* were written.                                                            *)
LEMMA ViewIsAsked == BpfInv /\ DisabledRight => CtView = Seen
<1> SUFFICES ASSUME BpfInv, DisabledRight PROVE CtView = Seen
  OBVIOUS
<1> USE DEF BpfInv
<1>1. ASSUME NEW c \in Cts, asked[c] # None
      PROVE  [l \in Legs |-> LegView(c, l)] = Known(asked[c], stale[c])
  <2>2. ASSUME NEW l \in Legs
        PROVE  LegView(c, l) = IF l \in stale[c] THEN -1 ELSE asked[c][l]
    <3>1. CASE l \in stale[c]
      BY <3>1 DEF LegView
    <3>2. CASE l \notin stale[c] /\ asked[c][l] # 0
      BY <3>2, <1>1 DEF LegsAsAsked, LegView
    <3>3. CASE l \notin stale[c] /\ asked[c][l] = 0
      <4>1. l = "rep"
        BY <3>3, <1>1 DEF DisabledRight, Legs
      <4>2. ct_map[c][l] = -1
        BY <4>1, <3>3, <1>1 DEF DisabledRight
      <4> QED
        BY <4>2, <3>3 DEF LegView
    <3> QED
      BY <3>1, <3>2, <3>3
  <2> QED
    BY <2>2 DEF Known
<1> QED
  BY <1>1 DEF CtView, Seen

(* The next hop the engine has for an identifier.                           *)
LEMMA RtViewAt ==
  BpfInv => /\ RtView = [i \in Ids |-> RtView[i]]
            /\ \A i \in Ids : (\A k \in Index : route_info[k] # i) => RtView[i] = None
            /\ \A k \in Index : route_info[k] # 0 => RtView[route_info[k]] = route_map[k]
            /\ \A i \in Ids : i \in Registered => RtView[i] # None
<1> SUFFICES ASSUME BpfInv
             PROVE  /\ RtView = [i \in Ids |-> RtView[i]]
                    /\ \A i \in Ids : (\A k \in Index : route_info[k] # i) => RtView[i] = None
                    /\ \A k \in Index : route_info[k] # 0 => RtView[route_info[k]] = route_map[k]
                    /\ \A i \in Ids : i \in Registered => RtView[i] # None
  OBVIOUS
<1> USE DEF BpfInv
<1>1. RtView = [i \in Ids |-> RtView[i]]
  BY DEF RtView
<1>2. ASSUME NEW i \in Ids, \A k \in Index : route_info[k] # i
      PROVE  RtView[i] = None
  BY <1>2, RegisteredAt DEF RtView
<1>3. ASSUME NEW k \in Index, route_info[k] # 0
      PROVE  RtView[route_info[k]] = route_map[k] /\ route_map[k] # None
  <2>1. route_info[k] \in Ids
    BY <1>3 DEF BpfTypeOK
  <2>2. route_info[k] \in Registered
    BY <2>1, RegisteredAt
  <2>3. \A j \in Index : route_info[j] = route_info[k] => j = k
    BY <1>3, FoundMeansPlaced DEF Unique
  <2>4. (CHOOSE j \in Index : route_info[j] = route_info[k]) = k
    BY <2>3
  <2> QED
    BY <1>3, <2>1, <2>2, <2>4 DEF RtView, RouteFound
<1>4. ASSUME NEW i \in Ids, i \in Registered PROVE RtView[i] # None
  <2>1. PICK k \in Index : route_info[k] = i
    BY <1>4, RegisteredAt
  <2> QED
    BY <2>1, <1>3, IdsAre
<1> QED
  BY <1>1, <1>2, <1>3, <1>4

(* DisabledRight holds along every behaviour.                               *)
LEMMA DisabledStep ==
  ASSUME ~ OrigMayFail, BpfTypeOK, DisabledRight, [BpfNext]_bpfVars
  PROVE  DisabledRight'
<1>1. ASSUME NEW c \in Cts, NEW v \in Requests, CtRegister(c, v) \/ CtUpdate(c, v)
      PROVE  DisabledRight'
  <2>1. PICK e \in EntriesFor(v), m \in Entries, s \in SUBSET Legs : CtPut(c, v, e, m, s)
    BY <1>1, CtPutShape
  <2>2. v["orig"] # 0 /\ (v["rep"] = 0 => e["rep"] = -1)
    BY DEF Requests, EntriesFor
  <2>3. v["rep"] = 0 /\ "rep" \notin s => m["rep"] = -1
    BY <2>1, <2>2 DEF DisabledRight, Legs, CtPut
  <2>4. ASSUME NEW b \in Cts, asked'[b] # None
        PROVE  /\ asked'[b]["orig"] # 0
               /\ asked'[b]["rep"] = 0 /\ "rep" \notin stale'[b] => ct_map'[b]["rep"] = -1
    <3>1. CASE b = c
      BY <3>1, <2>1, <2>2, <2>3 DEF BpfTypeOK, CtPut
    <3>2. CASE b # c
      BY <3>2, <2>1, <2>4 DEF BpfTypeOK, DisabledRight, CtPut
    <3> QED
      BY <3>1, <3>2
  <2> QED
    BY <2>4 DEF DisabledRight
<1>2. ASSUME NEW c \in Cts, CtDeregister(c) \/ TimeoutReported(c) \/ TimeoutDeleted(c)
      PROVE  DisabledRight'
  BY <1>2 DEF DisabledRight, BpfTypeOK, CtDeregister, TimeoutReported, TimeoutDeleted
<1>3. CASE UNCHANGED <<ct_map, asked, stale>>
  BY <1>3 DEF DisabledRight
<1> QED
  BY <1>1, <1>2, <1>3 DEF BpfNext, bpfVars, RouteRegister, RouteDeregister

(* Each step of cpal_bpf.c is a step of the engine, or none.                *)
LEMMA BpfStepSimulates ==
  ASSUME BpfInv, CtView = Seen, CtView' = Seen', [BpfNext]_bpfVars,
         RtView = [i \in Ids |-> RtView[i]],
         \A i \in Ids : (\A k \in Index : route_info[k] # i) => RtView[i] = None,
         \A k \in Index : route_info[k] # 0 => RtView[route_info[k]] = route_map[k],
         \A i \in Ids : i \in Registered => RtView[i] # None,
         RtView' = [i \in Ids |-> RtView'[i]],
         \A i \in Ids : (\A k \in Index : route_info'[k] # i) => RtView'[i] = None,
         \A k \in Index : route_info'[k] # 0 => RtView'[route_info'[k]] = route_map'[k]
  PROVE  [E!EngineNext]_(E!engineVars)
<1>1. ASSUME NEW i \in Ids, NEW d \in Dsts, RouteRegister(i, d)
      PROVE  E!AddRoute(i, d)
  <2>1. PICK k \in hash_route_id(i) :
           /\ route_map' = [route_map EXCEPT ![k] = d]
           /\ route_info' = [route_info EXCEPT ![k] = i]
    BY <1>1 DEF RouteRegister
  <2>2. k \in Index /\ route_info[k] = 0
    BY FirstFromSound DEF hash_route_id
  <2>3. \A j \in Index : route_info[j] # i
    BY <1>1, RegisteredAt DEF RouteRegister, BpfInv
  <2>4. RtView[i] = None
    BY <2>3
  <2>5. RtView'[i] = d
    BY <2>1, <2>2, IdsAre DEF BpfInv, BpfTypeOK
  <2>6. ASSUME NEW j \in Ids, j # i PROVE RtView'[j] = RtView[j]
    <3>1. CASE \E m \in Index : route_info[m] = j
      <4>1. PICK m \in Index : route_info[m] = j
        BY <3>1
      <4>2. j # 0 /\ m # k
        BY <4>1, <2>2, IdsAre
      <4>3. route_info'[m] = j /\ route_map'[m] = route_map[m]
        BY <4>1, <4>2, <2>1 DEF BpfInv, BpfTypeOK
      <4> QED
        BY <4>1, <4>2, <4>3
    <3>2. CASE \A m \in Index : route_info[m] # j
      <4>1. \A m \in Index : route_info'[m] # j
        BY <3>2, <2>1, <2>6 DEF BpfInv, BpfTypeOK
      <4> QED
        BY <4>1, <3>2
    <3> QED
      BY <3>1, <3>2
  <2>7. RtView' = [RtView EXCEPT ![i] = d]
    BY <2>5, <2>6
  <2>8. CtView' = CtView
    BY <1>1 DEF RouteRegister, Seen
  <2> QED
    BY <2>4, <2>7, <2>8 DEF E!AddRoute
<1>2. ASSUME NEW i \in Ids, RouteDeregister(i) PROVE E!RemoveRoute(i)
  <2>1. PICK k \in find_route_id(i) :
           /\ route_map' = [route_map EXCEPT ![k] = None]
           /\ route_info' = [route_info EXCEPT ![k] = 0]
    BY <1>2 DEF RouteDeregister
  <2>2. k \in Index /\ route_info[k] = i
    BY FirstFromSound DEF find_route_id
  <2>3. \A j \in Index : j # k => route_info[j] # i
    BY <2>2, FoundMeansPlaced, IdsAre DEF BpfInv, Unique
  <2>4. \A j \in Index : route_info'[j] # i
    BY <2>1, <2>3, IdsAre DEF BpfInv, BpfTypeOK
  <2>5. RtView'[i] = None
    BY <2>4
  <2>6. ASSUME NEW j \in Ids, j # i PROVE RtView'[j] = RtView[j]
    <3>1. CASE \E m \in Index : route_info[m] = j
      <4>1. PICK m \in Index : route_info[m] = j
        BY <3>1
      <4>2. j # 0 /\ m # k
        BY <4>1, <2>2, <2>6, IdsAre
      <4>3. route_info'[m] = j /\ route_map'[m] = route_map[m]
        BY <4>1, <4>2, <2>1 DEF BpfInv, BpfTypeOK
      <4> QED
        BY <4>1, <4>2, <4>3
    <3>2. CASE \A m \in Index : route_info[m] # j
      <4>1. \A m \in Index : route_info'[m] # j
        BY <3>2, <2>1, IdsAre DEF BpfInv, BpfTypeOK
      <4> QED
        BY <4>1, <3>2
    <3> QED
      BY <3>1, <3>2
  <2>7. RtView' = [RtView EXCEPT ![i] = None]
    BY <2>5, <2>6
  <2>8. CtView' = CtView
    BY <1>2 DEF RouteDeregister, Seen
  <2>9. ASSUME NEW c \in Cts PROVE ~ E!Uses(c, i)
    <3>1. i # -1
      BY IdsAre
    <3>2. \A l \in Legs : asked[c] # None => asked[c][l] # i
      BY <1>2 DEF RouteDeregister, Needed
    <3> QED
      BY <3>1, <3>2 DEF Seen, Known, E!Uses, Legs, E!Legs
  <2> QED
    BY <2>7, <2>8, <2>9 DEF E!RemoveRoute
<1>3. ASSUME UNCHANGED <<route_info, route_map>> PROVE RtView' = RtView
  BY <1>3 DEF RtView, Registered, find_route_id
<1>4. ASSUME NEW c \in Cts, NEW v \in Requests, CtRegister(c, v) \/ CtUpdate(c, v)
      PROVE  \E u \in [E!Legs -> Ids \cup {0, E!Unknown}] : E!PutCt(c, u)
  <2>0. BpfTypeOK
    BY DEF BpfInv
  <2>1. PICK e \in EntriesFor(v), m \in Entries, s \in SUBSET Legs : CtPut(c, v, e, m, s)
    BY <1>4, <2>0, CtPutShape
  <2>2. v \in [Legs -> Ids \cup {0}] /\ v # None
    BY NoneIsNone DEF Requests, Registered
  <2>3. \A l \in Legs : v[l] # 0 => v[l] \in Registered /\ v[l] \in Ids
    BY DEF Requests, Registered
  <2>4. CtView' = [CtView EXCEPT ![c] = Known(v, s)] /\ RtView' = RtView
    BY <1>3, <2>1, <2>2 DEF Seen, BpfInv, BpfTypeOK, CtPut
  <2>5. Known(v, s) \in [E!Legs -> Ids \cup {0, E!Unknown}]
    BY <2>2 DEF Known, E!Legs, Legs, E!Unknown
  <2>6. CtView[c] = None => \A l \in Legs : Known(v, s)[l] # -1
    <3>1. ASSUME asked[c] # None PROVE Known(asked[c], stale[c]) # None
      <4>1. asked[c] \in [Legs -> Ids \cup {0}]
        BY <3>1 DEF BpfInv, BpfTypeOK
      <4>2. Known(asked[c], stale[c]) \in [Legs -> Ids \cup {0, -1}]
        BY <4>1 DEF Known
      <4> QED
        BY <4>2, NoneIsNone
    <3>2. CtView[c] = None => s = {}
      BY <2>1, <3>1 DEF Seen, CtPut
    <3> QED
      BY <3>2, <2>2, IdsAre DEF Known
  <2>7. \A l \in Legs : Known(v, s)[l] \notin {0, -1} => RtView[Known(v, s)[l]] # None
    BY <2>3 DEF Known
  <2> QED
    BY <2>4, <2>5, <2>6, <2>7 DEF E!PutCt, E!Legs, Legs, E!Unknown
<1>5. ASSUME NEW c \in Cts, CtDeregister(c) \/ TimeoutReported(c)
      PROVE  E!DropCt(c)
  <2>1. /\ asked' = [asked EXCEPT ![c] = None]
        /\ stale' = [stale EXCEPT ![c] = {}]
        /\ UNCHANGED <<route_info, route_map>>
    BY <1>5 DEF CtDeregister, TimeoutReported
  <2>2. CtView' = [CtView EXCEPT ![c] = None]
    BY <2>1 DEF Seen, BpfInv, BpfTypeOK
  <2> QED
    BY <1>3, <2>1, <2>2 DEF E!DropCt
<1>6. ASSUME UNCHANGED <<route_info, route_map, asked, stale>>
      PROVE  UNCHANGED E!engineVars
  BY <1>3, <1>6 DEF E!engineVars, Seen
<1> QED
  BY <1>1, <1>2, <1>4, <1>5, <1>6 DEF BpfNext, E!EngineNext, bpfVars, TimeoutDeleted

(* Hashing the identifiers into an array, and keeping indices into it, is   *)
(* an implementation of the engine CMM expects, as long as the leg of the   *)
(* originator is not disabled (the flag for it is ignored).  Legs that a     *)
(* refused update leaves behind are the ones it may not rely on.             *)
THEOREM BpfIsEngine ==
  ASSUME ~ OrigMayFail
  PROVE  BpfSpec => ImplementsEngine
<1>1. BpfInit => DisabledRight
  BY DEF BpfInit, DisabledRight
<1>2. BpfInv /\ DisabledRight /\ [BpfNext]_bpfVars => DisabledRight'
  BY DisabledStep DEF BpfInv
<1>3. BpfSpec => []DisabledRight
  BY <1>1, <1>2, BpfCorrect, PTL DEF BpfSpec
<1>4. BpfInit => E!EngineInit
  <2> SUFFICES ASSUME BpfInit PROVE RtView = [i \in Ids |-> None] /\ CtView = [c \in Cts |-> None]
    BY DEF E!EngineInit
  <2>1. \A i \in Ids : find_route_id(i) = {}
    BY IdsAre DEF BpfInit, find_route_id, FirstFrom
  <2> QED
    BY <2>1 DEF BpfInit, RtView, CtView, Registered
<1> DEFINE Same == CtView = Seen
<1>a. BpfInv /\ DisabledRight => Same
  BY ViewIsAsked
<1>5. BpfInv' /\ DisabledRight' => Same'
  <2> HIDE DEF Same
  <2> QED BY <1>a, PTL
<1> DEFINE Facts == /\ RtView = [i \in Ids |-> RtView[i]]
                    /\ \A i \in Ids : (\A k \in Index : route_info[k] # i) => RtView[i] = None
                    /\ \A k \in Index : route_info[k] # 0 => RtView[route_info[k]] = route_map[k]
                    /\ \A i \in Ids : i \in Registered => RtView[i] # None
<1>6. BpfInv => Facts
  BY RtViewAt
<1>7. BpfInv' => Facts'
  <2> HIDE DEF Facts
  <2> QED BY <1>6, PTL
<1>8. /\ BpfInv /\ BpfInv' /\ DisabledRight /\ DisabledRight'
      /\ [BpfNext]_bpfVars
      => [E!EngineNext]_(E!engineVars)
  BY <1>5, <1>6, <1>7, ViewIsAsked, BpfStepSimulates
<1> QED
  BY <1>3, <1>4, <1>8, BpfCorrect, PTL DEF BpfSpec, ImplementsEngine, E!EngineSpec
=============================================================================
