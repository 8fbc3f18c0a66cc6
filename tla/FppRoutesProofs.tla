-------------------------- MODULE FppRoutesProofs --------------------------
(***************************************************************************)
(* Proofs about the table of fast-path routes: FppInv holds for every       *)
(* number of slots, next hops and identifiers, whatever commands fail.      *)
(***************************************************************************)
EXTENDS FppRoutes, FiniteSetTheorems, TLAPS

(* The slots of a pointer map f that hold i.                                *)
HoldersIn(f, i) == {s \in Slots : f[s] = i}

(* The holders of any entry are finitely many.                              *)
LEMMA HoldersFinite ==
  ASSUME NEW f, NEW i
  PROVE  /\ IsFiniteSet(HoldersIn(f, i))
         /\ Cardinality(HoldersIn(f, i)) \in Nat
BY SlotsFinite, FS_Subset, FS_CardinalityType DEF HoldersIn

(* An entry with a holder has a positive count.                             *)
LEMMA HeldIsCounted ==
  ASSUME FppInv, NEW s \in Slots, slot[s] # 0
  PROVE  /\ slot[s] \in Ids
         /\ Live(slot[s])
         /\ fpp_rt_table[slot[s]] \in Entries
         /\ fpp_rt_table[slot[s]].count \in Nat \ {0}
<1>1. /\ slot[s] \in Ids
      /\ Live(slot[s])
      /\ fpp_rt_table[slot[s]] \in Entries
      /\ fpp_rt_table[slot[s]].count \in Nat
  BY MaxIdPos DEF FppInv, FppTypeOK, NoDanglingPointer, Ids, Entries
<1>2. fpp_rt_table[slot[s]].count = Cardinality(HoldersIn(slot, slot[s]))
  BY <1>1 DEF FppInv, CountIsHolders, Holders, HoldersIn
<1>3. HoldersIn(slot, slot[s]) # {}
  BY DEF HoldersIn
<1>4. Cardinality(HoldersIn(slot, slot[s])) # 0
  BY <1>3, HoldersFinite, FS_EmptySet
<1> QED BY <1>1, <1>2, <1>4

(* The last holder is the only one: no other slot points to the entry.      *)
LEMMA LastHolder ==
  ASSUME FppInv, NEW s \in Slots, slot[s] # 0,
         fpp_rt_table[slot[s]].count = 1
  PROVE  \A t \in Slots : slot[t] = slot[s] => t = s
<1>1. Cardinality(HoldersIn(slot, slot[s])) = 1
  BY HeldIsCounted DEF FppInv, CountIsHolders, Holders, HoldersIn
<1>2. PICK x : HoldersIn(slot, slot[s]) = {x}
  BY <1>1, HoldersFinite, FS_Singleton
<1> QED BY <1>2 DEF HoldersIn

(* A pointer stored in an empty slot is one more holder of its entry.       *)
LEMMA HolderAdded ==
  ASSUME FppTypeOK, NEW s \in Slots, NEW i \in Ids, slot[s] = 0,
         slot' = [slot EXCEPT ![s] = i]
  PROVE  \A j \in Ids : Cardinality(HoldersIn(slot', j)) =
                           IF j = i THEN Cardinality(HoldersIn(slot, j)) + 1
                           ELSE Cardinality(HoldersIn(slot, j))
<1> TAKE j \in Ids
<1> USE DEF Ids, FppTypeOK
<1>1. CASE j = i
  <2>1. HoldersIn(slot', j) = HoldersIn(slot, j) \cup {s}
    BY <1>1 DEF HoldersIn
  <2>2. s \notin HoldersIn(slot, j)
    BY <1>1 DEF HoldersIn
  <2>3. Cardinality(HoldersIn(slot', j)) = Cardinality(HoldersIn(slot, j)) + 1
    <3>1. IsFiniteSet(HoldersIn(slot, j))
      BY HoldersFinite
    <3>2. Cardinality(HoldersIn(slot, j) \cup {s}) = Cardinality(HoldersIn(slot, j)) + 1
      BY <2>2, <3>1, FS_AddElement
    <3> QED BY <2>1, <3>2
  <2> QED BY <1>1, <2>3
<1>2. CASE j # i
  <2>1. HoldersIn(slot', j) = HoldersIn(slot, j)
    BY <1>2 DEF HoldersIn
  <2> QED BY <1>2, <2>1
<1> QED BY <1>1, <1>2

(* A pointer set to NULL is one holder less.                                *)
LEMMA HolderDropped ==
  ASSUME FppTypeOK, NEW s \in Slots, slot[s] # 0,
         slot' = [slot EXCEPT ![s] = 0]
  PROVE  \A j \in Ids : Cardinality(HoldersIn(slot', j)) =
                           IF j = slot[s] THEN Cardinality(HoldersIn(slot, j)) - 1
                           ELSE Cardinality(HoldersIn(slot, j))
<1> TAKE j \in Ids
<1> USE DEF Ids, FppTypeOK
<1>1. CASE j = slot[s]
  <2>1. HoldersIn(slot', j) = HoldersIn(slot, j) \ {s}
    BY <1>1 DEF HoldersIn
  <2>2. s \in HoldersIn(slot, j)
    BY <1>1 DEF HoldersIn
  <2> QED BY <1>1, <2>1, <2>2, HoldersFinite, FS_RemoveElement
<1>2. CASE j # slot[s]
  <2>1. HoldersIn(slot', j) = HoldersIn(slot, j)
    BY <1>2 DEF HoldersIn
  <2> QED BY <1>2, <2>1
<1> QED BY <1>1, <1>2

(* A pointer moved to an empty slot leaves every entry as many holders.     *)
LEMMA HolderMoved ==
  ASSUME FppTypeOK, NEW s \in Slots, NEW t \in Slots, FPPRouteMove(s, t)
  PROVE  \A j \in Ids : Cardinality(HoldersIn(slot', j)) =
                          Cardinality(HoldersIn(slot, j))
<1> TAKE j \in Ids
<1>0. /\ slot[s] # 0 /\ slot[t] = 0 /\ s # t
      /\ slot' = [slot EXCEPT ![s] = 0, ![t] = slot[s]]
  BY DEF FPPRouteMove
<1> USE DEF Ids, FppTypeOK
<1>1. CASE j = slot[s]
  <2>1. HoldersIn(slot', j) = (HoldersIn(slot, j) \ {s}) \cup {t}
    BY <1>0, <1>1 DEF HoldersIn
  <2>2. s \in HoldersIn(slot, j) /\ t \notin HoldersIn(slot, j) \ {s}
    BY <1>0, <1>1 DEF HoldersIn
  <2>3. /\ IsFiniteSet(HoldersIn(slot, j) \ {s})
        /\ Cardinality(HoldersIn(slot, j) \ {s}) = Cardinality(HoldersIn(slot, j)) - 1
    BY <2>2, HoldersFinite, FS_RemoveElement
  <2>4. Cardinality(HoldersIn(slot', j)) = Cardinality(HoldersIn(slot, j) \ {s}) + 1
    BY <2>1, <2>2, <2>3, FS_AddElement
  <2> QED BY <2>3, <2>4, HoldersFinite
<1>2. CASE j # slot[s]
  <2>1. HoldersIn(slot', j) = HoldersIn(slot, j)
    BY <1>0, <1>2 DEF HoldersIn
  <2> QED BY <1>2, <2>1
<1> QED BY <1>1, <1>2

(* __cmmFPPRouteGet keeps the invariant.                                    *)
LEMMA GetKeeps ==
  ASSUME FppInv, NEW s \in Slots, NEW d \in Dsts, FPPRouteGet(s, d)
  PROVE  FppInv'
<1> USE MaxIdPos, NoneNotDst DEF Ids, Entries, Live, FreeEntry
<1>0. FppTypeOK /\ slot[s] = 0
  BY DEF FppInv, FPPRouteGet
<1>1. CASE \E i \in FPPRouteFind(d) :
             /\ fpp_rt_table' = [fpp_rt_table EXCEPT ![i].count = @ + 1]
             /\ slot' = [slot EXCEPT ![s] = i]
             /\ UNCHANGED <<route_id, engine_rt>>
  <2>1. PICK i \in FPPRouteFind(d) :
             /\ fpp_rt_table' = [fpp_rt_table EXCEPT ![i].count = @ + 1]
             /\ slot' = [slot EXCEPT ![s] = i]
             /\ UNCHANGED <<route_id, engine_rt>>
    BY <1>1
  <2>2. i \in Ids /\ fpp_rt_table[i].dst = d /\ slot[s] # i
    BY <1>0 DEF FPPRouteFind
  <2>3. FppTypeOK'
    <3>1. fpp_rt_table[i] \in Entries
      BY <1>0, <2>2 DEF FppTypeOK
    <3>2. [fpp_rt_table[i] EXCEPT !.count = @ + 1] \in Entries
      BY <3>1
    <3> HIDE DEF Entries
    <3> QED BY <1>0, <2>1, <2>2, <3>2 DEF FppTypeOK
  <2>4. CountIsHolders'
    <3>1. \A j \in Ids : Cardinality(HoldersIn(slot', j)) =
                           IF j = i THEN Cardinality(HoldersIn(slot, j)) + 1
                           ELSE Cardinality(HoldersIn(slot, j))
      BY <1>0, <2>1, <2>2, HolderAdded
    <3>2. \A j \in Ids : fpp_rt_table'[j].count =
                           IF j = i THEN fpp_rt_table[j].count + 1
                           ELSE fpp_rt_table[j].count
      BY <1>0, <2>1, <2>2 DEF FppTypeOK
    <3> QED BY <3>1, <3>2 DEF FppInv, CountIsHolders, Holders, HoldersIn
  <2>5. \A j \in Ids : /\ fpp_rt_table'[j].dst = fpp_rt_table[j].dst
                       /\ fpp_rt_table'[j].prog = fpp_rt_table[j].prog
    BY <1>0, <2>1, <2>2 DEF FppTypeOK
  <2>6. NoDanglingPointer'
    BY <1>0, <2>1, <2>2, <2>5 DEF FppInv, NoDanglingPointer, FppTypeOK
  <2>7. FreeIsClean'
    BY <1>0, <2>1, <2>2 DEF FppInv, FreeIsClean, FppTypeOK
  <2>8. OnePerNextHop' /\ EngineTracked'
    BY <2>1, <2>5 DEF FppInv, OnePerNextHop, EngineTracked
  <2> QED BY <2>3, <2>4, <2>6, <2>7, <2>8 DEF FppInv
<1>2. CASE /\ FPPRouteFind(d) = {}
           /\ \E i \in NewRouteId :
                /\ fpp_rt_table' = [fpp_rt_table EXCEPT ![i] =
                                      [dst |-> d, count |-> 1, prog |-> FALSE]]
                /\ slot' = [slot EXCEPT ![s] = i]
                /\ route_id' = i
           /\ UNCHANGED engine_rt
  <2>1. PICK i \in NewRouteId :
                /\ fpp_rt_table' = [fpp_rt_table EXCEPT ![i] =
                                      [dst |-> d, count |-> 1, prog |-> FALSE]]
                /\ slot' = [slot EXCEPT ![s] = i]
                /\ route_id' = i
    BY <1>2
  <2>2. /\ i \in Ids /\ ~ Live(i) /\ slot[s] # i
        /\ fpp_rt_table[i] = FreeEntry
        /\ UNCHANGED engine_rt
    <3>1. i \in Ids /\ ~ Live(i)
      BY DEF NewRouteId
    <3>2. fpp_rt_table[i] = FreeEntry
      BY <3>1 DEF FppInv, FreeIsClean
    <3> QED BY <1>0, <1>2, <3>1, <3>2
  <2>3. FppTypeOK'
    BY <1>0, <2>1, <2>2 DEF FppTypeOK
  <2>4. CountIsHolders'
    <3>1. \A j \in Ids : Cardinality(HoldersIn(slot', j)) =
                           IF j = i THEN Cardinality(HoldersIn(slot, j)) + 1
                           ELSE Cardinality(HoldersIn(slot, j))
      BY <1>0, <2>1, <2>2, HolderAdded
    <3>2. \A j \in Ids : fpp_rt_table'[j].count =
                           IF j = i THEN fpp_rt_table[j].count + 1
                           ELSE fpp_rt_table[j].count
      BY <1>0, <2>1, <2>2 DEF FppTypeOK
    <3> QED BY <3>1, <3>2 DEF FppInv, CountIsHolders, Holders, HoldersIn
  <2>5. NoDanglingPointer'
    BY <1>0, <2>1, <2>2 DEF FppInv, NoDanglingPointer, FppTypeOK
  <2>6. FreeIsClean' /\ EngineTracked'
    BY <1>0, <2>1, <2>2 DEF FppInv, FreeIsClean, EngineTracked, FppTypeOK
  <2>7. OnePerNextHop'
    BY <1>0, <1>2, <2>1, <2>2 DEF FppInv, OnePerNextHop, FPPRouteFind, FppTypeOK
  <2> QED BY <2>3, <2>4, <2>5, <2>6, <2>7 DEF FppInv
<1> QED BY <1>1, <1>2 DEF FPPRouteGet

(* Programming a route in the engine keeps the invariant.                   *)
LEMMA AddKeeps ==
  ASSUME FppInv, NEW i \in Ids, Live(i), NEW ok \in BOOLEAN, FeRouteAdd(i, ok)
  PROVE  FppInv'
<1> USE MaxIdPos, NoneNotDst DEF Ids, Entries, Live, FreeEntry
<1>0. FppTypeOK /\ UNCHANGED <<route_id, slot>>
  BY DEF FppInv, FeRouteAdd
<1>1. CASE UNCHANGED <<fpp_rt_table, engine_rt>>
  BY <1>0, <1>1 DEF FppInv, FppTypeOK, CountIsHolders, Holders,
       NoDanglingPointer, FreeIsClean, OnePerNextHop, EngineTracked
<1>2. CASE /\ ~ fpp_rt_table[i].prog
           /\ fpp_rt_table' = [fpp_rt_table EXCEPT ![i].prog = TRUE]
           /\ engine_rt' = IF engine_rt[i] = None
                           THEN [engine_rt EXCEPT ![i] = fpp_rt_table[i].dst]
                           ELSE engine_rt
  <2>1. FppTypeOK'
    BY <1>0, <1>2 DEF FppTypeOK
  <2>2. \A j \in Ids : /\ fpp_rt_table'[j].dst = fpp_rt_table[j].dst
                       /\ fpp_rt_table'[j].count = fpp_rt_table[j].count
    BY <1>0, <1>2 DEF FppTypeOK
  <2>3. CountIsHolders'
    BY <1>0, <2>2 DEF FppInv, CountIsHolders, Holders
  <2>4. NoDanglingPointer'
    BY <1>0, <2>2 DEF FppInv, NoDanglingPointer, FppTypeOK
  <2>5. FreeIsClean' /\ OnePerNextHop'
    BY <1>0, <1>2, <2>2 DEF FppInv, FreeIsClean, OnePerNextHop, FppTypeOK
  <2>6. EngineTracked'
    BY <1>0, <1>2 DEF FppInv, EngineTracked, FppTypeOK
  <2> QED BY <2>1, <2>3, <2>4, <2>5, <2>6 DEF FppInv
<1> QED BY <1>1, <1>2 DEF FeRouteAdd

(* __cmmFPPRouteDeregister keeps the invariant, the removal failed or not.  *)
LEMMA DeregisterKeeps ==
  ASSUME FppInv, NEW s \in Slots, NEW ok \in BOOLEAN, FPPRouteDeregister(s, ok)
  PROVE  FppInv'
<1> DEFINE i == slot[s]
           last == fpp_rt_table[i].count = 1
           sent == last /\ fpp_rt_table[i].prog
           freed == last /\ (sent => ok)
           less == Fewer(fpp_rt_table[i])
<1>1. /\ i # 0
      /\ slot' = [slot EXCEPT ![s] = 0]
      /\ engine_rt' = IF sent /\ ok THEN [engine_rt EXCEPT ![i] = None]
                                    ELSE engine_rt
      /\ fpp_rt_table' = [fpp_rt_table EXCEPT ![i] =
                            IF freed THEN FreeEntry
                            ELSE Fewer(@)]
      /\ UNCHANGED route_id
  BY DEF FPPRouteDeregister
<1>2. /\ FppTypeOK /\ CountIsHolders /\ NoDanglingPointer
      /\ FreeIsClean /\ OnePerNextHop /\ EngineTracked
  BY DEF FppInv
<1>3. /\ i \in Ids /\ Live(i)
      /\ fpp_rt_table[i] \in Entries
      /\ fpp_rt_table[i].count \in Nat \ {0}
  BY <1>1, HeldIsCounted
<1>4. /\ less \in Entries /\ FreeEntry \in Entries
      /\ less.dst = fpp_rt_table[i].dst
      /\ less.prog = fpp_rt_table[i].prog
      /\ less.count = fpp_rt_table[i].count - 1
  BY <1>3 DEF Entries, FreeEntry, Fewer
<1>5. \A j \in Ids : fpp_rt_table'[j] = IF j = i THEN IF freed THEN FreeEntry ELSE less
                                        ELSE fpp_rt_table[j]
  BY <1>1, <1>2, <1>3 DEF FppTypeOK
<1>6. \A t \in Slots : slot'[t] = IF t = s THEN 0 ELSE slot[t]
  BY <1>1, <1>2 DEF FppTypeOK
<1> HIDE DEF less
<1>7. FppTypeOK'
  <2>1. fpp_rt_table' \in [Ids -> Entries]
    <3>1. \A j \in Ids : fpp_rt_table'[j] \in Entries
      BY <1>2, <1>4, <1>5 DEF FppTypeOK
    <3>2. fpp_rt_table' = [j \in Ids |-> fpp_rt_table'[j]]
      BY <1>1, <1>2 DEF FppTypeOK
    <3> QED BY <3>1, <3>2
  <2>2. slot' \in [Slots -> 0..MaxId]
    BY <1>1, <1>2, MaxIdPos DEF FppTypeOK
  <2>3. engine_rt' \in [Ids -> Dsts \cup {None}]
    BY <1>1, <1>2 DEF FppTypeOK
  <2> QED BY <1>1, <1>2, <2>1, <2>2, <2>3 DEF FppTypeOK
<1>8. CountIsHolders'
  <2>1. \A j \in Ids : fpp_rt_table'[j].count =
                         IF j = i THEN fpp_rt_table[j].count - 1
                         ELSE fpp_rt_table[j].count
    BY <1>3, <1>4, <1>5 DEF FreeEntry
  <2>2. \A j \in Ids : Cardinality(HoldersIn(slot', j)) =
                           IF j = i THEN Cardinality(HoldersIn(slot, j)) - 1
                           ELSE Cardinality(HoldersIn(slot, j))
    BY <1>1, <1>2, HolderDropped
  <2> QED BY <1>2, <2>1, <2>2 DEF CountIsHolders, Holders, HoldersIn
<1>9. NoDanglingPointer'
  <2> SUFFICES ASSUME NEW t \in Slots, slot'[t] # 0 PROVE fpp_rt_table'[slot'[t]].dst # None
    BY DEF NoDanglingPointer, Live
  <2>1. t # s /\ slot'[t] = slot[t] /\ slot[t] \in Ids /\ Live(slot[t])
    BY <1>1, <1>2, <1>6, MaxIdPos DEF NoDanglingPointer, FppTypeOK, Ids
  <2>2. last => slot[t] # i
    BY <1>1, <2>1, LastHolder
  <2> QED BY <1>4, <1>5, <2>1, <2>2 DEF Live
<1>10. FreeIsClean'
  BY <1>2, <1>3, <1>4, <1>5 DEF FreeIsClean, Live
<1>11. OnePerNextHop'
  BY <1>2, <1>3, <1>4, <1>5 DEF OnePerNextHop, Live, FreeEntry
<1>12. EngineTracked'
  BY <1>1, <1>2, <1>3, <1>4, <1>5 DEF EngineTracked, FreeEntry, FppTypeOK
<1> QED BY <1>7, <1>8, <1>9, <1>10, <1>11, <1>12 DEF FppInv

(* Handing a pointer over keeps the invariant.                              *)
LEMMA MoveKeeps ==
  ASSUME FppInv, NEW s \in Slots, NEW t \in Slots, FPPRouteMove(s, t)
  PROVE  FppInv'
<1>1. /\ slot[s] # 0 /\ slot[t] = 0 /\ s # t
      /\ slot' = [slot EXCEPT ![s] = 0, ![t] = slot[s]]
      /\ UNCHANGED <<fpp_rt_table, route_id, engine_rt>>
  BY DEF FPPRouteMove
<1>2. FppTypeOK
  BY DEF FppInv
<1>3. FppTypeOK'
  BY <1>1, <1>2, MaxIdPos DEF FppTypeOK
<1>4. CountIsHolders'
  BY <1>1, <1>2, HolderMoved DEF FppInv, CountIsHolders, Holders, HoldersIn
<1>5. NoDanglingPointer'
  BY <1>1, <1>2 DEF FppInv, NoDanglingPointer, FppTypeOK, Live
<1>6. FreeIsClean' /\ OnePerNextHop' /\ EngineTracked'
  BY <1>1 DEF FppInv, FreeIsClean, OnePerNextHop, EngineTracked, Live
<1> QED BY <1>3, <1>4, <1>5, <1>6 DEF FppInv

(* Every user of the table keeps the invariant.                             *)
THEOREM FppNextKeeps == FppInv /\ [FppNext]_fppVars => FppInv'
<1> SUFFICES ASSUME FppInv, [FppNext]_fppVars PROVE FppInv'
  OBVIOUS
<1>1. ASSUME NEW s \in Slots, NEW d \in Dsts, FPPRouteGet(s, d) PROVE FppInv'
  BY <1>1, GetKeeps
<1>2. ASSUME NEW s \in Slots, NEW ok \in BOOLEAN, slot[s] # 0, FeRouteAdd(slot[s], ok)
      PROVE  FppInv'
  BY <1>2, HeldIsCounted, AddKeeps
<1>3. ASSUME NEW s \in Slots, NEW ok \in BOOLEAN, FPPRouteDeregister(s, ok)
      PROVE  FppInv'
  BY <1>3, DeregisterKeeps
<1>4. ASSUME NEW s \in Slots, NEW t \in Slots, FPPRouteMove(s, t) PROVE FppInv'
  BY <1>4, MoveKeeps
<1>5. CASE UNCHANGED fppVars
  BY <1>5 DEF fppVars, FppInv, FppTypeOK, CountIsHolders, Holders,
       NoDanglingPointer, FreeIsClean, OnePerNextHop, EngineTracked, Live
<1> QED BY <1>1, <1>2, <1>3, <1>4, <1>5 DEF FppNext

(* The empty table satisfies the invariant.                                 *)
LEMMA FppInitEstablishes == FppInit => FppInv
<1> SUFFICES ASSUME FppInit PROVE FppInv
  OBVIOUS
<1>1. FppTypeOK
  BY MaxIdPos DEF FppInit, FppTypeOK, Entries, FreeEntry, Ids
<1>2. CountIsHolders
  <2> SUFFICES ASSUME NEW i \in Ids PROVE fpp_rt_table[i].count = Cardinality(Holders(i))
    BY DEF CountIsHolders
  <2>1. Holders(i) = {}
    BY DEF FppInit, Holders, Ids
  <2> QED BY <2>1, FS_EmptySet DEF FppInit, FreeEntry
<1>3. NoDanglingPointer /\ FreeIsClean /\ OnePerNextHop /\ EngineTracked
  BY DEF FppInit, NoDanglingPointer, FreeIsClean, OnePerNextHop, EngineTracked,
         FreeEntry, Live
<1> QED BY <1>1, <1>2, <1>3 DEF FppInv

(* FppInv always holds: counts are exact, pointers are live, next hops are  *)
(* shared, and CMM's record of the engine's routes is exact whatever        *)
(* commands fail.                                                           *)
THEOREM FppCorrect == FppSpec => []FppInv
BY FppInitEstablishes, FppNextKeeps, PTL DEF FppSpec
=============================================================================
