----------------------------- MODULE FppRoutes -----------------------------
(***************************************************************************)
(* The table of fast-path routes (struct fpp_rt of route_cache.c) and the   *)
(* route table of the forward engine it mirrors.                            *)
(*                                                                         *)
(* An fpp_rt is a next hop (output and input interface, MAC address, MTU)   *)
(* shared by every connection leg, tunnel and socket that forwards to it.   *)
(* Each holder has a pointer to it (the fpp_route field of a struct         *)
(* ct_route) and the entry counts its holders.  The first user programs the *)
(* next hop in the forward engine under a 16-bit identifier, the last one   *)
(* removes it.  A live entry owns its identifier until it is freed, so the  *)
(* identifier stands for the pointer in this model and 0 is NULL.           *)
(***************************************************************************)
EXTENDS Integers, FiniteSets

CONSTANTS
  Slots,   \* the places that can hold an fpp_rt pointer
  Dsts,    \* next hops: the lookup key of __cmmFPPRouteFind
  MaxId,   \* ROUTE_MAX_ID - 1, the largest identifier
  None     \* no next hop: a free entry

ASSUME SlotsFinite == IsFiniteSet(Slots)
ASSUME NoneNotDst == None \notin Dsts
ASSUME MaxIdPos == MaxId \in Nat \ {0}

VARIABLES
  fpp_rt_table,  \* the entries, by identifier
  route_id,      \* the last identifier handed out
  slot,          \* who points to which entry (0: NULL)
  engine_rt      \* the forward engine's route table

fppVars == <<fpp_rt_table, route_id, slot, engine_rt>>

Ids == 1..MaxId

FreeEntry == [dst |-> None, count |-> 0, prog |-> FALSE]

Live(i) == fpp_rt_table[i].dst # None

FppInit ==
  /\ fpp_rt_table = [i \in Ids |-> FreeEntry]
  /\ route_id = 0
  /\ slot = [s \in Slots |-> 0]
  /\ engine_rt = [i \in Ids |-> None]

----------------------------------------------------------------------------
(* __cmmFPPRouteFind: the entries with next hop d.                          *)
FPPRouteFind(d) == {i \in Ids : fpp_rt_table[i].dst = d}

(* How far new_route_id has to count from route_id to reach i: it starts    *)
(* after the last identifier and wraps to 1.                                *)
Distance(i) == IF i > route_id THEN i - route_id ELSE i - route_id + MaxId

(* new_route_id: the first unused identifier after route_id.  When every    *)
(* identifier is in use the set is empty and the caller never returns.      *)
NewRouteId ==
  LET unused == {i \in Ids : ~ Live(i)}
  IN  {i \in unused : \A j \in unused : Distance(i) <= Distance(j)}

(* A bug to compare with: a shared entry is not counted.                    *)
FPPRouteGetUncounted(s, d) ==
  /\ slot[s] = 0
  /\ \/ \E i \in FPPRouteFind(d) :
          /\ slot' = [slot EXCEPT ![s] = i]
          /\ UNCHANGED <<fpp_rt_table, route_id>>
     \/ /\ FPPRouteFind(d) = {}
        /\ \E i \in NewRouteId :
             /\ fpp_rt_table' = [fpp_rt_table EXCEPT ![i] =
                                   [dst |-> d, count |-> 1, prog |-> FALSE]]
             /\ slot' = [slot EXCEPT ![s] = i]
             /\ route_id' = i
  /\ UNCHANGED engine_rt

(* __cmmFPPRouteGet into the empty slot s: share the entry for d, or add    *)
(* one.                                                                     *)
FPPRouteGet(s, d) ==
  /\ slot[s] = 0
  /\ \/ \E i \in FPPRouteFind(d) :
          /\ fpp_rt_table' = [fpp_rt_table EXCEPT ![i].count = @ + 1]
          /\ slot' = [slot EXCEPT ![s] = i]
          /\ UNCHANGED route_id
     \/ /\ FPPRouteFind(d) = {}
        /\ \E i \in NewRouteId :
             /\ fpp_rt_table' = [fpp_rt_table EXCEPT ![i] =
                                   [dst |-> d, count |-> 1, prog |-> FALSE]]
             /\ slot' = [slot EXCEPT ![s] = i]
             /\ route_id' = i
  /\ UNCHANGED engine_rt

(* cmmFeRouteUpdate(ADD | UPDATE): nothing to send for a programmed entry   *)
(* (FPP_NEEDS_UPDATE is never set on a route), else REGISTER.  The engine   *)
(* answers ALREADY_REGISTERED when it has the identifier, and that answer   *)
(* counts as success.  ok is FALSE when the command fails.                  *)
FeRouteAdd(i, ok) ==
  /\ IF fpp_rt_table[i].prog \/ ~ ok
     THEN UNCHANGED <<fpp_rt_table, engine_rt>>
     ELSE /\ fpp_rt_table' = [fpp_rt_table EXCEPT ![i].prog = TRUE]
          /\ engine_rt' = IF engine_rt[i] = None
                          THEN [engine_rt EXCEPT ![i] = fpp_rt_table[i].dst]
                          ELSE engine_rt
  /\ UNCHANGED <<route_id, slot>>

(* An entry with one holder less.                                           *)
Fewer(e) == [e EXCEPT !.count = @ - 1]

(* A bug to compare with: the entry is freed although its removal from the  *)
(* engine failed.                                                           *)
FPPRouteDeregisterForgets(s, ok) ==
  LET i == slot[s]
      last == fpp_rt_table[i].count = 1
      removed == last /\ fpp_rt_table[i].prog /\ ok
  IN  /\ i # 0
      /\ slot' = [slot EXCEPT ![s] = 0]
      /\ engine_rt' = IF removed THEN [engine_rt EXCEPT ![i] = None]
                                 ELSE engine_rt
      /\ fpp_rt_table' = [fpp_rt_table EXCEPT ![i] =
                            IF last THEN FreeEntry
                            ELSE Fewer(@)]
      /\ UNCHANGED route_id

(* __cmmFPPRouteDeregister of the entry in slot s: the last holder sends    *)
(* the removal.  If that fails the entry stays in the table, unused, with   *)
(* its identifier: it still describes the state of the engine.              *)
FPPRouteDeregister(s, ok) ==
  LET i == slot[s]
      last == fpp_rt_table[i].count = 1
      sent == last /\ fpp_rt_table[i].prog
  IN  /\ i # 0
      /\ slot' = [slot EXCEPT ![s] = 0]
      /\ engine_rt' = IF sent /\ ok THEN [engine_rt EXCEPT ![i] = None]
                                    ELSE engine_rt
      /\ fpp_rt_table' = [fpp_rt_table EXCEPT ![i] =
                            IF last /\ (sent => ok) THEN FreeEntry
                            ELSE Fewer(@)]
      /\ UNCHANGED route_id

(* A bug to compare with: the former route is released first.               *)
FPPRouteMoveBreaks(s, t) == FPPRouteDeregister(s, TRUE)

(* A pointer copied into a local variable, the original set to NULL, as the *)
(* update handlers do before they register the leg again.                   *)
FPPRouteMove(s, t) ==
  /\ slot[s] # 0
  /\ slot[t] = 0
  /\ slot' = [slot EXCEPT ![s] = 0, ![t] = slot[s]]
  /\ UNCHANGED <<fpp_rt_table, route_id, engine_rt>>

----------------------------------------------------------------------------
(* The most general user of the table.                                      *)
FppNext ==
  \/ \E s \in Slots, d \in Dsts : FPPRouteGet(s, d)
  \/ \E s \in Slots, ok \in BOOLEAN : slot[s] # 0 /\ FeRouteAdd(slot[s], ok)
  \/ \E s \in Slots, ok \in BOOLEAN : FPPRouteDeregister(s, ok)
  \/ \E s, t \in Slots : FPPRouteMove(s, t)

FppSpec == FppInit /\ [][FppNext]_fppVars

----------------------------------------------------------------------------
Entries == [dst : Dsts \cup {None}, count : Nat, prog : BOOLEAN]

FppTypeOK ==
  /\ fpp_rt_table \in [Ids -> Entries]
  /\ route_id \in 0..MaxId
  /\ slot \in [Slots -> 0..MaxId]
  /\ engine_rt \in [Ids -> Dsts \cup {None}]

Holders(i) == {s \in Slots : slot[s] = i}

(* The count of an entry is the number of pointers to it (__cmmFPPRouteGet, *)
(* __cmmFPPRoutePut): a lower count frees the route under a connection, a   *)
(* higher one keeps the next hop in the engine for ever.                    *)
CountIsHolders ==
  \A i \in Ids : fpp_rt_table[i].count = Cardinality(Holders(i))

(* No pointer outlives its entry: whoever holds a route holds a live one.   *)
NoDanglingPointer == \A s \in Slots : slot[s] # 0 => Live(slot[s])

(* A free entry has no trace left.                                          *)
FreeIsClean == \A i \in Ids : ~ Live(i) => fpp_rt_table[i] = FreeEntry

(* One entry per next hop: __cmmFPPRouteGet shares, it never duplicates.    *)
OnePerNextHop ==
  \A i, j \in Ids : /\ Live(i)
                    /\ fpp_rt_table[i].dst = fpp_rt_table[j].dst
                    => i = j

(* CMM knows exactly what the engine holds: a route is in the engine if and *)
(* only if an entry with its identifier is marked FPP_PROGRAMMED, with the  *)
(* same next hop, whatever commands fail.  An identifier is never reused    *)
(* while the engine still has its former route.                             *)
EngineTracked ==
  \A i \in Ids : engine_rt[i] = IF fpp_rt_table[i].prog
                                THEN fpp_rt_table[i].dst ELSE None

FppInv ==
  /\ FppTypeOK
  /\ CountIsHolders
  /\ NoDanglingPointer
  /\ FreeIsClean
  /\ OnePerNextHop
  /\ EngineTracked
=============================================================================
