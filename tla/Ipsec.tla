------------------------------- MODULE Ipsec -------------------------------
(***************************************************************************)
(* The security associations (SAs) the kernel's key engine hands to the    *)
(* daemon, and the connections that use them (module_ipsec.c, the          *)
(* key-engine half of keytrack.c, and the part of ____cmmCtRegister in     *)
(* conntrack.c that finds a connection's SAs), as built with               *)
(* IPSEC_NO_FLOW_CACHE: conntracks then carry the handles of their SAs.    *)
(* Without that macro cmm.h turns the flow cache on, and flow entries      *)
(* carry them instead.                                                     *)
(*                                                                         *)
(* A connection carries the handles of its SAs, at most one for each slot: *)
(* a direction (originator, replier) and a side of the cipher ("in" for    *)
(* an SA that decrypts, "out" for one that encrypts).  The daemon keeps a  *)
(* pointer to the SA in the slot and links the connection into a list of   *)
(* that SA.  A connection whose SA is not there yet waits in a list of its *)
(* own, with the direction left out of the engine.                         *)
(*                                                                         *)
(* Every message of the key engine, the kernel's conntrack table and the   *)
(* route events is handled by one thread under the same locks, so each is  *)
(* one action.  The outcome of looking a route up and of each engine       *)
(* command is chosen per action.                                           *)
(***************************************************************************)
EXTENDS Integers, FiniteSets, FiniteSetsExt

CONSTANTS SAHandles,    \* the handles (sagd) of the SAs
          InboundSAs,   \* those with NLKEY_SAFLAGS_INBOUND
          SAConns,      \* the connections
          SAUses,       \* the handles a connection may come with, by slot
          TunnelSAs,    \* those in tunnel mode, which get a SET_TUNNEL
          RouteResults, \* the sets of directions whose routes may resolve
          TunnelRoutes  \* identifiers of engine routes (not 0)

VARIABLES saTable,      \* the SA table (sa_table)
          saConn,       \* the conntrack entries, with what concerns SAs
          saEngine      \* the engine: connection -> entry, SA -> tunnel route
                        \* (Absent for an SA it does not have)

saVars == <<saTable, saConn, saEngine>>

SADirs == {"orig", "rep"}
SASides == {"in", "out"}
SASlots == SADirs \X SASides

(* Slot values other than a handle: no SA, and more than one SA for a slot. *)
ASSUME SAAssumption ==
  /\ InboundSAs \subseteq SAHandles
  /\ {"none", "many"} \cap SAHandles = {}
  /\ SAUses \subseteq [SASlots -> SAHandles \cup {"none", "many"}]
  /\ TunnelSAs \subseteq SAHandles
  /\ RouteResults \subseteq SUBSET SADirs
  /\ \A u \in SAUses, d \in SADirs :
       /\ u[<<d, "in">>] \in InboundSAs \cup {"none", "many"}
       /\ u[<<d, "out">>] \notin InboundSAs

Absent == -1

SideOf(h) == IF h \in InboundSAs THEN "in" ELSE "out"

Unlinked == [k \in SASlots |-> "none"]

(* No entry.  An SA: SA_DELETE, whether it is valid and the engine agreed,  *)
(* whether its tunnel is known, the engine route of it and whether the      *)
(* engine has still to hear of that.  A connection: the handles of its      *)
(* conntrack (use), the SA pointers (ptr), the list nodes (node), the       *)
(* directions without an SA (lacks), whether it is in ct_flow_no_sa_list,   *)
(* the directions asked for (dir) and last computed (fpp), FPP_PROGRAMMED   *)
(* and FPP_NEEDS_UPDATE.                                                    *)
NoSA == [in |-> FALSE]
NewSA == [in |-> TRUE, dying |-> FALSE, taken |-> FALSE,
          tunnel |-> FALSE, rid |-> 0, owed |-> FALSE]

NoConn == [in |-> FALSE]
NewConn(u, d) == [in |-> TRUE, use |-> u, ptr |-> Unlinked, node |-> Unlinked,
                  lacks |-> {}, waits |-> FALSE, dir |-> d, fpp |-> {},
                  prog |-> FALSE, needs |-> FALSE]

SAInit ==
  /\ saTable = [h \in SAHandles |-> NoSA]
  /\ saConn = [c \in SAConns |-> NoConn]
  /\ saEngine = [ct |-> [c \in SAConns |-> [in |-> FALSE]],
                 tnl |-> [h \in SAHandles |-> Absent]]

-----------------------------------------------------------------------------
(* __cmm_ct_get_SA leaves a slot alone if it needs no SA or already points  *)
(* to its SA, and cmm_ct_fill_ipsec_info leaves the slots of a direction    *)
(* with several SAs alone.                                                  *)
ManySAs(e) == {d \in SADirs : \E s \in SASides : e.use[<<d, s>>] = "many"}
LeftAlone(e) ==
  {k \in SASlots : k[1] \in ManySAs(e) \/ e.use[k] \in {"none", e.ptr[k]}}

(* A bug to compare with: a missing SA is not looked out for.               *)
WithoutSANone(T, e) == {}

(* The slots whose SA is missing or marked SA_DELETE.                       *)
WithoutSA(T, e) ==
  {k \in SASlots \ LeftAlone(e) : ~ T[e.use[k]].in \/ T[e.use[k]].dying}

Secure(e) == \E k \in SASlots : e.use[k] # "none"

(* The IPsec block of ____cmmCtRegister: the slots are pointed to their SAs *)
(* or emptied (a slot that pointed to another SA is unlinked first), and    *)
(* flags and waiting list are rebuilt; a direction with several SAs is not  *)
(* offloaded.                                                               *)
FillIpsec(T, e) ==
  LET alone == LeftAlone(e)
      without == WithoutSA(T, e)
      lacks == ManySAs(e) \cup {k[1] : k \in without}
  IN  IF ~ Secure(e) THEN e
      ELSE [e EXCEPT
              !.ptr = [k \in SASlots |-> IF k \in alone THEN @[k]
                                         ELSE IF k \in without THEN "none" ELSE e.use[k]],
              !.node = [k \in SASlots |-> IF k \in alone THEN @[k]
                                          ELSE IF k \notin without THEN e.use[k]
                                          ELSE IF e.ptr[k] = "none" THEN @[k] ELSE "none"],
              !.lacks = lacks,
              !.waits = lacks # {}]

(* What a command to the engine says of a connection: for each direction    *)
(* that is on, the SAs its pointers name (none when the direction lacks one)*)
SACommand(e) ==
  [in |-> TRUE,
   dirs |-> [d \in e.fpp |-> {e.ptr[<<d, s>>] : s \in SASides} \ {"none"}]]

(* cmmFeCtUpdate(ADD|UPDATE or UPDATE): what is sent, if anything.          *)
Sends(e) == IF e.prog THEN e.needs ELSE e.fpp # {}

(* ____cmmCtRegister on an entry and the engine's copy of it.  o.routed are *)
(* the directions whose routes resolve, o.ok is the engine's answer.        *)
CtRegistered(T, p, o) ==
  LET e == FillIpsec(T, p.e)
      dir == (e.dir \cap o.routed) \ e.lacks
      f == [e EXCEPT !.needs = @ \/ e.fpp # dir, !.fpp = dir]
  IN  IF Sends(f) /\ o.ok
      THEN [e |-> [f EXCEPT !.prog = TRUE, !.needs = FALSE], fe |-> SACommand(f)]
      ELSE [e |-> f, fe |-> p.fe]

Outcome == [routed : RouteResults, ok : BOOLEAN]
Outcomes == [SAConns -> Outcome]

Pair(C, E, c) == [e |-> C[c], fe |-> E.ct[c]]

-----------------------------------------------------------------------------
(* cmmUpdateFlows for one connection: for each direction in whose list of   *)
(* the SA it is, the pointer is cleared, the node unlinked, the connection  *)
(* registered again.                                                        *)
LetGo(T, p, h, d, o) ==
  LET k == <<d, SideOf(h)>>
  IN  IF p.e.in /\ p.e.node[k] = h
      THEN CtRegistered(T, [p EXCEPT !.e.needs = TRUE, !.e.ptr[k] = "none",
                                     !.e.node[k] = "none"], o)
      ELSE p

(* A bug to compare with: the list of the reply direction is forgotten.     *)
UpdateFlowOrig(T, p, h, o) == LetGo(T, p, h, "orig", o)

UpdateFlow(T, p, h, o) ==
  LET q == LetGo(T, p, h, "orig", o) IN LetGo(T, q, h, "rep", o)

(* The whole state as one record: what the handlers below transform.        *)
SAState == [T |-> saTable, C |-> saConn, E |-> saEngine]

SABecomes(s) == saTable' = s.T /\ saConn' = s.C /\ saEngine' = s.E

UpdateFlows(s, h, O) ==
  LET q == [c \in SAConns |-> UpdateFlow(s.T, Pair(s.C, s.E, c), h, O[c])]
  IN  [s EXCEPT !.C = [c \in SAConns |-> q[c].e],
                !.E.ct = [c \in SAConns |-> q[c].fe]]

(* The common end of SA_DELETE, of SA_STATE_DYING and of each turn of       *)
(* cmmSAFlush: mark, take the connections off, __cmmSARemove.               *)
SARemoved(s, h, O) ==
  LET m == UpdateFlows([s EXCEPT !.T[h].dying = TRUE], h, O)
  IN  [m EXCEPT !.T[h] = NoSA]

-----------------------------------------------------------------------------
(* FPP_CMD_NETKEY_SA_ADD: cmmSACreate, then the engine.  The entry stays    *)
(* whatever the engine says.  The kernel hands a handle out again only after*)
(* SA_DELETE.                                                               *)
SACreate(h, ok) ==
  /\ ~ saTable[h].in
  /\ saEngine.tnl[h] = Absent
  /\ saTable' = [saTable EXCEPT ![h] = NewSA]
  /\ saEngine' = IF ok THEN [saEngine EXCEPT !.tnl[h] = 0] ELSE saEngine
  /\ UNCHANGED saConn

(* FPP_CMD_NETKEY_SA_DELETE: cmmSADelete, which may not find the SA (it was *)
(* removed when it was dying), then the engine in any case.                 *)
SADelete(h) ==
  /\ saTable[h].in \/ saEngine.tnl[h] # Absent
  /\ \E O \in Outcomes :
       LET s == IF saTable[h].in THEN SARemoved(SAState, h, O) ELSE SAState
       IN  SABecomes([s EXCEPT !.E.tnl[h] = Absent])

(* FPP_CMD_NETKEY_SA_FLUSH: the engine first, then cmmSAFlush over the table*)
SAFlush ==
  /\ \E h \in SAHandles : saTable[h].in \/ saEngine.tnl[h] # Absent
  /\ \E O \in Outcomes :
       SABecomes(FoldSet(LAMBDA h, s : SARemoved(s, h, O),
                         [SAState EXCEPT !.E.tnl = [h \in SAHandles |-> Absent]],
                         {h \in SAHandles : saTable[h].in}))

(* cmmReplaceXfrmHandle on the conntracks in the lists of the old SA.       *)
ReplaceHandle(e, old, new) ==
  IF e.in /\ \E d \in SADirs : e.node[<<d, SideOf(old)>>] = old
  THEN [e EXCEPT !.use = [k \in SASlots |-> IF @[k] = old THEN new ELSE @[k]]]
  ELSE e

(* cmmUpdateFlowsWithNewSAInfo: the connections of a rekeyed SA move over.  *)
Rekeyed(s, parent, h, O) ==
  IF parent \in SAHandles /\ s.T[parent].in
  THEN UpdateFlows([s EXCEPT !.C = [c \in SAConns |-> ReplaceHandle(s.C[c], parent, h)]],
                   parent, O)
  ELSE s

(* A bug to compare with: no waiting connection is ever found.              *)
HasNoHandle(e, h) == FALSE

(* cmmCheckIfCtEntryWithSGID looks at the first MAX_SAs_INFO_PER_DIR_IN_NL_ *)
(* MSG handles of each direction: the inbound ones.                         *)
HasHandle(e, h) == \E d \in SADirs : e.use[<<d, "in">>] = h

(* cmmUpdateCtEntriesInFlowNoSAList: the waiting connections of this SA.    *)
UpdateWaiting(s, h, O) ==
  LET q == [c \in SAConns |->
              IF s.C[c].in /\ s.C[c].waits /\ HasHandle(s.C[c], h)
              THEN CtRegistered(s.T, [Pair(s.C, s.E, c) EXCEPT !.e.needs = TRUE], O[c])
              ELSE Pair(s.C, s.E, c)]
  IN  [s EXCEPT !.C = [c \in SAConns |-> q[c].e],
                !.E.ct = [c \in SAConns |-> q[c].fe]]

(* FPP_CMD_NETKEY_SA_SET_STATE to VALID, with the SA it replaces or none:   *)
(* cmmSASetState, the engine, then the waiting connections (under the locks *)
(* a second time, but by the only thread that changes an SA).               *)
SASetValid(h, parent, taken) ==
  /\ saTable[h].in
  /\ taken => saEngine.tnl[h] # Absent
  /\ parent # h
  /\ parent \in SAHandles => SideOf(parent) = SideOf(h)
  /\ \E O \in Outcomes :
       LET s == Rekeyed([SAState EXCEPT !.T[h].taken = taken], parent, h, O)
       IN  SABecomes(IF taken THEN UpdateWaiting(s, h, O) ELSE s)

(* The same to DYING.  The engine keeps the SA until it is deleted.         *)
SASetDying(h) ==
  /\ saTable[h].in
  /\ \E O \in Outcomes : SABecomes(SARemoved(SAState, h, O))

-----------------------------------------------------------------------------
(* A bug to compare with: a refused command is not repeated.                *)
TunnelRegisteredOnce(s, h, rid, ok) ==
  LET owed == s.T[h].rid # rid
  IN  [s EXCEPT !.T[h].rid = rid,
                !.T[h].owed = owed /\ ~ ok,
                !.E.tnl[h] = IF owed /\ ok THEN rid ELSE @]

(* __cmmSATunnelRegister: rid is the engine route found (0 for none).  The  *)
(* engine is told when the identifier changed or was not taken last time.   *)
TunnelRegistered(s, h, rid, ok) ==
  LET owed == s.T[h].owed \/ s.T[h].rid # rid
  IN  [s EXCEPT !.T[h].rid = rid,
                !.T[h].owed = owed /\ ~ ok,
                !.E.tnl[h] = IF owed /\ ok THEN rid ELSE @]

(* FPP_CMD_NETKEY_SA_SET_TUNNEL: taken by the engine, then cmmSASetTunnel.  *)
SASetTunnel(h, rid, ok) ==
  /\ saTable[h].in
  /\ saEngine.tnl[h] # Absent
  /\ SABecomes(TunnelRegistered([SAState EXCEPT !.T[h].tunnel = TRUE], h, rid, ok))

(* __cmmSARouteUpdate (the route of the tunnel changed or lost its          *)
(* neighbour) and the search for SAs that a new route serves.               *)
SARouteUpdate(h, rid, ok) ==
  /\ saTable[h].in
  /\ saTable[h].tunnel
  /\ SABecomes(TunnelRegistered(SAState, h, rid, ok))

-----------------------------------------------------------------------------
(* __cmmCtRegister: the first event of a connection, and the later ones,    *)
(* which keep the conntrack of the first.                                   *)
CtRegister(c, e, o) ==
  LET r == CtRegistered(saTable, [e |-> e, fe |-> saEngine.ct[c]], o)
  IN  /\ saConn' = [saConn EXCEPT ![c] = r.e]
      /\ saEngine' = [saEngine EXCEPT !.ct[c] = r.fe]
      /\ UNCHANGED saTable

CtNew(c, d, o) ==
  /\ ~ saConn[c].in
  /\ \E u \in SAUses : CtRegister(c, NewConn(u, d), o)

CtEvent(c, d, o) ==
  /\ saConn[c].in
  /\ CtRegister(c, [saConn[c] EXCEPT !.dir = d], o)

(* ____cmmCtDeregister and __cmmCtRemove: the entry goes with its nodes when*)
(* the engine lets it go.                                                   *)
CtDeregister(c, ok) ==
  /\ saConn[c].in
  /\ ok \/ saConn[c].prog
  /\ saConn' = IF ok THEN [saConn EXCEPT ![c] = NoConn] ELSE saConn
  /\ saEngine' = IF ok THEN [saEngine EXCEPT !.ct[c] = [in |-> FALSE]] ELSE saEngine
  /\ UNCHANGED saTable

-----------------------------------------------------------------------------
Asked == {{"orig"}, SADirs}
RouteIds == TunnelRoutes \cup {0}

SANext ==
  \/ SAFlush
  \/ \E h \in SAHandles :
       \/ \E ok \in BOOLEAN : SACreate(h, ok)
       \/ SADelete(h)
       \/ SASetDying(h)
       \/ \E parent \in SAHandles \cup {"none"}, taken \in BOOLEAN :
            SASetValid(h, parent, taken)
  \/ \E h \in TunnelSAs, rid \in RouteIds, ok \in BOOLEAN :
       SASetTunnel(h, rid, ok) \/ SARouteUpdate(h, rid, ok)
  \/ \E c \in SAConns :
       \/ \E d \in Asked, o \in Outcome :
            CtNew(c, d, o) \/ CtEvent(c, d, o)
       \/ \E ok \in BOOLEAN : CtDeregister(c, ok)

SASpec == SAInit /\ [][SANext]_saVars

-----------------------------------------------------------------------------
(* No connection points to an SA that was freed, and the lists the SAs are  *)
(* removed through name exactly the connections that point to them          *)
(* (cmmUpdateFlows finds a connection by its node and clears the pointer of *)
(* the same slot; __cmmSARemove frees the SA right after).                  *)
SAPointersLive ==
  \A c \in SAConns : saConn[c].in =>
    \A k \in SASlots :
      /\ saConn[c].ptr[k] = saConn[c].node[k]
      /\ saConn[c].ptr[k] # "none" => saTable[saConn[c].ptr[k]].in

(* Traffic that the kernel would protect is never fast-forwarded in clear   *)
(* or with the wrong SA: a direction that is on in the engine uses exactly  *)
(* the SAs of the connection's handles, and these are in the table, unless  *)
(* the engine refused the last update (____cmmCtRegister with               *)
(* cmm_ct_fill_ipsec_info and the CT_SECURE part of cmmFeCtUpdate).         *)
SecuredAsKernel ==
  \A c \in SAConns : saConn[c].in /\ saEngine.ct[c].in /\ ~ saConn[c].needs =>
    \A d \in DOMAIN saEngine.ct[c].dirs :
      /\ saEngine.ct[c].dirs[d] =
           {saConn[c].use[<<d, s>>] : s \in SASides} \ {"none"}
      /\ \A h \in saEngine.ct[c].dirs[d] : h \in SAHandles /\ saTable[h].in

(* The engine's tunnel route of an SA is the one the daemon holds, unless   *)
(* the command is still owed (FPP_NEEDS_UPDATE in __cmmSATunnelRegister).   *)
TunnelRouteTold ==
  \A h \in SAHandles :
    saTable[h].in /\ ~ saTable[h].owed /\ saEngine.tnl[h] # Absent =>
      saEngine.tnl[h] = saTable[h].rid

(* "When there is any new SA is established, check if ctEntry is having any *)
(* matching sgid with new SA's sgid" (conntrack.c): no connection is left   *)
(* waiting once all of its SAs are valid and taken by the engine            *)
(* (cmmUpdateCtEntriesInFlowNoSAList after each SET_STATE).                 *)
WaitingServed ==
  \A c \in SAConns : saConn[c].in /\ saConn[c].waits =>
    \E k \in SASlots :
      LET h == saConn[c].use[k]
      IN  h # "none" /\ (h \in SAHandles => ~ (saTable[h].in /\ saTable[h].taken))

(* The part of it that holds: a connection that only receives protected     *)
(* traffic is served.                                                       *)
InboundServed ==
  \A c \in SAConns :
    saConn[c].in /\ (\A d \in SADirs : saConn[c].use[<<d, "out">>] = "none")
      /\ saConn[c].waits =>
    \E k \in SASlots :
      LET h == saConn[c].use[k]
      IN  h # "none" /\ (h \in SAHandles => ~ (saTable[h].in /\ saTable[h].taken))

(* What the daemon owes an SA is delivered: its tunnel route to the engine, *)
(* and the connections that waited for it.                                  *)
SAsServed == TunnelRouteTold /\ InboundServed
=============================================================================
