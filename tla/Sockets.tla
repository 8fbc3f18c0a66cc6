------------------------------ MODULE Sockets ------------------------------
(***************************************************************************)
(* Local sockets (module_socket.c) and the L2TP sessions that own one       *)
(* (module_l2tp.c).  A socket has an identifier: a client chooses one above *)
(* the private range, a session takes a private one from a bitmap.  A       *)
(* session interface points to its socket; sockets have no reference count. *)
(* Every handler holds itf_table.lock and socket_lock, so it is one step.   *)
(* Using a pointer to a freed socket is undefined: the model stops there.   *)
(***************************************************************************)
EXTENDS Integers, FiniteSets

CONSTANTS
    NumInternal,    \* NUM_INTERNAL_SOCKET_ID: the private identifiers are 1..NumInternal
    ClientIds,      \* the identifiers clients use
    ClientTypes,    \* the types of the sockets clients open
    Addrs,          \* the address tuples of sockets
    Sessions        \* names of L2TP interfaces

ASSUME SockAssumption ==
    /\ NumInternal \in Nat \ {0}
    /\ ClientIds \subseteq Nat /\ \A n \in ClientIds : n > NumInternal
    /\ ClientTypes \subseteq {"lanwan", "other"} /\ Addrs # {}

VARIABLES
    sock,           \* socket_table, by identifier
    used,           \* internal_sock_ids: the private identifiers taken
    cursor,         \* internal_sock_id, counted from 0
    ses,            \* the L2TP side of the interfaces
    feSock,         \* sockets of the engine
    feSes,          \* L2TP interfaces of the engine
    dangling,       \* sessions whose socket was freed by someone else
    shared,         \* sessions that took a socket somebody had already
    wasReset,       \* the last step was cmmFeReset
    refusedSes      \* sessions whose removal the engine refused

sockVars == <<sock, used, cursor, ses, feSock, feSes, dangling, shared, wasReset, refusedSes>>

Private == 1..NumInternal
Ids == Private \cup ClientIds

(* struct socket.  filed is the address under which list_by_addr has it;    *)
(* needs is NEEDS_UPDATE of a programmed socket, nobody looks at another's. *)
Socket == [in : {TRUE}, type : {"lanwan", "l2tp", "other"}, addr : Addrs, filed : Addrs,
           prog : BOOLEAN, needs : BOOLEAN]
NewSocket(type, a) == [in |-> TRUE, type |-> type, addr |-> a, filed |-> a,
                       prog |-> FALSE, needs |-> FALSE]
NoSocket == [in |-> FALSE]

(* What struct interface says of a session; ptr is l2tp.sock, 0 for NULL.   *)
Session == [up : BOOLEAN, prog : BOOLEAN, user : BOOLEAN, l2tp : BOOLEAN, ptr : Ids \cup {0}]
NoSession == [up |-> FALSE, prog |-> FALSE, user |-> FALSE, l2tp |-> FALSE, ptr |-> 0]

(* The state a handler passes on.                                           *)
SockState == [k |-> sock, used |-> used, ses |-> ses, feSock |-> feSock, feSes |-> feSes,
              dangling |-> dangling, refused |-> refusedSes, shared |-> shared]

SockBecomes(S) ==
    /\ sock' = S.k /\ used' = S.used /\ ses' = S.ses
    /\ feSock' = S.feSock /\ feSes' = S.feSes
    /\ dangling' = S.dangling /\ refusedSes' = S.refused \cap S.feSes
    /\ shared' = {i \in S.shared : S.ses[i].ptr # 0}

(* new_socket_id: the first free identifier from the cursor on, around the  *)
(* range once.  0 when there is none.                                       *)
FreeSteps(u) == {d \in 0..(NumInternal - 1) : ((cursor + d) % NumInternal) + 1 \notin u}

NewSocketId(u) ==
    IF FreeSteps(u) = {} THEN 0
    ELSE ((cursor + (CHOOSE d \in FreeSteps(u) : \A c \in FreeSteps(u) : d <= c)) % NumInternal) + 1

(* socket_find_by_addr: the bucket and the address must both fit.           *)
FindByAddr(k, a) == {n \in Ids : k[n].in /\ k[n].addr = a /\ k[n].filed = a}

(* socket_send_cmd for ADD | UPDATE; the engine rejects an identifier it    *)
(* has and an update of one it has not.                                     *)
SendOk(S, n, ok) == \/ S.k[n].prog /\ ~S.k[n].needs
                    \/ ok /\ (S.k[n].prog <=> n \in S.feSock)
SocketSend(S, n, ok) ==
    IF SendOk(S, n, ok)
    THEN [S EXCEPT !.k[n].prog = TRUE, !.k[n].needs = FALSE, !.feSock = @ \cup {n}] ELSE S

(* __socket_open: a socket without a route is programmed all the same; an   *)
(* engine route with another identifier than the engine knows (moved) needs *)
(* an update.                                                               *)
SocketRouted(S, n, moved) ==
    [S EXCEPT !.k[n].needs = @ \/ (moved /\ S.k[n].prog /\ S.k[n].type \in {"lanwan", "l2tp"})]

SocketOpenStep(S, n, ans) == SocketSend(SocketRouted(S, n, ans.moved), n, ans.ok)
SocketOpened(S, n, ans) == SendOk(SocketRouted(S, n, ans.moved), n, ans.ok)

(* Wrong: the identifier is not given back.                                 *)
SocketRemoveKeepsId(S, n, by) ==
    [S EXCEPT !.k[n] = NoSocket,
              !.dangling = @ \cup {i \in Sessions \ by : S.ses[i].ptr = n}]
(* socket_remove: by are the sessions whose pointer the caller clears.      *)
SocketRemove(S, n, by) ==
    [S EXCEPT !.k[n] = NoSocket, !.used = @ \ {n},
              !.dangling = @ \cup {i \in Sessions \ by : S.ses[i].ptr = n}]

(* Wrong: an engine that refuses is taken to have obeyed.                   *)
SocketCloseForgets(S, n, by, ok) ==
    SocketRemove([S EXCEPT !.feSock = IF ok THEN @ \ {n} ELSE @], n, by)
(* __socket_close: an engine that refuses to let go keeps the socket.       *)
SocketCloseStep(S, n, by, ok) ==
    IF S.k[n].prog /\ ~ok THEN S
    ELSE SocketRemove([S EXCEPT !.feSock = @ \ {n}], n, by)

(* Only a socket the engine has can be found to have moved.                 *)
SockAnswers(prog) == [ok : BOOLEAN, moved : {FALSE, prog}]

(***************************************************************************)
(* The commands of a client on its own sockets.                             *)
(***************************************************************************)
(* CMMD_CMD_SOCKET_OPEN: opening an open socket changes nothing.            *)
SocketOpen(n, type, a) ==
    /\ ~sock[n].in
    /\ \E ans \in SockAnswers(FALSE) :
          LET S == [SockState EXCEPT !.k[n] = NewSocket(type, a)]
              open == SocketOpenStep(S, n, ans)
          IN  SockBecomes(IF SocketOpened(S, n, ans) THEN open
                          ELSE SocketCloseStep(open, n, {}, FALSE))
    /\ UNCHANGED cursor

(* CMMD_CMD_SOCKET_UPDATE: a new source address means a new route; the list *)
(* by address is left as it was.                                            *)
SocketUpdate(n, a) ==
    /\ sock[n].in
    /\ \E ans \in SockAnswers(sock[n].prog) :
          SockBecomes(SocketOpenStep([SockState EXCEPT !.k[n].addr = a, !.k[n].needs = sock[n].prog], n, ans))
    /\ UNCHANGED cursor

(* CMMD_CMD_SOCKET_CLOSE.                                                   *)
SocketClose(n) ==
    /\ sock[n].in
    /\ \E ok \in BOOLEAN : SockBecomes(SocketCloseStep(SockState, n, {}, ok))
    /\ UNCHANGED cursor

(***************************************************************************)
(* L2TP sessions.                                                           *)
(***************************************************************************)
(* l2tp_itf_add.  The engine knows sessions by the name of the interface.   *)
AddOk(S, i, ok) == /\ S.ses[i].up /\ S.ses[i].user /\ S.ses[i].ptr # 0
                   /\ S.ses[i].prog \/ (ok /\ i \notin S.feSes)
L2tpItfAdd(S, i, ok) ==
    IF AddOk(S, i, ok) /\ ~S.ses[i].prog
    THEN [S EXCEPT !.ses[i].prog = TRUE, !.feSes = @ \cup {i}] ELSE S

(* __l2tp_itf_del: only FPP_ERR_OK clears the flag.                         *)
L2tpItfDelEngine(S, i, ok) ==
    CASE ~S.ses[i].prog -> S
      [] S.ses[i].prog /\ ok /\ i \in S.feSes ->
            [S EXCEPT !.ses[i].prog = FALSE, !.feSes = @ \ {i}]
      [] OTHER -> [S EXCEPT !.refused = @ \cup ({i} \cap S.feSes)]

(* Wrong: the socket is closed first and a session still in the engine is   *)
(* left without one.                                                        *)
L2tpItfDelSocketOnly(S, i, ans) ==
    IF S.ses[i].ptr = 0 THEN S
    ELSE [SocketCloseStep(S, S.ses[i].ptr, {i}, ans.closed)
             EXCEPT !.ses[i].ptr = 0, !.ses[i].user = FALSE, !.ses[i].l2tp = FALSE]
(* l2tp_itf_del: the engine is asked to remove the interface and to close   *)
(* the socket, and may refuse either; the pointer is dropped whatever it    *)
(* answered.                                                                *)
DelAnswers == [del : BOOLEAN, closed : BOOLEAN]
L2tpItfDel(S, i, ans) ==
    LET S1 == L2tpItfDelEngine(S, i, ans.del) IN
    IF S1.ses[i].ptr = 0 THEN S1
    ELSE [SocketCloseStep(S1, S1.ses[i].ptr, {i}, ans.closed)
             EXCEPT !.ses[i].ptr = 0, !.ses[i].user = FALSE, !.ses[i].l2tp = FALSE]

(* The interface is added, then the socket opened; if that fails, the       *)
(* interface is removed again, if the engine lets it.                       *)
SessionOpen(S, i, n) ==
    \E ok \in BOOLEAN :
       \/ /\ ~AddOk(S, i, ok)
          /\ SockBecomes([S EXCEPT !.ses[i].user = FALSE])
       \/ /\ AddOk(S, i, ok)
          /\ \E ans \in SockAnswers(S.k[n].prog) :
                LET added == L2tpItfAdd(S, i, ok) IN
                \/ /\ SocketOpened(added, n, ans)
                   /\ SockBecomes(SocketOpenStep(added, n, ans))
                \/ /\ ~SocketOpened(added, n, ans)
                   /\ \E undo \in DelAnswers :
                         SockBecomes(L2tpItfDel(SocketOpenStep(added, n, ans), i, undo))

(* Wrong: the pointer to the closed socket is kept.                         *)
StaleClosedKeeps(S, i, ok) ==
    IF S.ses[i].ptr = 0 THEN S ELSE SocketCloseStep(S, S.ses[i].ptr, {}, ok)
(* A socket left by an attempt that failed is closed before the next.       *)
StaleClosed(S, i, ok) ==
    IF S.ses[i].ptr = 0 THEN S
    ELSE [SocketCloseStep(S, S.ses[i].ptr, {i}, ok) EXCEPT !.ses[i].ptr = 0, !.ses[i].user = FALSE]

(* l2tp_new_session.  A stale socket that the engine has may fail to close, *)
(* which ends the attempt; a socket with the same addresses is reported as  *)
(* a duplicate and used all the same.                                       *)
NewSession(i, a) ==
    /\ ~ses[i].prog
    /\ \/ /\ ses[i].ptr # 0 /\ sock[ses[i].ptr].prog
          /\ SockBecomes(SockState)
          /\ UNCHANGED cursor
       \/ LET S == [StaleClosed(SockState, i, TRUE) EXCEPT !.ses[i].l2tp = TRUE]
              found == FindByAddr(S.k, a)
              id == NewSocketId(S.used)
          IN  \/ /\ found # {}
                 /\ \E n \in found :
                       SessionOpen([S EXCEPT !.ses[i].ptr = n, !.ses[i].user = TRUE,
                                             !.shared = @ \cup {i} \cup {j \in Sessions : S.ses[j].ptr = n}],
                                   i, n)
                 /\ UNCHANGED cursor
              \/ /\ found = {} /\ id = 0
                 /\ SockBecomes(S)
                 /\ UNCHANGED cursor
              \/ /\ found = {} /\ id # 0
                 /\ SessionOpen([S EXCEPT !.k[id] = NewSocket("l2tp", a), !.used = @ \cup {id},
                                          !.ses[i].ptr = id, !.ses[i].user = TRUE], i, id)
                 /\ cursor' = id - 1

(* l2tp_delete_session.                                                     *)
DeleteSession(i) ==
    /\ ses[i].l2tp
    /\ \E ans \in DelAnswers : SockBecomes(L2tpItfDel(SockState, i, ans))
    /\ UNCHANGED cursor

(* __updatelink for an L2TP or plain PPP interface that comes up.  Without  *)
(* a PPPoE session the latter is taken out of the engine at once.           *)
SessionUp(i) ==
    /\ \E ok \in BOOLEAN :
          LET S == [SockState EXCEPT !.ses[i].up = TRUE, !.ses[i].prog = TRUE]
          IN  SockBecomes(IF ses[i].l2tp THEN L2tpItfAdd(S, i, ok)
                          ELSE [S EXCEPT !.ses[i].prog = ~ok])
    /\ UNCHANGED cursor

SessionDown(i) ==
    /\ ses[i].up
    /\ \E ok \in BOOLEAN :
          LET S == [SockState EXCEPT !.ses[i].up = FALSE]
          IN  SockBecomes(IF ses[i].l2tp THEN L2tpItfDelEngine(S, i, ok)
                          ELSE [S EXCEPT !.ses[i].prog = @ /\ ~ok])
    /\ UNCHANGED cursor

(* The interface is unregistered and its entry freed: __updatelink and      *)
(* __itf_remove.  A later interface of the same name is a new entry.        *)
SessionGone(i) ==
    /\ ~ses[i].up
    /\ \/ /\ ~ses[i].l2tp
          /\ SockBecomes([SockState EXCEPT !.ses[i] = NoSession])
       \/ /\ ses[i].l2tp
          /\ \E ok \in BOOLEAN, ans \in DelAnswers :
                SockBecomes([L2tpItfDel(L2tpItfDelEngine(SockState, i, ok), i, ans)
                                EXCEPT !.ses[i] = NoSession])
    /\ UNCHANGED cursor

(* __cmmSocketUpdateWithRoute and, for waiting sockets, __cmmRouteNew.      *)
SocketRouteChanged(n) ==
    /\ sock[n].in /\ sock[n].type \in {"lanwan", "l2tp"}
    /\ \E ans \in SockAnswers(sock[n].prog) : SockBecomes(SocketOpenStep(SockState, n, ans))
    /\ UNCHANGED cursor

(* cmmFeReset frees every socket, whoever points to it.                     *)
SocketsReset ==
    /\ SockBecomes([SockState EXCEPT !.k = [n \in Ids |-> NoSocket], !.used = {}, !.feSock = {},
                                     !.dangling = {i \in Sessions : ses[i].ptr # 0}])
    /\ UNCHANGED cursor

SockInit ==
    /\ sock = [n \in Ids |-> NoSocket] /\ used = {} /\ cursor = 0
    /\ ses = [i \in Sessions |-> NoSession]
    /\ feSock = {} /\ feSes = {} /\ dangling = {} /\ shared = {}
    /\ wasReset = FALSE /\ refusedSes = {}

SockHandler ==
    \/ \E n \in ClientIds :
          \/ \E a \in Addrs : SocketUpdate(n, a) \/ \E type \in ClientTypes : SocketOpen(n, type, a)
          \/ SocketClose(n)
    \/ \E n \in Ids : SocketRouteChanged(n)
    \/ \E i \in Sessions :
          \/ \E a \in Addrs : NewSession(i, a)
          \/ DeleteSession(i) \/ SessionUp(i) \/ SessionDown(i) \/ SessionGone(i)

SockNext ==
    \/ dangling = {} /\ SockHandler /\ wasReset' = FALSE
    \/ dangling = {} /\ SocketsReset /\ wasReset' = TRUE
    \/ dangling # {} /\ UNCHANGED sockVars

SockSpec == SockInit /\ [][SockNext]_sockVars

-----------------------------------------------------------------------------
(* Every variable has its type; the cursor is an index into the bitmap.     *)
SockTypeOK ==
    /\ sock \in [Ids -> Socket \cup {NoSocket}] /\ ses \in [Sessions -> Session]
    /\ used \subseteq Private /\ cursor \in 0..(NumInternal - 1)
    /\ feSock \subseteq Ids
    /\ {feSes, dangling, shared, refusedSes} \subseteq SUBSET Sessions
    /\ wasReset \in BOOLEAN

(***************************************************************************)
(* The bitmap has exactly the private identifiers of the sockets there are: *)
(* none is handed out twice, and none is lost on a path that fails          *)
(* (new_socket_id, socket_remove).                                          *)
(***************************************************************************)
IdsExact == used = {n \in Private : sock[n].in}

(***************************************************************************)
(* The engine has exactly the sockets that CMM has marked programmed,       *)
(* whatever commands fail (socket_send_cmd, __socket_close).                *)
(***************************************************************************)
EngineSocketsTracked == feSock = {n \in Ids : sock[n].in /\ sock[n].prog}

(***************************************************************************)
(* A session of the engine has its socket in the engine, unless the engine  *)
(* refused to remove the session, two users share the socket, or the engine *)
(* was reset (l2tp_new_session adds the interface before the socket).       *)
(***************************************************************************)
SessionsHaveSockets ==
    \A i \in feSes \ (refusedSes \cup shared) : ses[i].ptr \in feSock \/ dangling # {}

(***************************************************************************)
(* The pointer of a session to its socket is never left behind, except as   *)
(* the TODO of l2tp_new_session foresees ("Would need ref_count on L2TP     *)
(* socket"), when the socket is shared, and when cmmFeReset frees it.       *)
(***************************************************************************)
PointersLive == wasReset \/ dangling \subseteq shared

(* Both tables of identifiers are right, in every step of every handler.    *)
SocketsTracked == IdsExact /\ EngineSocketsTracked

(* A session neither loses its socket nor points to a freed one.            *)
SessionsKept == SessionsHaveSockets /\ PointersLive
=============================================================================
