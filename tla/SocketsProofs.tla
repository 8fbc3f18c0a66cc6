--------------------------- MODULE SocketsProofs ---------------------------
(***************************************************************************)
(* The two tables of socket identifiers, the bitmap of private ones and    *)
(* the sockets of the engine, stay exact for any size of the private range *)
(* and any number of clients' sockets, addresses and sessions.             *)
(***************************************************************************)
EXTENDS Sockets, TLAPS, WellFoundedInduction

(* A nonempty set of naturals has a least element.                          *)
LEMMA LeastOf ==
    ASSUME NEW T \in SUBSET Nat, T # {}
    PROVE  \E x \in T : \A y \in T : x <= y
<1>1. PICK x \in T : \A y \in T : ~ (<<y, x>> \in OpToRel(<, Nat))
  BY NatLessThanWellFounded, WFMin, Zenon
<1>2. ASSUME NEW y \in T PROVE x <= y
  <2>1. ~ (<<y, x>> \in OpToRel(<, Nat))
    BY <1>1, Zenon
  <2>2. ~ (y < x)
    BY <2>1, Zenon DEF OpToRel
  <2> QED BY <2>2
<1> QED BY <1>2

(* new_socket_id hands out an identifier of the private range that is free. *)
LEMMA NewIdFree ==
    ASSUME NEW u \in SUBSET Private, cursor \in 0..(NumInternal - 1), NewSocketId(u) # 0
    PROVE  NewSocketId(u) \in Private \ u
<1> DEFINE F == FreeSteps(u)
           d == CHOOSE x \in F : \A c \in F : x <= c
<1>0. NumInternal \in Nat /\ NumInternal > 0
  BY SockAssumption
<1>1. F \in SUBSET Nat /\ F # {}
  BY <1>0 DEF NewSocketId, FreeSteps
<1> HIDE DEF F
<1>2. d \in F
  <2>1. \E x \in F : \A c \in F : x <= c
    BY <1>1, LeastOf
  <2> QED BY <2>1
<1> HIDE DEF d
<1>3. NewSocketId(u) = ((cursor + d) % NumInternal) + 1
  BY <1>1 DEF NewSocketId, F, d
<1>4. d \in Nat /\ ((cursor + d) % NumInternal) + 1 \notin u
  BY <1>2, <1>0 DEF F, FreeSteps
<1>5. ((cursor + d) % NumInternal) \in 0..(NumInternal - 1)
  BY <1>4, <1>0
<1>6. ((cursor + d) % NumInternal) + 1 \in 1..NumInternal
  BY <1>5, <1>0
<1> QED BY <1>3, <1>4, <1>6 DEF Private

-----------------------------------------------------------------------------
(* The states a handler passes on.                                          *)
States == [k : [Ids -> Socket \cup {NoSocket}], used : SUBSET Private,
           ses : [Sessions -> Session], feSock : SUBSET Ids, feSes : SUBSET Sessions,
           dangling : SUBSET Sessions, refused : SUBSET Sessions, shared : SUBSET Sessions]

(* Both tables are right, and a session points to a socket there is unless  *)
(* it is known to dangle.                                                   *)
Exact(S) ==
    /\ S \in States
    /\ S.used = {n \in Private : S.k[n].in}
    /\ S.feSock = {n \in Ids : S.k[n].in /\ S.k[n].prog}
    /\ \A i \in Sessions \ S.dangling : S.ses[i].ptr # 0 => S.k[S.ses[i].ptr].in

(* An entry of the table is a socket or nothing.                            *)
LEMMA EntryKinds ==
    ASSUME NEW k \in [Ids -> Socket \cup {NoSocket}], NEW n \in Ids
    PROVE  IF k[n].in THEN k[n] \in Socket ELSE k[n] = NoSocket
<1>1. CASE k[n] \in Socket
  <2>1. k[n].in = TRUE
    BY <1>1 DEF Socket
  <2> QED BY <1>1, <2>1
<1>2. CASE k[n] = NoSocket
  BY <1>2 DEF NoSocket
<1> QED BY <1>1, <1>2

(* A handler that rewrites one socket and what the engine has of it.        *)
LEMMA SocketRewritten ==
    ASSUME NEW S, Exact(S), NEW n \in Ids, S.k[n].in, NEW c \in Socket,
           NEW T \in States,
           T.k = [S.k EXCEPT ![n] = c],
           T.used = S.used, T.ses = S.ses, T.dangling = S.dangling,
           T.feSock = IF c.prog THEN S.feSock \cup {n} ELSE S.feSock \ {n}
    PROVE  Exact(T)
<1>0. S.k \in [Ids -> Socket \cup {NoSocket}] /\ S.ses \in [Sessions -> Session]
  BY DEF Exact, States
<1>1. T.k[n] = c /\ c.in = TRUE /\ c.prog \in BOOLEAN
  BY <1>0 DEF Socket
<1>2. \A m \in Ids : m # n => T.k[m] = S.k[m]
  BY <1>0
<1>3. \A m \in Ids : T.k[m].in <=> S.k[m].in
  BY <1>1, <1>2
<1>4. T.used = {m \in Private : T.k[m].in}
  <2>1. Private \subseteq Ids
    BY DEF Ids
  <2> QED BY <1>3, <2>1 DEF Exact
<1>5. T.feSock = {m \in Ids : T.k[m].in /\ T.k[m].prog}
  BY <1>1, <1>2 DEF Exact
<1>6. \A i \in Sessions \ T.dangling : T.ses[i].ptr # 0 => T.k[T.ses[i].ptr].in
  <2> SUFFICES ASSUME NEW i \in Sessions \ T.dangling, T.ses[i].ptr # 0
               PROVE  T.k[T.ses[i].ptr].in
    OBVIOUS
  <2>1. S.ses[i] \in Session /\ S.k[S.ses[i].ptr].in
    BY <1>0 DEF Exact
  <2>2. S.ses[i].ptr \in Ids
    BY <2>1 DEF Session
  <2> QED BY <2>1, <2>2, <1>3
<1> QED BY <1>4, <1>5, <1>6 DEF Exact

(* __socket_open: the engine has the socket afterwards exactly if the flag  *)
(* says so.                                                                 *)
LEMMA OpenStepExact ==
    ASSUME NEW S, Exact(S), NEW n, n \in Ids, S.k[n].in, NEW ans
    PROVE  /\ Exact(SocketOpenStep(S, n, ans))
           /\ \A m \in Ids : SocketOpenStep(S, n, ans).k[m].in <=> S.k[m].in
<1> DEFINE moved == ans.moved
           ok == ans.ok
           needs == S.k[n].needs \/ (moved /\ S.k[n].prog /\ S.k[n].type \in {"lanwan", "l2tp"})
           R == SocketRouted(S, n, moved)
           T == SocketSend(R, n, ok)
<1>0. S \in States /\ S.k \in [Ids -> Socket \cup {NoSocket}]
  BY DEF Exact, States
<1>1. S.k[n] \in Socket
  BY <1>0, EntryKinds
<1>2. needs \in BOOLEAN
  BY <1>1 DEF Socket
<1>3. R = [S EXCEPT !.k = [S.k EXCEPT ![n] = [S.k[n] EXCEPT !.needs = needs]]]
  BY <1>0 DEF SocketRouted, States
<1> DEFINE c == [S.k[n] EXCEPT !.needs = needs]
<1>4. c \in Socket /\ c.prog = S.k[n].prog
  BY <1>1, <1>2 DEF Socket
<1> HIDE DEF needs, c, moved, ok
<1>5. /\ R \in States /\ R.k = [S.k EXCEPT ![n] = c] /\ R.k[n] = c
      /\ R.used = S.used /\ R.ses = S.ses /\ R.dangling = S.dangling
      /\ R.feSock = S.feSock
  BY <1>3, <1>4, <1>0 DEF States, c
<1>6. Exact(R)
  <2>1. S.feSock = IF c.prog THEN S.feSock \cup {n} ELSE S.feSock \ {n}
    BY <1>4 DEF Exact
  <2> QED BY <1>4, <1>5, <2>1, SocketRewritten
<1> HIDE DEF R
<1>7. c.in = TRUE
  BY <1>4 DEF Socket
<1>8. CASE ~ SendOk(R, n, ok)
  <2>1. T = R
    BY <1>8 DEF SocketSend
  <2> QED BY <2>1, <1>0, <1>5, <1>6, <1>7 DEF SocketOpenStep, R, moved, ok
<1>9. CASE SendOk(R, n, ok)
  <2> DEFINE b == [c EXCEPT !.prog = TRUE, !.needs = FALSE]
  <2>1. b \in Socket /\ b.prog = TRUE /\ b.in = TRUE
    BY <1>4 DEF Socket
  <2>2. T = [R EXCEPT !.k = [R.k EXCEPT ![n] = b], !.feSock = R.feSock \cup {n}]
    BY <1>9, <1>5 DEF SocketSend, States
  <2> HIDE DEF b, T
  <2>3. /\ T \in States /\ T.k = [R.k EXCEPT ![n] = b] /\ T.used = R.used
        /\ T.ses = R.ses /\ T.dangling = R.dangling /\ T.feSock = R.feSock \cup {n}
    <3>1. [R.k EXCEPT ![n] = b] \in [Ids -> Socket \cup {NoSocket}]
      BY <2>1, <1>5 DEF States
    <3>2. R.feSock \cup {n} \in SUBSET Ids
      BY <1>5 DEF States
    <3> DEFINE kk == [R.k EXCEPT ![n] = b]
               ff == R.feSock \cup {n}
    <3>3. T = [R EXCEPT !.k = kk, !.feSock = ff]
      BY <2>2
    <3> HIDE DEF kk, ff
    <3>4. kk \in [Ids -> Socket \cup {NoSocket}] /\ ff \in SUBSET Ids
      BY <3>1, <3>2 DEF kk, ff
    <3>5. T \in States /\ T.k = kk /\ T.feSock = ff /\ T.used = R.used
          /\ T.ses = R.ses /\ T.dangling = R.dangling
      BY <3>3, <3>4, <1>5 DEF States
    <3> QED BY <3>5 DEF kk, ff
  <2>4. Exact(T)
    BY <2>1, <2>3, <1>5, <1>6, <1>7, SocketRewritten
  <2>5. \A m \in Ids : T.k[m].in <=> S.k[m].in
    BY <2>1, <2>3, <1>5, <1>0, <1>7
  <2> QED BY <2>4, <2>5 DEF SocketOpenStep, R, T, moved, ok
<1> QED BY <1>8, <1>9

(* What __socket_close does to the fields of a state.                       *)
Closes(S, n, by, ok) == S \in States /\ n \in Ids /\ by \in SUBSET Sessions /\ ok \in BOOLEAN

Closed(S, n, by, T) ==
    /\ T \in States
    /\ T.ses = S.ses
    /\ \/ /\ T.k = S.k /\ T.used = S.used /\ T.feSock = S.feSock
          /\ T.dangling = S.dangling
       \/ /\ T.k = [S.k EXCEPT ![n] = NoSocket]
          /\ T.used = S.used \ {n} /\ T.feSock = S.feSock \ {n}
          /\ T.dangling = S.dangling \cup {i \in Sessions \ by : S.ses[i].ptr = n}

LEMMA CloseStepFields ==
    ASSUME NEW S, NEW n, NEW by, NEW ok, Closes(S, n, by, ok)
    PROVE  Closed(S, n, by, SocketCloseStep(S, n, by, ok))
<1> PICK T : T = SocketCloseStep(S, n, by, ok)
  OBVIOUS
<1> USE DEF Closes, Closed
<1>1. CASE S.k[n].prog /\ ~ok
  <2>1. T = S
    BY <1>1 DEF SocketCloseStep
  <2> QED BY <2>1
<1>2. CASE ~ (S.k[n].prog /\ ~ok)
  <2> DEFINE kk == [S.k EXCEPT ![n] = NoSocket]
             uu == S.used \ {n}
             ff == S.feSock \ {n}
             dd == S.dangling \cup {i \in Sessions \ by : S.ses[i].ptr = n}
             U == [S EXCEPT !.feSock = ff]
  <2>1. U.ses = S.ses /\ U.k = S.k /\ U.used = S.used /\ U.dangling = S.dangling
    BY DEF States
  <2>2. U.feSock = ff /\ U \in States
    BY DEF States
  <2>3. T = [U EXCEPT !.k = kk, !.used = uu, !.dangling = dd]
    <3>1. T = SocketRemove(U, n, by)
      BY <1>2 DEF SocketCloseStep, States
    <3>2. SocketRemove(U, n, by) =
            [U EXCEPT !.k = [U.k EXCEPT ![n] = NoSocket], !.used = U.used \ {n},
                      !.dangling = U.dangling \cup {i \in Sessions \ by : U.ses[i].ptr = n}]
      BY <2>2 DEF SocketRemove, States
    <3> QED BY <3>1, <3>2, <2>1
  <2>4. /\ kk \in [Ids -> Socket \cup {NoSocket}] /\ uu \in SUBSET Private
        /\ dd \in SUBSET Sessions
    BY DEF States
  <2> HIDE DEF kk, uu, ff, dd, U
  <2>5. /\ T \in States /\ T.ses = U.ses /\ T.feSock = U.feSock
        /\ T.k = kk /\ T.used = uu /\ T.dangling = dd
    BY <2>2, <2>3, <2>4 DEF States
  <2>6. T.ses = S.ses /\ T.feSock = ff
    BY <2>1, <2>2, <2>5
  <2> QED BY <2>5, <2>6 DEF kk, uu, ff, dd
<1> QED BY <1>1, <1>2 DEF Closed

(* __socket_close keeps the tables exact.  The sessions of by are those     *)
(* whose pointer the caller clears.                                         *)
LEMMA CloseExact ==
    ASSUME NEW S, Exact(S), NEW n, n \in Ids, NEW by, NEW C, Closed(S, n, by, C),
           NEW T, T \in States,
           T.k = C.k, T.used = C.used, T.feSock = C.feSock, T.dangling = C.dangling,
           \A i \in Sessions : T.ses[i].ptr = IF i \in by THEN 0 ELSE S.ses[i].ptr
    PROVE  Exact(T)
<1>0. /\ S \in States /\ S.k \in [Ids -> Socket \cup {NoSocket}]
      /\ S.ses \in [Sessions -> Session] /\ Private \subseteq Ids
  BY DEF Exact, States, Ids
<1>1. CASE /\ T.k = S.k /\ T.used = S.used /\ T.feSock = S.feSock
           /\ T.dangling = S.dangling
  <2>1. \A i \in Sessions \ T.dangling : T.ses[i].ptr # 0 => T.k[T.ses[i].ptr].in
    BY <1>1 DEF Exact
  <2> QED BY <1>1, <2>1 DEF Exact
<1>2. CASE /\ T.k = [S.k EXCEPT ![n] = NoSocket]
           /\ T.used = S.used \ {n} /\ T.feSock = S.feSock \ {n}
           /\ T.dangling = S.dangling \cup {i \in Sessions \ by : S.ses[i].ptr = n}
  <2>1. T.k[n].in = FALSE
    BY <1>2, <1>0 DEF NoSocket
  <2>2. \A m \in Ids : m # n => T.k[m] = S.k[m]
    BY <1>2, <1>0
  <2>3. T.used = {m \in Private : T.k[m].in}
    BY <1>2, <1>0, <2>1, <2>2 DEF Exact
  <2>4. T.feSock = {m \in Ids : T.k[m].in /\ T.k[m].prog}
    BY <1>2, <2>1, <2>2 DEF Exact
  <2>5. ASSUME NEW i \in Sessions \ T.dangling, T.ses[i].ptr # 0
        PROVE  T.k[T.ses[i].ptr].in
    <3>1. i \notin by /\ T.ses[i].ptr = S.ses[i].ptr /\ i \notin S.dangling
      BY <2>5, <1>2
    <3>2. S.ses[i].ptr # n
      BY <3>1, <2>5, <1>2
    <3>3. S.ses[i].ptr \in Ids /\ S.k[S.ses[i].ptr].in
      BY <3>1, <2>5, <1>0 DEF Session, Exact
    <3> QED BY <3>1, <3>2, <3>3, <2>2
  <2> QED BY <2>3, <2>4, <2>5 DEF Exact
<1> QED BY <1>1, <1>2, Zenon DEF Closed

(* Handlers that only touch the sessions, and point them at sockets there   *)
(* are.                                                                     *)
LEMMA SessionsRewritten ==
    ASSUME NEW S, Exact(S), NEW T \in States,
           T.k = S.k, T.used = S.used, T.feSock = S.feSock, T.dangling = S.dangling,
           \A i \in Sessions : T.ses[i].ptr \in {0, S.ses[i].ptr} \/ S.k[T.ses[i].ptr].in
    PROVE  Exact(T)
BY DEF Exact

-----------------------------------------------------------------------------
(* A state whose session i is replaced, with what the engine has of it.     *)
Edited(S, i, r, fs, rf, sh) ==
    [S EXCEPT !.ses = [S.ses EXCEPT ![i] = r], !.feSes = fs, !.refused = rf, !.shared = sh]

Edits(S, i, r, fs, rf, sh) ==
    /\ S \in States /\ i \in Sessions /\ r \in Session
    /\ fs \in SUBSET Sessions /\ rf \in SUBSET Sessions /\ sh \in SUBSET Sessions

EditResult(S, i, r, fs, rf, sh, T) ==
    /\ T \in States
    /\ T.ses[i] = r /\ \A j \in Sessions : j # i => T.ses[j] = S.ses[j]
    /\ T.k = S.k /\ T.used = S.used /\ T.feSock = S.feSock
    /\ T.dangling = S.dangling
    /\ T.feSes = fs /\ T.refused = rf /\ T.shared = sh

LEMMA EditFields ==
    ASSUME NEW S, NEW i, NEW r, NEW fs, NEW rf, NEW sh, Edits(S, i, r, fs, rf, sh)
    PROVE  EditResult(S, i, r, fs, rf, sh, Edited(S, i, r, fs, rf, sh))
<1> PICK T : T = Edited(S, i, r, fs, rf, sh)
  OBVIOUS
<1> USE DEF Edits
<1> DEFINE ss == [S.ses EXCEPT ![i] = r]
<1>1. T = [S EXCEPT !.ses = ss, !.feSes = fs, !.refused = rf, !.shared = sh]
  BY DEF Edited
<1>2. S.ses \in [Sessions -> Session]
  BY DEF States
<1>3. ss \in [Sessions -> Session] /\ ss[i] = r /\ \A j \in Sessions : j # i => ss[j] = S.ses[j]
  BY <1>2
<1> HIDE DEF ss
<1>4. T \in States /\ T.ses = ss /\ T.k = S.k /\ T.used = S.used /\ T.feSock = S.feSock
      /\ T.dangling = S.dangling /\ T.feSes = fs /\ T.refused = rf /\ T.shared = sh
  BY <1>1, <1>3 DEF States
<1> QED BY <1>3, <1>4 DEF EditResult

(* An edit that points the session to a socket there is keeps the tables    *)
(* exact.                                                                   *)
LEMMA EditExact ==
    ASSUME NEW S, NEW i, NEW r, NEW fs, NEW rf, NEW sh, Edits(S, i, r, fs, rf, sh),
           Exact(S), r.ptr \in {0, S.ses[i].ptr} \/ S.k[r.ptr].in
    PROVE  Exact(Edited(S, i, r, fs, rf, sh))
<1> PICK T : T = Edited(S, i, r, fs, rf, sh)
  OBVIOUS
<1>1. EditResult(S, i, r, fs, rf, sh, T)
  BY EditFields
<1>2. \A j \in Sessions : T.ses[j].ptr \in {0, S.ses[j].ptr} \/ S.k[T.ses[j].ptr].in
  BY <1>1 DEF EditResult
<1>3. Exact(T)
  BY <1>1, <1>2, SessionsRewritten DEF EditResult
<1> QED BY <1>3

(* l2tp_itf_add.                                                            *)
LEMMA AddExact ==
    ASSUME NEW S, Exact(S), NEW i \in Sessions, NEW ok \in BOOLEAN
    PROVE  LET T == L2tpItfAdd(S, i, ok)
           IN  /\ Exact(T) /\ T.k = S.k /\ T.dangling = S.dangling
               /\ T.ses[i].ptr = S.ses[i].ptr
<1> DEFINE T == L2tpItfAdd(S, i, ok)
           r == [S.ses[i] EXCEPT !.prog = TRUE]
           fs == S.feSes \cup {i}
<1>0. S \in States /\ S.ses[i] \in Session
  BY DEF Exact, States
<1>1. CASE AddOk(S, i, ok) /\ ~S.ses[i].prog
  <2>1. T = Edited(S, i, r, fs, S.refused, S.shared)
    BY <1>0, <1>1 DEF L2tpItfAdd, Edited, States
  <2>2. r \in Session /\ r.ptr = S.ses[i].ptr
    BY <1>0 DEF Session
  <2>3. Edits(S, i, r, fs, S.refused, S.shared)
    BY <2>2, <1>0 DEF States, Edits
  <2> HIDE DEF r, fs, T
  <2>4. Exact(T)
    BY <2>1, <2>2, <2>3, EditExact
  <2>5. EditResult(S, i, r, fs, S.refused, S.shared, T)
    BY <2>1, <2>3, EditFields
  <2> QED BY <2>2, <2>4, <2>5 DEF T, EditResult
<1>2. CASE ~ (AddOk(S, i, ok) /\ ~S.ses[i].prog)
  BY <1>2 DEF L2tpItfAdd
<1> QED BY <1>1, <1>2

(* __l2tp_itf_del.                                                          *)
LEMMA DelEngineExact ==
    ASSUME NEW S, Exact(S), NEW i \in Sessions, NEW ok \in BOOLEAN
    PROVE  LET T == L2tpItfDelEngine(S, i, ok)
           IN  /\ Exact(T) /\ T.k = S.k /\ T.dangling = S.dangling
               /\ T.ses[i].ptr = S.ses[i].ptr
<1> DEFINE T == L2tpItfDelEngine(S, i, ok)
           r == [S.ses[i] EXCEPT !.prog = FALSE]
           fs == S.feSes \ {i}
           rf == S.refused \cup ({i} \cap S.feSes)
<1>0. S \in States /\ S.ses[i] \in Session
  BY DEF Exact, States
<1>1. CASE ~S.ses[i].prog
  BY <1>1 DEF L2tpItfDelEngine
<1>2. CASE S.ses[i].prog /\ ok /\ i \in S.feSes
  <2>1. T = Edited(S, i, r, fs, S.refused, S.shared)
    BY <1>0, <1>2 DEF L2tpItfDelEngine, Edited, States
  <2>2. r \in Session /\ r.ptr = S.ses[i].ptr
    BY <1>0 DEF Session
  <2>3. Edits(S, i, r, fs, S.refused, S.shared)
    BY <2>2, <1>0 DEF States, Edits
  <2> HIDE DEF r, fs, T
  <2>4. Exact(T)
    BY <2>1, <2>2, <2>3, EditExact
  <2>5. EditResult(S, i, r, fs, S.refused, S.shared, T)
    BY <2>1, <2>3, EditFields
  <2> QED BY <2>2, <2>4, <2>5 DEF T, EditResult
<1>3. CASE S.ses[i].prog /\ ~ (ok /\ i \in S.feSes)
  <2>1. T = Edited(S, i, S.ses[i], S.feSes, rf, S.shared)
    BY <1>0, <1>3 DEF L2tpItfDelEngine, Edited, States
  <2>2. Edits(S, i, S.ses[i], S.feSes, rf, S.shared)
    BY <1>0 DEF States, Edits
  <2> HIDE DEF rf, T
  <2>3. Exact(T)
    BY <2>1, <2>2, EditExact
  <2>4. EditResult(S, i, S.ses[i], S.feSes, rf, S.shared, T)
    BY <2>1, <2>2, EditFields
  <2> QED BY <2>3, <2>4 DEF T, EditResult
<1> QED BY <1>1, <1>2, <1>3

(* A session lets go of its socket, which is closed.                        *)
LEMMA DropExact ==
    ASSUME NEW S, Exact(S), NEW i, i \in Sessions, S.ses[i].ptr # 0,
           NEW C, Closed(S, S.ses[i].ptr, {i}, C),
           NEW r, r \in Session, r.ptr = 0
    PROVE  Exact(Edited(C, i, r, C.feSes, C.refused, C.shared))
<1> PICK T : T = Edited(C, i, r, C.feSes, C.refused, C.shared)
  OBVIOUS
<1>1. S \in States /\ S.ses[i].ptr \in Ids
  BY DEF Exact, States, Session
<1>2. C \in States /\ C.ses = S.ses
  BY DEF Closed
<1>3. EditResult(C, i, r, C.feSes, C.refused, C.shared, T)
  <2>1. Edits(C, i, r, C.feSes, C.refused, C.shared)
    BY <1>2 DEF States, Edits
  <2> QED BY <2>1, EditFields
<1>4. \A j \in Sessions : T.ses[j].ptr = IF j \in {i} THEN 0 ELSE S.ses[j].ptr
  BY <1>2, <1>3 DEF EditResult
<1>5. /\ T \in States /\ T.k = C.k /\ T.used = C.used /\ T.feSock = C.feSock
      /\ T.dangling = C.dangling
  BY <1>3 DEF EditResult
<1>6. Exact(T)
  BY <1>1, <1>4, <1>5, CloseExact
<1> QED BY <1>6

(* l2tp_itf_del.                                                            *)
LEMMA DelExact ==
    ASSUME NEW S, Exact(S), NEW i \in Sessions, NEW ans \in DelAnswers
    PROVE  Exact(L2tpItfDel(S, i, ans))
<1> DEFINE S1 == L2tpItfDelEngine(S, i, ans.del)
           C == SocketCloseStep(S1, S1.ses[i].ptr, {i}, ans.closed)
           r == [C.ses[i] EXCEPT !.ptr = 0, !.user = FALSE, !.l2tp = FALSE]
<1>0. ans.del \in BOOLEAN /\ ans.closed \in BOOLEAN
  BY DEF DelAnswers
<1>1. Exact(S1)
  BY <1>0, DelEngineExact
<1>2. L2tpItfDel(S, i, ans) =
        IF S1.ses[i].ptr = 0 THEN S1
        ELSE [C EXCEPT !.ses[i].ptr = 0, !.ses[i].user = FALSE, !.ses[i].l2tp = FALSE]
  BY DEF L2tpItfDel
<1> HIDE DEF S1
<1>3. CASE S1.ses[i].ptr # 0
  <2>1. S1 \in States /\ S1.ses[i].ptr \in Ids
    BY <1>1, <1>3 DEF Exact, States, Session
  <2>2. Closed(S1, S1.ses[i].ptr, {i}, C)
    <3>1. Closes(S1, S1.ses[i].ptr, {i}, ans.closed)
      BY <1>0, <2>1 DEF Closes
    <3> QED BY <3>1, CloseStepFields
  <2>3. C \in States
    BY <2>2 DEF Closed
  <2> HIDE DEF C
  <2>4. C.ses[i] \in Session
    BY <2>3 DEF States
  <2>5. r \in Session /\ r.ptr = 0
    BY <2>4 DEF Session
  <2>6. [C EXCEPT !.ses[i].ptr = 0, !.ses[i].user = FALSE, !.ses[i].l2tp = FALSE]
          = Edited(C, i, r, C.feSes, C.refused, C.shared)
    BY <2>3 DEF Edited, States
  <2> HIDE DEF r
  <2>7. Exact(Edited(C, i, r, C.feSes, C.refused, C.shared))
    BY <1>1, <1>3, <2>2, <2>5, DropExact
  <2> QED BY <1>2, <1>3, <2>6, <2>7
<1> QED BY <1>1, <1>2, <1>3

(* A socket left by an attempt that failed is closed first.                 *)
LEMMA StaleExact ==
    ASSUME NEW S, Exact(S), NEW i \in Sessions, NEW ok \in BOOLEAN
    PROVE  Exact(StaleClosed(S, i, ok))
<1> DEFINE C == SocketCloseStep(S, S.ses[i].ptr, {i}, ok)
           r == [C.ses[i] EXCEPT !.ptr = 0, !.user = FALSE]
<1>1. StaleClosed(S, i, ok) =
        IF S.ses[i].ptr = 0 THEN S ELSE [C EXCEPT !.ses[i].ptr = 0, !.ses[i].user = FALSE]
  BY DEF StaleClosed
<1>2. CASE S.ses[i].ptr # 0
  <2>1. S \in States /\ S.ses[i].ptr \in Ids
    BY <1>2 DEF Exact, States, Session
  <2>2. Closed(S, S.ses[i].ptr, {i}, C)
    <3>1. Closes(S, S.ses[i].ptr, {i}, ok)
      BY <2>1 DEF Closes
    <3> QED BY <3>1, CloseStepFields
  <2>3. C \in States
    BY <2>2 DEF Closed
  <2> HIDE DEF C
  <2>4. C.ses[i] \in Session
    BY <2>3 DEF States
  <2>5. r \in Session /\ r.ptr = 0
    BY <2>4 DEF Session
  <2>6. [C EXCEPT !.ses[i].ptr = 0, !.ses[i].user = FALSE]
          = Edited(C, i, r, C.feSes, C.refused, C.shared)
    BY <2>3 DEF Edited, States
  <2> HIDE DEF r
  <2>7. Exact(Edited(C, i, r, C.feSes, C.refused, C.shared))
    BY <1>2, <2>2, <2>5, DropExact
  <2> QED BY <1>1, <1>2, <2>6, <2>7
<1> QED BY <1>1, <1>2
(* A socket is created, and sessions may point to it.                       *)
Creates(S, n, c, T) ==
    /\ n \in Ids /\ ~ S.k[n].in /\ c \in Socket /\ c.prog = FALSE
    /\ T \in States
    /\ T.k = [S.k EXCEPT ![n] = c] /\ T.feSock = S.feSock /\ T.dangling = S.dangling
    /\ T.used = IF n \in Private THEN S.used \cup {n} ELSE S.used
    /\ \A i \in Sessions : T.ses[i].ptr \in {0, n, S.ses[i].ptr}

LEMMA CreateExact ==
    ASSUME NEW S, NEW n, NEW c, NEW T, Exact(S), Creates(S, n, c, T)
    PROVE  Exact(T)
<1> USE DEF Creates
<1>0. /\ S \in States /\ S.k \in [Ids -> Socket \cup {NoSocket}]
      /\ S.ses \in [Sessions -> Session] /\ Private \subseteq Ids
  BY DEF Exact, States, Ids
<1>1. T.k[n] = c /\ c.in = TRUE
  BY <1>0 DEF Socket
<1>2. \A m \in Ids : m # n => T.k[m] = S.k[m]
  BY <1>0
<1>3. T.used = {m \in Private : T.k[m].in}
  BY <1>0, <1>1, <1>2 DEF Exact
<1>4. T.feSock = {m \in Ids : T.k[m].in /\ T.k[m].prog}
  BY <1>1, <1>2 DEF Exact
<1>5. ASSUME NEW i \in Sessions \ T.dangling, T.ses[i].ptr # 0
      PROVE  T.k[T.ses[i].ptr].in
  <2>1. CASE T.ses[i].ptr = n
    BY <2>1, <1>1
  <2>2. CASE T.ses[i].ptr # n
    <3>1. T.ses[i].ptr = S.ses[i].ptr /\ S.ses[i].ptr # 0
      BY <2>2, <1>5
    <3>2. S.ses[i].ptr \in Ids /\ S.k[S.ses[i].ptr].in
      BY <3>1, <1>5, <1>0 DEF Session, Exact
    <3> QED BY <3>1, <3>2, <2>2, <1>2
  <2> QED BY <2>1, <2>2
<1> QED BY <1>3, <1>4, <1>5 DEF Exact

(* What holds in every state.                                               *)
SockInv == Exact(SockState) /\ cursor \in 0..(NumInternal - 1)

LEMMA BecomesExact ==
    ASSUME NEW S, Exact(S), SockBecomes(S)
    PROVE  Exact(SockState)'
<1>1. S \in States
  BY DEF Exact
<1>2. /\ sock' = S.k /\ used' = S.used /\ ses' = S.ses
      /\ feSock' = S.feSock /\ feSes' = S.feSes /\ dangling' = S.dangling
      /\ refusedSes' \in SUBSET Sessions /\ shared' \in SUBSET Sessions
  BY <1>1 DEF SockBecomes, States
<1> DEFINE T == [k |-> sock', used |-> used', ses |-> ses', feSock |-> feSock', feSes |-> feSes',
                 dangling |-> dangling', refused |-> refusedSes', shared |-> shared']
<1>3. /\ T \in States /\ T.k = S.k /\ T.used = S.used /\ T.ses = S.ses
      /\ T.feSock = S.feSock /\ T.dangling = S.dangling
  BY <1>1, <1>2 DEF States
<1> HIDE DEF T
<1>4. Exact(T)
  BY <1>3 DEF Exact
<1> QED BY <1>4 DEF T, SockState

(* The end of l2tp_new_session.                                             *)
LEMMA SessionOpenExact ==
    ASSUME NEW S, Exact(S), NEW i, i \in Sessions, NEW n, n \in Ids, S.k[n].in,
           SessionOpen(S, i, n)
    PROVE  Exact(SockState)'
<1> DEFINE added(ok) == L2tpItfAdd(S, i, ok)
           open(ok, ans) == SocketOpenStep(added(ok), n, ans)
           r == [S.ses[i] EXCEPT !.user = FALSE]
           dropped == [S EXCEPT !.ses[i].user = FALSE]
<1>0. S \in States /\ S.ses[i] \in Session
  BY DEF Exact, States
<1>1. ASSUME NEW ok \in BOOLEAN PROVE Exact(added(ok)) /\ added(ok).k = S.k
  BY AddExact
<1>2. ASSUME NEW ok \in BOOLEAN, NEW ans PROVE Exact(open(ok, ans))
  <2>1. Exact(added(ok)) /\ added(ok).k = S.k
    BY <1>1
  <2> HIDE DEF added
  <2> QED BY <2>1, OpenStepExact
<1>3. ASSUME NEW ok \in BOOLEAN, NEW ans, NEW undo \in DelAnswers
      PROVE  Exact(L2tpItfDel(open(ok, ans), i, undo))
  <2>1. Exact(open(ok, ans))
    BY <1>2
  <2> HIDE DEF open
  <2> QED BY <2>1, DelExact
<1>4. Exact(dropped)
  <2>1. r \in Session /\ r.ptr = S.ses[i].ptr
    BY <1>0 DEF Session
  <2>2. dropped = Edited(S, i, r, S.feSes, S.refused, S.shared)
    BY <1>0 DEF Edited, States
  <2> HIDE DEF r, dropped
  <2>3. Edits(S, i, r, S.feSes, S.refused, S.shared)
    BY <2>1, <1>0 DEF States, Edits
  <2> QED BY <2>1, <2>2, <2>3, EditExact
<1>5. PICK ok \in BOOLEAN :
        \/ SockBecomes(dropped)
        \/ \E ans \in SockAnswers(S.k[n].prog) :
              \/ SockBecomes(open(ok, ans))
              \/ \E undo \in DelAnswers : SockBecomes(L2tpItfDel(open(ok, ans), i, undo))
  BY Zenon DEF SessionOpen
<1> HIDE DEF open, dropped
<1> QED BY <1>2, <1>3, <1>4, <1>5, BecomesExact

(* __socket_close by somebody who owns no session.                          *)
LEMMA ClientCloseExact ==
    ASSUME NEW S, Exact(S), NEW n, n \in Ids, NEW ok, ok \in BOOLEAN
    PROVE  Exact(SocketCloseStep(S, n, {}, ok))
<1> PICK C : C = SocketCloseStep(S, n, {}, ok)
  OBVIOUS
<1>1. Closed(S, n, {}, C)
  <2>1. Closes(S, n, {}, ok)
    BY DEF Closes, Exact
  <2> QED BY <2>1, CloseStepFields
<1>2. C \in States /\ C.ses = S.ses
  BY <1>1 DEF Closed
<1>3. \A i \in Sessions : C.ses[i].ptr = IF i \in {} THEN 0 ELSE S.ses[i].ptr
  BY <1>2
<1>4. Exact(C)
  BY <1>1, <1>2, <1>3, CloseExact
<1> QED BY <1>4

(* The fields of the state as one record.                                   *)
LEMMA StateFields ==
    /\ SockState.k = sock /\ SockState.used = used /\ SockState.ses = ses
    /\ SockState.feSock = feSock /\ SockState.feSes = feSes
    /\ SockState.dangling = dangling /\ SockState.refused = refusedSes
    /\ SockState.shared = shared
BY DEF SockState

(* The commands of a client.                                                *)
LEMMA ClientStep ==
    ASSUME Exact(SockState), NEW n \in ClientIds, NEW a \in Addrs, NEW type,
           \/ type \in ClientTypes /\ SocketOpen(n, type, a)
           \/ SocketUpdate(n, a) \/ SocketClose(n)
    PROVE  Exact(SockState)'
<1> PICK S : S = SockState
  OBVIOUS
<1>0. /\ S \in States /\ S.k = sock /\ n \in Ids /\ n \notin Private
      /\ sock \in [Ids -> Socket \cup {NoSocket}]
  <2>1. n \in Ids /\ n \notin Private
    BY SockAssumption DEF Ids, Private
  <2> QED BY <2>1, StateFields DEF Exact, States
<1>1. CASE type \in ClientTypes /\ SocketOpen(n, type, a)
  <2> DEFINE c == NewSocket(type, a)
             kk == [S.k EXCEPT ![n] = c]
             T == [S EXCEPT !.k[n] = NewSocket(type, a)]
  <2>1. c \in Socket /\ c.prog = FALSE /\ c.in = TRUE
    BY <1>1, SockAssumption DEF NewSocket, Socket
  <2>2. T = [S EXCEPT !.k = kk]
    BY <1>0 DEF States
  <2> HIDE DEF c, T
  <2>3. kk \in [Ids -> Socket \cup {NoSocket}] /\ kk[n] = c
    BY <2>1, <1>0
  <2> HIDE DEF kk
  <2>4. /\ T \in States /\ T.k = kk /\ T.used = S.used /\ T.feSock = S.feSock
        /\ T.dangling = S.dangling /\ T.ses = S.ses
    BY <2>2, <2>3, <1>0 DEF States
  <2>5. Exact(T) /\ T.k[n].in
    <3>1. ~ S.k[n].in
      BY <1>0, <1>1 DEF SocketOpen
    <3>2. \A i \in Sessions : T.ses[i].ptr \in {0, n, S.ses[i].ptr}
      BY <2>4
    <3>3. T.k = [S.k EXCEPT ![n] = c]
      BY <2>4 DEF kk
    <3>4. T.used = IF n \in Private THEN S.used \cup {n} ELSE S.used
      BY <2>4, <1>0
    <3>5. Creates(S, n, c, T)
      BY <3>1, <3>2, <3>3, <3>4, <2>1, <2>4, <1>0 DEF Creates
    <3>6. Exact(T)
      BY <3>5, CreateExact
    <3> QED BY <3>6, <2>1, <2>3, <2>4
  <2>6. PICK ans : SockBecomes(IF SocketOpened(T, n, ans) THEN SocketOpenStep(T, n, ans)
                               ELSE SocketCloseStep(SocketOpenStep(T, n, ans), n, {}, FALSE))
    BY <1>1 DEF SocketOpen, T
  <2>7. Exact(SocketOpenStep(T, n, ans))
    BY <2>5, <1>0, OpenStepExact
  <2>8. Exact(SocketCloseStep(SocketOpenStep(T, n, ans), n, {}, FALSE))
    BY <2>7, <1>0, ClientCloseExact
  <2> QED BY <2>6, <2>7, <2>8, BecomesExact
<1>2. CASE SocketUpdate(n, a)
  <2> DEFINE c == [sock[n] EXCEPT !.addr = a, !.needs = sock[n].prog]
             kk == [S.k EXCEPT ![n] = c]
             T == [S EXCEPT !.k[n].addr = a, !.k[n].needs = sock[n].prog]
  <2>1. sock[n] \in Socket
    BY <1>0, <1>2, EntryKinds DEF SocketUpdate
  <2>2. c \in Socket /\ c.prog = sock[n].prog /\ c.in = TRUE
    BY <2>1 DEF Socket
  <2>3. T = [S EXCEPT !.k = kk]
    BY <1>0 DEF States
  <2>4. PICK ans : SockBecomes(SocketOpenStep(T, n, ans))
    BY <1>2 DEF SocketUpdate
  <2> HIDE DEF c, T
  <2>5. kk \in [Ids -> Socket \cup {NoSocket}] /\ kk[n] = c
    BY <2>2, <1>0
  <2> HIDE DEF kk
  <2>6. /\ T \in States /\ T.k = kk /\ T.used = S.used /\ T.feSock = S.feSock
        /\ T.dangling = S.dangling /\ T.ses = S.ses
    BY <2>3, <2>5, <1>0 DEF States
  <2>7. Exact(T) /\ T.k[n].in
    <3>1. S.k[n].in
      BY <1>0, <1>2 DEF SocketUpdate
    <3>2. T.feSock = IF c.prog THEN S.feSock \cup {n} ELSE S.feSock \ {n}
      BY <3>1, <2>2, <2>6, <1>0 DEF Exact
    <3>3. T.k = [S.k EXCEPT ![n] = c]
      BY <2>6 DEF kk
    <3>4. Exact(T)
      BY <3>1, <3>2, <3>3, <2>2, <2>6, <1>0, SocketRewritten
    <3> QED BY <3>4, <2>2, <2>5, <2>6
  <2>8. Exact(SocketOpenStep(T, n, ans))
    BY <2>7, <1>0, OpenStepExact
  <2> QED BY <2>4, <2>8, BecomesExact
<1>3. CASE SocketClose(n)
  <2>1. PICK ok \in BOOLEAN : SockBecomes(SocketCloseStep(S, n, {}, ok))
    BY <1>3 DEF SocketClose
  <2>2. Exact(SocketCloseStep(S, n, {}, ok))
    BY <1>0, ClientCloseExact
  <2> QED BY <2>1, <2>2, BecomesExact
<1> QED BY <1>1, <1>2, <1>3

(* l2tp_new_session, on a private identifier, on one of a socket with the   *)
(* same addresses, or in vain.                                              *)
LEMMA NewSessionStep ==
    ASSUME SockInv, NEW i \in Sessions, NEW a \in Addrs, NewSession(i, a)
    PROVE  SockInv'
<1> DEFINE S0 == StaleClosed(SockState, i, TRUE)
           S == [S0 EXCEPT !.ses[i].l2tp = TRUE]
           id == NewSocketId(S.used)
           found == FindByAddr(S.k, a)
           linked(n) == [S EXCEPT !.ses[i].ptr = n, !.ses[i].user = TRUE,
                                  !.shared = @ \cup {i} \cup {j \in Sessions : S.ses[j].ptr = n}]
           made == [S EXCEPT !.k[id] = NewSocket("l2tp", a), !.used = @ \cup {id},
                             !.ses[i].ptr = id, !.ses[i].user = TRUE]
<1>0. Exact(SockState) /\ cursor \in 0..(NumInternal - 1) /\ NumInternal \in Nat
  BY SockAssumption DEF SockInv
<1>1. \/ SockBecomes(SockState) /\ UNCHANGED cursor
      \/ (\E n \in found : SessionOpen(linked(n), i, n)) /\ UNCHANGED cursor
      \/ SockBecomes(S) /\ UNCHANGED cursor
      \/ id # 0 /\ SessionOpen(made, i, id) /\ cursor' = id - 1
  BY Zenon DEF NewSession
<1>2. Exact(S0)
  BY <1>0, StaleExact
<1> HIDE DEF S0
<1>3. Exact(S)
  <2> DEFINE r == [S0.ses[i] EXCEPT !.l2tp = TRUE]
  <2>1. S0 \in States /\ S0.ses[i] \in Session
    BY <1>2 DEF Exact, States
  <2>2. r \in Session /\ r.ptr = S0.ses[i].ptr
    BY <2>1 DEF Session
  <2>3. S = Edited(S0, i, r, S0.feSes, S0.refused, S0.shared)
    BY <2>1 DEF Edited, States
  <2> HIDE DEF r, S
  <2>4. Edits(S0, i, r, S0.feSes, S0.refused, S0.shared)
    BY <2>1, <2>2 DEF Edits, States
  <2> QED BY <1>2, <2>2, <2>3, <2>4, EditExact
<1> HIDE DEF S
<1>4. S \in States /\ S.ses[i] \in Session /\ S.k \in [Ids -> Socket \cup {NoSocket}]
      /\ S.ses \in [Sessions -> Session] /\ S.used \in SUBSET Private
  BY <1>3 DEF Exact, States
<1>5. ASSUME NEW n \in found, SessionOpen(linked(n), i, n) PROVE Exact(SockState)'
  <2> DEFINE r == [S.ses[i] EXCEPT !.ptr = n, !.user = TRUE]
             sh == S.shared \cup {i} \cup {j \in Sessions : S.ses[j].ptr = n}
  <2>1. n \in Ids /\ S.k[n].in
    BY <1>5 DEF FindByAddr
  <2>2. r \in Session /\ r.ptr = n
    BY <2>1, <1>4 DEF Session
  <2>3. linked(n) = Edited(S, i, r, S.feSes, S.refused, sh)
    BY <1>4 DEF Edited, States
  <2>4. sh \in SUBSET Sessions
    BY <1>4 DEF States
  <2> HIDE DEF r, sh, linked
  <2>5. Edits(S, i, r, S.feSes, S.refused, sh)
    BY <2>2, <2>4, <1>4 DEF Edits, States
  <2>6. Exact(linked(n))
    BY <1>3, <2>1, <2>2, <2>3, <2>5, EditExact
  <2>7. linked(n).k = S.k
    BY <2>3, <2>5, EditFields DEF EditResult
  <2> QED BY <1>5, <2>1, <2>6, <2>7, SessionOpenExact
<1>6. ASSUME id # 0, SessionOpen(made, i, id)
      PROVE  Exact(SockState)' /\ id - 1 \in 0..(NumInternal - 1)
  <2>1. id \in Private \ S.used
    BY <1>0, <1>4, <1>6, NewIdFree
  <2>2. id - 1 \in 0..(NumInternal - 1)
    BY <2>1, <1>0 DEF Private
  <2> HIDE DEF id
  <2>3. id \in Ids /\ ~ S.k[id].in
    BY <2>1, <1>3 DEF Exact, Ids
  <2> DEFINE c == NewSocket("l2tp", a)
             kk == [S.k EXCEPT ![id] = c]
             uu == S.used \cup {id}
             r == [S.ses[i] EXCEPT !.ptr = id, !.user = TRUE]
             ss == [S.ses EXCEPT ![i] = r]
  <2>4. c \in Socket /\ c.prog = FALSE /\ c.in = TRUE
    BY DEF NewSocket, Socket
  <2>5. made = [S EXCEPT !.k = kk, !.used = uu, !.ses = ss]
    BY <1>4 DEF States
  <2>6. r \in Session /\ r.ptr = id
    BY <2>3, <1>4 DEF Session
  <2> HIDE DEF c, r, made
  <2>7. /\ kk \in [Ids -> Socket \cup {NoSocket}] /\ kk[id] = c
        /\ uu \in SUBSET Private
        /\ ss \in [Sessions -> Session] /\ ss[i] = r
        /\ \A j \in Sessions : j # i => ss[j] = S.ses[j]
    BY <2>1, <2>3, <2>4, <2>6, <1>4
  <2> HIDE DEF kk, uu, ss
  <2>8. /\ made \in States /\ made.k = kk /\ made.used = uu /\ made.ses = ss
        /\ made.feSock = S.feSock /\ made.dangling = S.dangling
    BY <2>5, <2>7, <1>4 DEF States
  <2>9. Creates(S, id, c, made)
    <3>1. made.k = [S.k EXCEPT ![id] = c]
      BY <2>8 DEF kk
    <3>2. made.used = IF id \in Private THEN S.used \cup {id} ELSE S.used
      BY <2>1, <2>8 DEF uu
    <3>3. \A j \in Sessions : made.ses[j].ptr \in {0, id, S.ses[j].ptr}
      BY <2>6, <2>7, <2>8
    <3> QED BY <2>3, <2>4, <2>8, <3>1, <3>2, <3>3 DEF Creates
  <2>10. Exact(made)
    BY <2>9, <1>3, CreateExact
  <2>11. made.k[id].in
    BY <2>4, <2>7, <2>8
  <2> QED BY <1>6, <2>2, <2>3, <2>10, <2>11, SessionOpenExact
<1>7. Exact(SockState)'
  BY <1>0, <1>1, <1>3, <1>5, <1>6, BecomesExact
<1>8. cursor' \in 0..(NumInternal - 1)
  BY <1>0, <1>1, <1>6
<1> QED BY <1>7, <1>8 DEF SockInv

(* An edit of one session's flags.                                          *)
LEMMA FlagsExact ==
    ASSUME NEW S, Exact(S), NEW i, i \in Sessions, NEW r, r \in Session,
           r.ptr \in {0, S.ses[i].ptr}
    PROVE  Exact(Edited(S, i, r, S.feSes, S.refused, S.shared))
<1>1. Edits(S, i, r, S.feSes, S.refused, S.shared)
  BY DEF Exact, States, Edits
<1> QED BY <1>1, EditExact

(* The other events of a session.                                           *)
LEMMA SessionStep ==
    ASSUME Exact(SockState), NEW i \in Sessions,
           DeleteSession(i) \/ SessionUp(i) \/ SessionDown(i) \/ SessionGone(i)
    PROVE  Exact(SockState)'
<1> PICK S : S = SockState
  OBVIOUS
<1>0. S \in States /\ S.ses[i] \in Session /\ S.ses = ses
  BY StateFields DEF Exact, States
<1>1. CASE DeleteSession(i)
  <2>1. PICK ans \in DelAnswers : SockBecomes(L2tpItfDel(S, i, ans))
    BY <1>1 DEF DeleteSession
  <2> QED BY <2>1, DelExact, BecomesExact
<1>2. CASE SessionUp(i)
  <2> DEFINE U == [S EXCEPT !.ses[i].up = TRUE, !.ses[i].prog = TRUE]
             W(ok) == [U EXCEPT !.ses[i].prog = ~ok]
             r == [S.ses[i] EXCEPT !.up = TRUE, !.prog = TRUE]
  <2>1. PICK ok \in BOOLEAN :
          SockBecomes(IF ses[i].l2tp THEN L2tpItfAdd(U, i, ok) ELSE W(ok))
    BY <1>2 DEF SessionUp
  <2>2. r \in Session /\ r.ptr = S.ses[i].ptr
    BY <1>0 DEF Session
  <2>3. U = Edited(S, i, r, S.feSes, S.refused, S.shared)
    BY <1>0 DEF Edited, States
  <2> HIDE DEF U, r
  <2>4. Exact(U)
    BY <2>2, <2>3, FlagsExact
  <2> DEFINE q == [U.ses[i] EXCEPT !.prog = ~ok]
  <2>5. U \in States /\ U.ses[i] \in Session
    BY <2>4 DEF Exact, States
  <2>6. q \in Session /\ q.ptr = U.ses[i].ptr
    BY <2>5 DEF Session
  <2>7. W(ok) = Edited(U, i, q, U.feSes, U.refused, U.shared)
    BY <2>5 DEF Edited, States
  <2> HIDE DEF W, q
  <2>8. Exact(W(ok))
    BY <2>4, <2>6, <2>7, FlagsExact
  <2>9. Exact(L2tpItfAdd(U, i, ok))
    BY <2>4, AddExact
  <2> QED BY <2>1, <2>8, <2>9, BecomesExact
<1>3. CASE SessionDown(i)
  <2> DEFINE U == [S EXCEPT !.ses[i].up = FALSE]
             W(ok) == [U EXCEPT !.ses[i].prog = @ /\ ~ok]
             r == [S.ses[i] EXCEPT !.up = FALSE]
  <2>1. PICK ok \in BOOLEAN :
          SockBecomes(IF ses[i].l2tp THEN L2tpItfDelEngine(U, i, ok) ELSE W(ok))
    BY <1>3 DEF SessionDown
  <2>2. r \in Session /\ r.ptr = S.ses[i].ptr
    BY <1>0 DEF Session
  <2>3. U = Edited(S, i, r, S.feSes, S.refused, S.shared)
    BY <1>0 DEF Edited, States
  <2> HIDE DEF U, r
  <2>4. Exact(U)
    BY <2>2, <2>3, FlagsExact
  <2> DEFINE p == U.ses[i].prog /\ ~ok
             q == [U.ses[i] EXCEPT !.prog = p]
  <2>5. U \in States /\ U.ses[i] \in Session
    BY <2>4 DEF Exact, States
  <2>6. p \in BOOLEAN
    OBVIOUS
  <2>7. W(ok) = Edited(U, i, q, U.feSes, U.refused, U.shared)
    BY <2>5 DEF Edited, States
  <2> HIDE DEF W, p
  <2>8. q \in Session /\ q.ptr = U.ses[i].ptr
    BY <2>5, <2>6 DEF Session
  <2> HIDE DEF q
  <2>9. Exact(W(ok))
    BY <2>4, <2>7, <2>8, FlagsExact
  <2>10. Exact(L2tpItfDelEngine(U, i, ok))
    BY <2>4, DelEngineExact
  <2> QED BY <2>1, <2>9, <2>10, BecomesExact
<1>4. CASE SessionGone(i)
  <2> DEFINE D(ok, ans) == IF ses[i].l2tp THEN L2tpItfDel(L2tpItfDelEngine(S, i, ok), i, ans)
                             ELSE S
  <2>1. PICK ok \in BOOLEAN, ans \in DelAnswers : SockBecomes([D(ok, ans) EXCEPT !.ses[i] = NoSession])
    <3>1. [del |-> TRUE, closed |-> TRUE] \in DelAnswers
      BY DEF DelAnswers
    <3>2. CASE ses[i].l2tp
      BY <1>4, <3>2 DEF SessionGone
    <3>3. CASE ~ses[i].l2tp
      <4> DEFINE any == [del |-> TRUE, closed |-> TRUE]
      <4>1. SockBecomes([S EXCEPT !.ses[i] = NoSession])
        BY <1>4, <3>3 DEF SessionGone
      <4>2. D(TRUE, any) = S
        BY <3>3
      <4>3. SockBecomes([D(TRUE, any) EXCEPT !.ses[i] = NoSession]) /\ any \in DelAnswers
        BY <3>1, <4>1, <4>2
      <4> HIDE DEF any, D
      <4> QED BY <4>3
    <3> QED BY <3>2, <3>3
  <2>2. Exact(L2tpItfDelEngine(S, i, ok))
    BY DelEngineExact
  <2>3. Exact(D(ok, ans))
    BY <2>2, DelExact
  <2> HIDE DEF D
  <2>4. NoSession \in Session /\ NoSession.ptr = 0
    BY DEF NoSession, Session
  <2>5. [D(ok, ans) EXCEPT !.ses[i] = NoSession]
          = Edited(D(ok, ans), i, NoSession, D(ok, ans).feSes, D(ok, ans).refused,
                   D(ok, ans).shared)
    BY <2>3 DEF Edited, Exact, States
  <2>6. Exact(Edited(D(ok, ans), i, NoSession, D(ok, ans).feSes, D(ok, ans).refused,
                     D(ok, ans).shared))
    BY <2>3, <2>4, FlagsExact
  <2> QED BY <2>1, <2>5, <2>6, BecomesExact
<1> QED BY <1>1, <1>2, <1>3, <1>4

-----------------------------------------------------------------------------
(* SockInv is inductive.                                                    *)
THEOREM SocketsSafe == SockSpec => []SockInv
<1>1. SockInit => SockInv
  <2> SUFFICES ASSUME SockInit PROVE SockInv
    OBVIOUS
  <2>1. NoSocket.in = FALSE /\ NoSession \in Session /\ NoSession.ptr = 0
    BY DEF NoSocket, NoSession, Session
  <2>2. /\ sock \in [Ids -> Socket \cup {NoSocket}] /\ ses \in [Sessions -> Session]
        /\ \A n \in Ids : sock[n].in = FALSE
        /\ \A i \in Sessions : ses[i].ptr = 0
    BY <2>1 DEF SockInit
  <2>3. used = {} /\ feSock = {} /\ feSes = {} /\ dangling = {} /\ shared = {} /\ refusedSes = {}
    BY DEF SockInit
  <2>4. SockState \in States
    BY <2>2, <2>3 DEF SockState, States
  <2>5. Private \subseteq Ids
    BY DEF Ids
  <2>6. Exact(SockState)
    BY <2>2, <2>3, <2>4, <2>5, StateFields DEF Exact
  <2>7. cursor \in 0..(NumInternal - 1)
    BY SockAssumption DEF SockInit
  <2> QED BY <2>6, <2>7 DEF SockInv
<1>2. SockInv /\ [SockNext]_sockVars => SockInv'
  <2> SUFFICES ASSUME SockInv, [SockNext]_sockVars PROVE SockInv'
    OBVIOUS
  <2>0. Exact(SockState) /\ cursor \in 0..(NumInternal - 1)
    BY DEF SockInv
  <2>1. CASE SockHandler
    <3>1. ASSUME NEW n \in ClientIds, NEW a \in Addrs, NEW type \in ClientTypes,
                 SocketOpen(n, type, a)
          PROVE  SockInv'
      BY <3>1, <2>0, ClientStep DEF SocketOpen, SockInv
    <3>2. ASSUME NEW n \in ClientIds, NEW a \in Addrs, SocketUpdate(n, a) PROVE SockInv'
      BY <3>2, <2>0, ClientStep DEF SocketUpdate, SockInv
    <3>3. ASSUME NEW n \in ClientIds, SocketClose(n) PROVE SockInv'
      <4>1. PICK a : a \in Addrs
        BY SockAssumption
      <4> QED BY <4>1, <3>3, <2>0, ClientStep DEF SocketClose, SockInv
    <3>4. ASSUME NEW n \in Ids, SocketRouteChanged(n) PROVE SockInv'
      <4>1. PICK ans \in SockAnswers(sock[n].prog) : SockBecomes(SocketOpenStep(SockState, n, ans))
        BY <3>4 DEF SocketRouteChanged
      <4>2. SockState.k[n].in
        BY <3>4, StateFields DEF SocketRouteChanged
      <4>3. Exact(SocketOpenStep(SockState, n, ans))
        BY <4>2, <2>0, OpenStepExact
      <4>4. Exact(SockState)'
        BY <4>1, <4>3, BecomesExact
      <4> QED BY <4>4, <3>4, <2>0 DEF SocketRouteChanged, SockInv
    <3>5. ASSUME NEW i \in Sessions, NEW a \in Addrs, NewSession(i, a) PROVE SockInv'
      BY <3>5, NewSessionStep
    <3>6. ASSUME NEW i \in Sessions,
                 DeleteSession(i) \/ SessionUp(i) \/ SessionDown(i) \/ SessionGone(i)
          PROVE  SockInv'
      <4>1. Exact(SockState)'
        BY <3>6, <2>0, SessionStep
      <4>2. UNCHANGED cursor
        BY <3>6 DEF DeleteSession, SessionUp, SessionDown, SessionGone
      <4> QED BY <4>1, <4>2, <2>0 DEF SockInv
    <3> QED BY <2>1, <3>1, <3>2, <3>3, <3>4, <3>5, <3>6 DEF SockHandler
  <2>2. CASE SocketsReset
    <3> DEFINE kk == [n \in Ids |-> NoSocket]
               dd == {i \in Sessions : ses[i].ptr # 0}
               T == [SockState EXCEPT !.k = kk, !.used = {}, !.feSock = {}, !.dangling = dd]
    <3>1. SockBecomes(T) /\ UNCHANGED cursor
      BY <2>2 DEF SocketsReset
    <3>2. /\ kk \in [Ids -> Socket \cup {NoSocket}] /\ \A n \in Ids : kk[n].in = FALSE
          /\ dd \in SUBSET Sessions
      BY DEF NoSocket
    <3>3. SockState \in States
      BY <2>0 DEF Exact
    <3>4. \A i \in Sessions \ dd : SockState.ses[i].ptr = 0
      BY StateFields
    <3> HIDE DEF kk, dd
    <3>5. /\ T \in States /\ T.k = kk /\ T.used = {} /\ T.feSock = {} /\ T.dangling = dd
          /\ T.ses = SockState.ses
      BY <3>2, <3>3 DEF States
    <3> HIDE DEF T
    <3>6. Private \subseteq Ids
      BY DEF Ids
    <3>7. Exact(T)
      BY <3>2, <3>4, <3>5, <3>6 DEF Exact
    <3>8. Exact(SockState)'
      BY <3>1, <3>7, BecomesExact
    <3> QED BY <3>1, <3>8, <2>0 DEF SockInv
  <2>3. CASE UNCHANGED sockVars
    <3>1. Exact(SockState)'
      BY <2>3, <2>0 DEF sockVars, SockState, Exact
    <3> QED BY <3>1, <2>0, <2>3 DEF SockInv, sockVars
  <2> QED BY <2>1, <2>2, <2>3 DEF SockNext
<1> QED BY <1>1, <1>2, PTL DEF SockSpec

(* The bitmap of private identifiers and the engine's sockets are exact,    *)
(* whatever commands fail on whatever path (new_socket_id, socket_remove,   *)
(* socket_send_cmd, __socket_close).                                        *)
THEOREM SocketsAlwaysTracked == SockSpec => []SocketsTracked
<1>1. SockInv => SocketsTracked
  BY StateFields DEF SockInv, Exact, SocketsTracked, IdsExact, EngineSocketsTracked
<1> QED BY <1>1, SocketsSafe, PTL

(* A session that is not known to dangle points to a socket there is, so    *)
(* that dangling records every use of a freed socket (l2tp.sock).           *)
THEOREM SessionPointersLive ==
    SockSpec => [](\A i \in Sessions \ dangling : ses[i].ptr # 0 => sock[ses[i].ptr].in)
<1>1. SockInv => \A i \in Sessions \ dangling : ses[i].ptr # 0 => sock[ses[i].ptr].in
  BY StateFields DEF SockInv, Exact
<1> QED BY <1>1, SocketsSafe, PTL
=============================================================================
