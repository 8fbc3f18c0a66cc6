------------------------------- MODULE Mcast -------------------------------
(***************************************************************************)
(* Multicast groups (module_mcast.c, module_mc4.c, module_mc6.c).  A group  *)
(* is an array of listeners with a flag each, l_program: whether the engine *)
(* has the listener.  A command changes the table under the locks and is    *)
(* passed to the engine after they are released, so a link event or another *)
(* command may come in between.  A listener of the model is an interface    *)
(* with a MAC address or without; a MAC address is behind one interface.    *)
(* Listeners of the pseudo interface "acp" are never in the table.          *)
(* memcpy towards lower addresses moves a region that overlaps, as the      *)
(* C library of the target does.                                            *)
(***************************************************************************)
EXTENDS Integers, FiniteSets, SequencesExt

CONSTANTS
    Groups,         \* multicast groups
    FamilyOf,       \* the address family of each, 4 or 6
    Listeners,      \* listeners
    ItfOf,          \* the interface of each listener
    MaxListeners,   \* MC_MAX_LISTENERS_PER_GROUP
    BatchMax,       \* MCx_MAX_LISTENERS_IN_QUERY: the client sends a batch at this size
    McThreads       \* the threads that run commands (the daemon thread alone)

ASSUME McAssumption ==
    /\ FamilyOf \in [Groups -> {4, 6}] /\ MaxListeners \in Nat \ {0} /\ BatchMax \in Nat \ {0}
    /\ "none" \notin Listeners

VARIABLES
    mcTable,        \* mc_table
    mcUp,           \* the interfaces that are FPP_PROGRAMMED
    mcEngine,       \* the listeners the engine has, by group
    mcPending,      \* what each thread still has to do for its command
    mcOdd,          \* listeners about which the engine refused a command, or two
                    \* commands overlapped, or which the engine alone moved
    mcTorn          \* groups where a command had a new listener after a duplicate
mcVars == <<mcTable, mcUp, mcEngine, mcPending, mcOdd, mcTorn>>

McItfs == {ItfOf[x] : x \in Listeners} \ {"acp"}
Slots == 1..MaxListeners

(* struct mcast_entry; l beyond num is what earlier contents left there.    *)
NoGroup == [num |-> 0, l |-> [k \in Slots |-> "none"], p |-> [k \in Slots |-> FALSE]]
Visible(G) == {G.l[k] : k \in 1..G.num}
Programmed(G) == {G.l[k] : k \in {k \in 1..G.num : G.p[k]}}

(* The commands a client builds: listeners of one interface, up to a batch; *)
(* one may be named twice.                                                  *)
Batches == {b \in BoundedSeq(Listeners, BatchMax) :
               b # <<>> /\ \A j, k \in DOMAIN b : ItfOf[b[j]] = ItfOf[b[k]]}
NoCommand == [do |-> "none"]
Command(do, g, b) == [do |-> do, g |-> g, b |-> b]
About(c) == IF c.do = "none" THEN {} ELSE {<<c.g, x>> : x \in ToSet(c.b)}
AboutOthers(t) == UNION {About(mcPending[s]) : s \in McThreads \ {t}}

(* mc_add, one listener: a duplicate does not use its slot but advances all *)
(* the same; nothing is stored beyond the last slot.                        *)
AddOne(T, x, p) ==
    CASE T.i = MaxListeners -> T
      [] T.i < MaxListeners /\ (\E k \in 1..T.i : T.G.l[k] = x) ->
            [T EXCEPT !.i = @ + 1, !.dup = @ + 1]
      [] OTHER -> [T EXCEPT !.i = @ + 1, !.G.l[T.i + 1] = x, !.G.p[T.i + 1] = p]

(* Wrong: duplicates are not looked for.                                    *)
McAddAgain(G, b, p) ==
    FoldLeft(LAMBDA H, x : IF H.num = MaxListeners THEN H
                           ELSE [H EXCEPT !.num = @ + 1, !.l[H.num + 1] = x, !.p[H.num + 1] = p], G, b)
McAdd(G, b, p) ==
    LET T == FoldLeft(LAMBDA R, x : AddOne(R, x, p), [G |-> G, i |-> G.num, dup |-> 0], b)
    IN  [T.G EXCEPT !.num = T.i - T.dup]

(* A command with a new listener after a duplicate.                         *)
Duplicate(G, b, j) == b[j] \in Visible(G) \/ \E k \in 1..(j - 1) : b[k] = b[j]
Tears(G, b) == \E j, k \in DOMAIN b : j < k /\ Duplicate(G, b, j) /\ ~Duplicate(G, b, k)

(* Wrong: the flags are not moved along.                                    *)
RemoveOneFlags(G, x) ==
    LET at == {k \in 1..G.num : G.l[k] = x}
        j == CHOOSE k \in at : \A m \in at : k <= m
    IN  IF at = {} THEN G
        ELSE [G EXCEPT !.num = @ - 1,
                       !.l = [k \in Slots |-> IF k \in j..(G.num - 1) THEN G.l[k + 1] ELSE G.l[k]]]
(* mc_remove, one listener: the first that matches; the rest moves down.    *)
RemoveOne(G, x) ==
    LET at == {k \in 1..G.num : G.l[k] = x}
        j == CHOOSE k \in at : \A m \in at : k <= m
        down(f) == [k \in Slots |-> IF k \in j..(G.num - 1) THEN f[k + 1] ELSE f[k]]
    IN  IF at = {} THEN G ELSE [G EXCEPT !.num = @ - 1, !.l = down(G.l), !.p = down(G.p)]

(* mc_remove frees a group without listeners.                               *)
RemoveThese(G, b) == FoldLeft(LAMBDA R, x : RemoveOne(R, x), G, b)
McRemove(G, b) == LET H == RemoveThese(G, b) IN IF H.num = 0 THEN NoGroup ELSE H
(* The flag of every listener that goes is set.                             *)
RemovedAll(G, b) ==
    \A n \in DOMAIN b :
        LET H == RemoveThese(G, SubSeq(b, 1, n - 1))
            at == {k \in 1..H.num : H.l[k] = b[n]}
        IN  \A j \in at : (\A m \in at : j <= m) => H.p[j]

(* mc_update: the flag of the last listener that the command names, with the *)
(* command's order before the table's; set when it names none.              *)
McUpdate(G, b) ==
    LET hits == {h \in (1..Len(b)) \X (1..G.num) : G.l[h[2]] = b[h[1]]}
        Later(h, o) == o[1] < h[1] \/ (o[1] = h[1] /\ o[2] <= h[2])
    IN  \A h \in hits : (\A o \in hits : Later(h, o)) => G.p[h[2]]

(* Nothing is odd about a listener that is nowhere any more, or of "acp".   *)
StillOdd(odd, table, engine, pending) ==
    {o \in {o \in odd : ItfOf[o[2]] # "acp"} :
                 \/ o[2] \in Visible(table[o[1]]) \cup engine[o[1]]
                 \/ \E t \in McThreads : o \in About(pending[t])}
McBecomes(table, engine, pending, odd) ==
    /\ mcTable' = table /\ mcEngine' = engine /\ mcPending' = pending
    /\ mcOdd' = StillOdd(odd, table, engine, pending)
McTears(gs) == mcTorn' = {g \in mcTorn \cup gs : mcTable'[g].num # 0 \/ mcEngine'[g] # {}}

(***************************************************************************)
(* mcX_update_entry, under the locks.  The command goes on to the engine    *)
(* unless the table refused it or the interface is not programmed.          *)
(***************************************************************************)
McGoesOn(t, do, g, b, go) ==
    [mcPending EXCEPT ![t] = IF go THEN Command(do, g, b) ELSE NoCommand]
McRaced(t, g, b) == {o \in AboutOthers(t) : o[1] = g /\ o[2] \in ToSet(b)}
IsAcp(b) == ItfOf[b[1]] = "acp"

(* A command about "acp" goes to the engine as it is.                       *)
UpdateEntryAcp(t, g, b, do) ==
    /\ mcPending[t] = NoCommand /\ IsAcp(b)
    /\ McBecomes(mcTable, mcEngine, McGoesOn(t, do, g, b, TRUE), mcOdd)
    /\ McTears({}) /\ UNCHANGED mcUp

(* CMMD_MC_ACTION_ADD: nothing changes when the group is full.              *)
UpdateEntryAdd(t, g, b) ==
    /\ mcPending[t] = NoCommand /\ ~IsAcp(b)
    /\ mcTable[g].num < MaxListeners
    /\ LET prog == ItfOf[b[1]] \in mcUp
           G == McAdd(mcTable[g], b, prog)
           lost == {x \in ToSet(b) : x \notin Visible(G)}
       IN  McBecomes([mcTable EXCEPT ![g] = G], mcEngine, McGoesOn(t, "add", g, b, prog),
                     mcOdd \cup McRaced(t, g, b) \cup {<<g, x>> : x \in lost})
    /\ McTears(IF Tears(mcTable[g], b) THEN {g} ELSE {})
    /\ UNCHANGED mcUp

(* CMMD_MC_ACTION_REMOVE: one listener that is not programmed keeps the     *)
(* whole command from the engine.                                           *)
UpdateEntryRemove(t, g, b) ==
    /\ mcPending[t] = NoCommand /\ ~IsAcp(b)
    /\ mcTable[g].num # 0
    /\ LET go == RemovedAll(mcTable[g], b)
           kept == IF go THEN {} ELSE ToSet(b) \cap Programmed(mcTable[g])
       IN  McBecomes([mcTable EXCEPT ![g] = McRemove(mcTable[g], b)], mcEngine,
                     McGoesOn(t, "remove", g, b, go),
                     mcOdd \cup McRaced(t, g, b) \cup {<<g, x>> : x \in kept})
    /\ McTears({}) /\ UNCHANGED mcUp

(* CMMD_MC_ACTION_UPDATE: the table files the listener as before, under the *)
(* old interface also when the client gives a new one ("move").             *)
UpdateEntryUpdate(t, g, b, do) ==
    /\ mcPending[t] = NoCommand /\ ~IsAcp(b)
    /\ mcTable[g].num # 0
    /\ McBecomes(mcTable, mcEngine, McGoesOn(t, do, g, b, McUpdate(mcTable[g], b)), mcOdd)
    /\ McTears({}) /\ UNCHANGED mcUp

(***************************************************************************)
(* cpal_cmd, without a lock, and what the client makes of the answer.       *)
(* Another group may overlap one the engine does not have yet; the client   *)
(* then asks for CMMD_MC_ACTION_REMOVE_LOCAL, but not after a full IPv4     *)
(* batch, where it takes the comparison for the result.  A listener that is *)
(* moved is behind another interface in the engine only.                    *)
(***************************************************************************)
Forward(t) ==
    LET c == mcPending[t]
        about == About(c)
        ends == [mcPending EXCEPT ![t] = NoCommand]
        overlap == [mcPending EXCEPT ![t] = Command("removelocal", c.g, c.b)]
        Behind(i) == {<<c.g, x>> : x \in {x \in Listeners : ItfOf[x] = i}}
    IN  /\ c.do \in {"add", "remove", "update", "move"}
        /\ \/ /\ c.do = "add"
              /\ McBecomes(mcTable, [mcEngine EXCEPT ![c.g] = @ \cup ToSet(c.b)], ends, mcOdd)
           \/ /\ c.do = "remove"
              /\ McBecomes(mcTable, [mcEngine EXCEPT ![c.g] = @ \ ToSet(c.b)], ends, mcOdd)
           \/ /\ c.do = "update"
              /\ McBecomes(mcTable, mcEngine, ends, mcOdd)
           \/ /\ c.do = "move"
              /\ \E i \in McItfs : McBecomes(mcTable, mcEngine, ends, mcOdd \cup about \cup Behind(i))
           \/ /\ c.do \in {"add", "remove"}
              /\ McBecomes(mcTable, mcEngine, ends, mcOdd \cup about)
           \/ /\ c.do = "add" /\ mcEngine[c.g] = {}
              /\ Len(c.b) < BatchMax \/ FamilyOf[c.g] = 6
              /\ McBecomes(mcTable, mcEngine, overlap, mcOdd)
        /\ McTears({}) /\ UNCHANGED mcUp

(* mc_remove_group: the whole group goes, with what others put there.       *)
RemoveLocal(t) ==
    LET g == mcPending[t].g IN
    /\ mcPending[t].do = "removelocal"
    /\ McBecomes([mcTable EXCEPT ![g] = NoGroup], mcEngine, [mcPending EXCEPT ![t] = NoCommand],
                 mcOdd \cup {o \in AboutOthers(t) : o[1] = g} \cup {<<g, x>> : x \in mcEngine[g]})
    /\ McTears({}) /\ UNCHANGED mcUp

(* CMMD_CMD_MCx_RESET: the table is emptied whatever the engine answers.    *)
Reset(f) ==
    /\ \E ok \in BOOLEAN :
          LET gs == {g \in Groups : FamilyOf[g] = f}
              left == IF ok THEN {} ELSE {o \in gs \X Listeners : o[2] \in mcEngine[o[1]]}
          IN  McBecomes([g \in Groups |-> IF g \in gs THEN NoGroup ELSE mcTable[g]],
                        [g \in Groups |-> IF g \in gs /\ ok THEN {} ELSE mcEngine[g]],
                        mcPending,
                        mcOdd \cup left \cup {o \in AboutOthers("none") : o[1] \in gs})
    /\ McTears({}) /\ UNCHANGED mcUp

(* mcX_send_command: the listeners of the interface whose flag differs; the *)
(* flag is set whatever the engine answers.                                 *)
Sent(G, i, prog) == {k \in 1..G.num : G.l[k] # "none" /\ ItfOf[G.l[k]] = i /\ G.p[k] # prog}

(* Wrong: a listener of an interface that comes up is left for later.       *)
SendCommandDown(G, i, prog) == [G EXCEPT !.p = [k \in Slots |-> IF k \in Sent(G, i, prog) THEN FALSE ELSE @[k]]]
SendCommand(G, i, prog) ==
    [G EXCEPT !.p = [k \in Slots |-> IF k \in Sent(G, i, prog) THEN prog ELSE @[k]]]

(* updatelink for an interface that comes up or goes down: mc_update_table. *)
UpdateTable(i) ==
    LET prog == i \notin mcUp
        sent == [g \in Groups |-> {mcTable[g].l[k] : k \in Sent(mcTable[g], i, prog)}]
        raced == {o \in AboutOthers("none") : ItfOf[o[2]] = i}
    IN  \E ok \in [Groups -> BOOLEAN] :
           /\ \A g \in Groups : sent[g] = {} => ok[g]
           /\ mcUp' = IF prog THEN mcUp \cup {i} ELSE mcUp \ {i}
           /\ McBecomes([g \in Groups |-> SendCommand(mcTable[g], i, prog)],
                        [g \in Groups |-> CASE ~ok[g] -> mcEngine[g]
                                            [] ok[g] /\ prog -> mcEngine[g] \cup sent[g]
                                            [] OTHER -> mcEngine[g] \ sent[g]],
                        mcPending,
                        mcOdd \cup raced \cup {o \in Groups \X Listeners : ~ok[o[1]] /\ o[2] \in sent[o[1]]})
           /\ McTears({})

McInit ==
    /\ mcTable = [g \in Groups |-> NoGroup] /\ mcUp = {}
    /\ mcEngine = [g \in Groups |-> {}]
    /\ mcPending = [t \in McThreads |-> NoCommand] /\ mcOdd = {} /\ mcTorn = {}

McNext ==
    \/ \E t \in McThreads :
          \/ \E g \in Groups, b \in Batches :
                \/ UpdateEntryAdd(t, g, b) \/ UpdateEntryRemove(t, g, b)
                \/ \E do \in {"update", "move"} : UpdateEntryUpdate(t, g, b, do)
                \/ \E do \in {"add", "remove", "update", "move"} : UpdateEntryAcp(t, g, b, do)
          \/ Forward(t) \/ RemoveLocal(t)
    \/ \E f \in {4, 6} : Reset(f)
    \/ \E i \in McItfs : UpdateTable(i)

McSpec == McInit /\ [][McNext]_mcVars

-----------------------------------------------------------------------------
(***************************************************************************)
(* The engine has exactly the listeners whose l_program flag is set, once   *)
(* no command about them is on its way, whatever happened to the table:     *)
(* listeners removed before them, interfaces flapping, full groups (mc_add, *)
(* mc_remove, mcX_send_command).  The code keeps them in step neither for   *)
(* "acp", which the table never has, nor for those of mcOdd (the command is *)
(* sent after the locks are released, its refusal is not undone, and a move *)
(* is not written into the table): what happens to those must leave all     *)
(* others in step.  A group in mcTorn is left out, since mc_add stores a    *)
(* listener after a duplicate one slot too far.                             *)
(***************************************************************************)
ListenersInStep ==
    \A g \in Groups \ mcTorn, x \in Listeners :
        ItfOf[x] # "acp" /\ <<g, x>> \notin mcOdd \cup AboutOthers("none") =>
            (x \in mcEngine[g] <=> x \in Programmed(mcTable[g]))

(***************************************************************************)
(* A listener is in a group once: what is beyond the last listener never    *)
(* comes back (the search for a "Duplicate entry" in mc_add, the hole that  *)
(* mc_remove fills), unless the group is in mcTorn.                         *)
(***************************************************************************)
ListedOnce ==
    \A g \in Groups \ mcTorn :
        Cardinality(Visible(mcTable[g]) \ {"none"}) = mcTable[g].num

(* Groups name each listener once, and the engine has the same listeners.   *)
GroupsInStep == ListenersInStep /\ ListedOnce
=============================================================================
