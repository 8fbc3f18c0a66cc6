------------------------------- MODULE L2Flow -------------------------------
(***************************************************************************)
(* Bridged flows (module_rx.c and forward_engine.c, built with              *)
(* AUTO_BRIDGE).  The kernel's bridge monitor (ABM) announces flows and is  *)
(* told whether they are offloaded; the engine drops idle flows by itself   *)
(* and says so.  The handlers hold brMutex and run in one thread.           *)
(***************************************************************************)
EXTENDS Integers, FiniteSets, Sequences

CONSTANTS
    Flows,          \* bridged flows
    L2Itfs,         \* interfaces they go through
    L2Queue         \* bound: notices of the engine under way

ASSUME L2Assumption == L2Queue \in Nat

VARIABLES
    l2Table,        \* l2flow_table, by flow
    l2Itf,          \* the interface table: "prog", "down" or "gone"
    l2Engine,       \* the flows of the engine
    l2Notices,      \* FPP_CMD_RX_L2FLOW_ENTRY events: the flows that timed out
    l2Told,         \* what ABM was told last about each flow
    l2Stuck,        \* flows whose removal or change failed: the engine refused,
                    \* or the interface had no name any more
    l2Forgot        \* flows ABM takes for offloaded that a reset took away
l2Vars == <<l2Table, l2Itf, l2Engine, l2Notices, l2Told, l2Stuck, l2Forgot>>

(* struct l2flowTable: idev_ifi and odev_ifi are "none" until set.          *)
NoFlow == [in |-> FALSE, prog |-> FALSE, needs |-> FALSE, idev |-> "none", odev |-> "none"]
NewFlow == [NoFlow EXCEPT !.in = TRUE, !.needs = TRUE]
L2Entry == [in : BOOLEAN, prog : BOOLEAN, needs : BOOLEAN,
            idev : L2Itfs \cup {"none"}, odev : L2Itfs \cup {"none"}]

(* __itf_is_programmed is -1, and so true, for an interface that is gone.   *)
L2Allowed(i) == l2Itf[i] # "down"
Named(i) == i # "none" /\ l2Itf[i] # "gone"

(* cmmFeL2FlowUpdate.  S is [e |-> entry, fe |-> in the engine]; ok is what *)
(* the engine says.  Only the input interface is named in a removal.        *)
FeAddUpdate(S, ok) ==
    IF S.e.prog /\ ~S.e.needs THEN [S EXCEPT !.rc = TRUE]
    ELSE IF ~Named(S.e.idev) \/ ~Named(S.e.odev) \/ ~ok \/ (S.e.prog /\ ~S.fe)
         THEN [S EXCEPT !.rc = FALSE]
         ELSE [S EXCEPT !.rc = TRUE, !.fe = TRUE, !.e.prog = TRUE, !.e.needs = FALSE]

(* Wrong: the flag is cleared although the engine refused.                  *)
FeRemoveForgets(S, ok) ==
    [S EXCEPT !.rc = TRUE, !.fe = @ /\ ~ok, !.e.prog = FALSE]
FeRemove(S, ok) ==
    IF ~S.e.prog THEN [S EXCEPT !.rc = TRUE]
    ELSE IF ~Named(S.e.idev) \/ (~ok /\ S.fe) THEN [S EXCEPT !.rc = FALSE]
         ELSE [S EXCEPT !.rc = TRUE, !.fe = FALSE, !.e.prog = FALSE]

L2State(f) == [e |-> l2Table[f], fe |-> f \in l2Engine, rc |-> TRUE]
L2Becomes(f, S, told) ==
    /\ l2Table' = [l2Table EXCEPT ![f] = S.e]
    /\ l2Engine' = IF S.fe THEN l2Engine \cup {f} ELSE l2Engine \ {f}
    /\ l2Told' = [l2Told EXCEPT ![f] = told]
    /\ l2Forgot' = l2Forgot \ {f}
    /\ l2Stuck' = CASE S.fe = S.e.prog /\ (S.rc \/ ~S.fe) -> l2Stuck \ {f}
                    [] ~S.rc /\ (S.fe \/ S.e.prog) -> l2Stuck \cup {f}
                    [] OTHER -> l2Stuck

(* __cmm_l2flow_register with its answer to ABM.                            *)
Registered(f, i, o) ==
    LET e0 == IF l2Table[f].in THEN l2Table[f] ELSE NewFlow
        allowed == L2Allowed(i) /\ L2Allowed(o)
    IN  [L2State(f) EXCEPT !.e = [e0 EXCEPT
             !.needs = (@ /\ allowed) \/ e0.idev # i \/ e0.odev # o, !.idev = i, !.odev = o]]

Register(f, i, o) ==
    \E ok \in BOOLEAN :
       LET S == Registered(f, i, o)
           A == FeAddUpdate(S, ok)
           R == FeRemove(S, ok)
       IN  /\ IF L2Allowed(i) /\ L2Allowed(o)
              THEN L2Becomes(f, A, IF A.rc THEN "offloaded" ELSE "denied")
              ELSE L2Becomes(f, R, "denied")
           /\ UNCHANGED <<l2Itf, l2Notices>>

(* Wrong: the entry goes whether or not the engine let go of the flow.      *)
DeregisteredAlways(f, ok) == [FeRemove(L2State(f), ok) EXCEPT !.e = NoFlow]
(* __cmm_l2flow_deregister: ABM is told "in all case".                      *)
Deregistered(f, ok) ==
    LET S == FeRemove(L2State(f), ok)
    IN  IF ~l2Table[f].in \/ ~S.rc THEN S ELSE [S EXCEPT !.e = NoFlow]

Deregister(f) ==
    /\ \E ok \in BOOLEAN : L2Becomes(f, Deregistered(f, ok), "deleted")
    /\ UNCHANGED <<l2Itf, l2Notices>>

(* __cmm_l2flow_reset, for ABM and for cmmFeReset: the table is kept when   *)
(* the engine refuses.  ABM is told nothing.                                *)
L2Reset(ok) ==
    /\ l2Table' = IF ok THEN [f \in Flows |-> NoFlow] ELSE l2Table
    /\ l2Engine' = IF ok THEN {} ELSE l2Engine
    /\ l2Stuck' = IF ok THEN {} ELSE l2Stuck
    /\ l2Forgot' = l2Forgot \cup {f \in Flows : ok /\ l2Told[f] = "offloaded"}
    /\ UNCHANGED <<l2Itf, l2Notices, l2Told>>

(* cmm_l2flow_netlink_rcv.                                                  *)
AbmMessage ==
    \/ \E f \in Flows, i, o \in L2Itfs : i # o /\ Register(f, i, o)
    \/ \E f \in Flows : Deregister(f)
    \/ \E ok \in BOOLEAN : L2Reset(ok)

(* The engine drops an idle flow; its notice is on the way.                 *)
EngineDrops(f) ==
    /\ f \in l2Engine /\ Len(l2Notices) < L2Queue
    /\ l2Engine' = l2Engine \ {f}
    /\ l2Notices' = Append(l2Notices, f)
    /\ UNCHANGED <<l2Table, l2Itf, l2Told, l2Stuck, l2Forgot>>

(* Wrong: the notice is not passed on to ABM.                               *)
L2FlowChangeSilent ==
    /\ l2Notices # <<>>
    /\ \E ok \in BOOLEAN :
          L2Becomes(Head(l2Notices), Deregistered(Head(l2Notices), ok), l2Told[Head(l2Notices)])
    /\ l2Notices' = Tail(l2Notices)
    /\ UNCHANGED l2Itf
(* cmmFeL2FlowChange.                                                       *)
L2FlowChange ==
    /\ l2Notices # <<>>
    /\ \E ok \in BOOLEAN :
          L2Becomes(Head(l2Notices), Deregistered(Head(l2Notices), ok), "deleted")
    /\ l2Notices' = Tail(l2Notices)
    /\ UNCHANGED l2Itf

(* An interface changes; the index of one that is gone is not used again.   *)
L2Link(i, s) ==
    /\ l2Itf[i] \notin {s, "gone"}
    /\ l2Itf' = [l2Itf EXCEPT ![i] = s]
    /\ UNCHANGED <<l2Table, l2Engine, l2Notices, l2Told, l2Stuck, l2Forgot>>

L2Init ==
    /\ l2Table = [f \in Flows |-> NoFlow] /\ l2Itf = [i \in L2Itfs |-> "prog"]
    /\ l2Engine = {} /\ l2Notices = <<>>
    /\ l2Told = [f \in Flows |-> "deleted"] /\ l2Stuck = {} /\ l2Forgot = {}

L2Next ==
    \/ AbmMessage
    \/ \E f \in Flows : EngineDrops(f)
    \/ L2FlowChange
    \/ \E i \in L2Itfs, s \in {"prog", "down", "gone"} : L2Link(i, s)

L2Spec == L2Init /\ [][L2Next]_l2Vars

-----------------------------------------------------------------------------
Noticed(f) == \E k \in DOMAIN l2Notices : l2Notices[k] = f

(***************************************************************************)
(* Every flow of the engine has an entry marked programmed, and a flow      *)
(* marked programmed is in the engine or its notice is on the way, whatever *)
(* the order of ABM's messages, notices and link changes, and whatever      *)
(* fails (cmmFeL2FlowUpdate, __cmm_l2flow_deregister).  The second part is  *)
(* lost when the flow's interface is gone as the notice arrives (l2Stuck).  *)
(***************************************************************************)
FlowsTracked ==
    \A f \in Flows :
        /\ f \in l2Engine => l2Table[f].in /\ l2Table[f].prog
        /\ l2Table[f].prog => f \in l2Engine \/ Noticed(f) \/ f \in l2Stuck

(***************************************************************************)
(* ABM's picture is right: a flow it takes for offloaded is in the engine   *)
(* or it is about to hear that it is not, and a flow it takes for anything  *)
(* else is in the engine only if the engine refused to let go of it or the  *)
(* interface had lost its name ("it is needed to ack ABM whatever").  A     *)
(* reset is the exception: __cmm_l2flow_reset drops the flows without a     *)
(* word to ABM, whose picture stays wrong until it next hears of the flow   *)
(* (l2Forgot).                                                              *)
(***************************************************************************)
AbmInformed ==
    \A f \in Flows :
        IF l2Told[f] = "offloaded"
        THEN f \in l2Engine \/ Noticed(f) \/ f \in l2Stuck \cup l2Forgot
        ELSE f \in l2Engine => f \in l2Stuck
=============================================================================
