------------------------------ MODULE MCDaemon ------------------------------
(***************************************************************************)
(* The daemon and its clients.  A behaviour is about one of                *)
(*   - two clients and the thread that serves them: one uses every kind of *)
(*     loop there is, the other those that can disturb it;                 *)
(*   - the three threads, their mutexes and the end of the daemon.         *)
(***************************************************************************)
EXTENDS Clients, Locks, Handlers

VARIABLE focus

daemonVars == <<clVars, lockVars, focus>>

MayList ==
    [c1 |-> {"route", "macvlan", "pppoe", "tunnel", "stat_pppoe", "rx", "vlan_show", "socket_show", "qm"},
     c2 |-> {"route", "rx", "single"}]

Lens ==
    [t \in EngineTables |->
        CASE t = "rx_status" -> 0
          [] t \in {"route", "rx_bridge", "qm"} -> 2
          [] OTHER -> 1]

\* A listing that no client uses here differs from one that does only in the
\* table it lists or the listing that follows it.
Shape(k) == [Kind[k] EXCEPT !.table = "any", !.then = "any"]

ASSUME EveryShapeChecked ==
    \A k \in DOMAIN Kind : \E c \in Clients : \E r \in May[c] : Shape(k) = Shape(r)

\* Handlers of each thread with the nestings that meet those of the others.
Met == {"cmmCtResync", "cmmSASetTunnel", "cmmRtnlRoute", "socket_command",
        "mc_reset_command", "cmmKeyEngineFlow2Conntrack", "cmmRtShow", "cmmCtShow", "cmmFcActivate"}
AllHandlers == DOMAIN CtHandlers \cup DOMAIN DaemonHandlers \cup DOMAIN CliHandlers
NotMet == AllHandlers \ Met

\* Without the flow cache, the one handler that nests mutexes in an order of
\* its own.  All the others agree, so that no choice of them can wait in a
\* circle (see LocksProofs); with the flow cache all of them do.
OutOfOrder == IF FlowCache THEN {} ELSE {"cmmCtShow"}

ASSUME HandlersOrdered ==
    /\ WellFormed(ProgramsWithout({}))
    /\ Ordered(ProgramsWithout(OutOfOrder))

DaemonInit == ClInit /\ LockInit /\ focus \in {"clients", "threads"}

DaemonNext ==
    \/ focus = "clients" /\ ClNext /\ UNCHANGED <<lockVars, focus>>
    \/ focus = "threads" /\ LockNext /\ UNCHANGED <<clVars, focus>>

DaemonSpec == DaemonInit /\ [][DaemonNext]_daemonVars /\ ClFairness /\ LockFairness
=============================================================================
