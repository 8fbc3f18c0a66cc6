---------------------------- MODULE OffloadReset ----------------------------
(***************************************************************************)
(* Offload with the "activate" command of the CLI (ffcontrol.c), which      *)
(* resets the forward engine and CMM's tables (cmmFeReset).                 *)
(***************************************************************************)
EXTENDS Offload

(* cmmFcActivate: cmmFeReset holds every table lock, so no handler is in    *)
(* progress.  The engine forgets everything; connections, routes and        *)
(* neighbours are freed.  The table of fast-path routes is left as it is.   *)
FeReset ==
  /\ pc = "idle"
  /\ External
  /\ engine_rt' = [i \in Ids |-> None]
  /\ engine_ct' = [c \in Cts |-> None]
  /\ ct' = [c \in Cts |-> NoCt]
  /\ slot' = [s \in Slots |-> 0]
  /\ route' = [s \in Slots |-> None]
  /\ rt' = [r \in Rts |-> FreeRt]
  /\ nb' = [g \in Gws |-> NoNeigh]
  /\ UNCHANGED <<fpp_rt_table, route_id, kroute, kmac, rq, nq, pc, cur, dir, job>>

ResetNext == Next \/ FeReset

ResetSpec == Init /\ [][ResetNext]_vars /\ WF_vars(HandlerStep)

(* "we still need to track the fpp state" (conntrack.c): an fpp_rt marked   *)
(* FPP_PROGRAMMED is a route the engine has.                                *)
FppStateTracked == \A i \in Ids : fpp_rt_table[i].prog => engine_rt[i] # None
=============================================================================
