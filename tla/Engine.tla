------------------------------- MODULE Engine -------------------------------
(***************************************************************************)
(* What CMM relies on a forward engine for: a table of next hops by route   *)
(* identifier and a table of connections, each leg of which names a next    *)
(* hop of the first or is disabled.  Where an update was refused half way,  *)
(* a leg is unknown until the next update or removal.                       *)
(***************************************************************************)
EXTENDS Integers

CONSTANTS Ids, Dsts, Cts, None

VARIABLES engine_rt, engine_ct

engineVars == <<engine_rt, engine_ct>>

Legs == {"orig", "rep"}
Unknown == -1

EngineInit ==
  /\ engine_rt = [i \in Ids |-> None]
  /\ engine_ct = [c \in Cts |-> None]

Uses(c, i) == engine_ct[c] # None /\ \E l \in Legs : engine_ct[c][l] = i

(* The commands.                                                            *)
AddRoute(i, d) ==
  /\ engine_rt[i] = None
  /\ engine_rt' = [engine_rt EXCEPT ![i] = d]
  /\ UNCHANGED engine_ct

RemoveRoute(i) ==
  /\ \A c \in Cts : ~ Uses(c, i)
  /\ engine_rt' = [engine_rt EXCEPT ![i] = None]
  /\ UNCHANGED engine_ct

(* Only an update that is refused leaves legs unknown: a registration does   *)
(* all or nothing.                                                          *)
PutCt(c, v) ==
  /\ engine_ct[c] = None => \A l \in Legs : v[l] # Unknown
  /\ \A l \in Legs : v[l] \notin {0, Unknown} => engine_rt[v[l]] # None
  /\ engine_ct' = [engine_ct EXCEPT ![c] = v]
  /\ UNCHANGED engine_rt

DropCt(c) ==
  /\ engine_ct' = [engine_ct EXCEPT ![c] = None]
  /\ UNCHANGED engine_rt

EngineNext ==
  \/ \E i \in Ids, d \in Dsts : AddRoute(i, d)
  \/ \E i \in Ids : RemoveRoute(i)
  \/ \E c \in Cts, v \in [Legs -> Ids \cup {0, Unknown}] : PutCt(c, v)
  \/ \E c \in Cts : DropCt(c)

EngineSpec == EngineInit /\ [][EngineNext]_engineVars
=============================================================================
