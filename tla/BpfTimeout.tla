----------------------------- MODULE BpfTimeout -----------------------------
(***************************************************************************)
(* How cpal_bpf.c finds idle connections.  Every 500 ms the conntrack       *)
(* thread walks the connection map (cpal_catch, check_ipv4_timeout and its  *)
(* IPv6 twin) while the XDP program marks the entries it forwards packets   *)
(* by, and the daemon thread may stop and resume fast forwarding.           *)
(*                                                                         *)
(* A leg's age is current_timer - last_timer, counted up to one past the    *)
(* timeout.  The connections are of one protocol.                           *)
(***************************************************************************)
EXTENDS Integers, Sequences, SequencesExt

CONSTANTS
  Order,    \* the connections in the order in which the map lists them
  Bidir,    \* the timeout of a connection
  Unidir,   \* the timeout of a UDP connection without replies
  Quarter,  \* MAX_IPV4_ENTRIES >> CONNECTION_CHECK_RATIO_LOG
  Udp,      \* the connections that start unidirectional
  None

Conns == ToSet(Order)
Legs == {"orig", "rep"}
Inf == -1                          \* UDP_REPLY_TIMER_INF, as an age
Cap == (IF Bidir > Unidir THEN Bidir ELSE Unidir) + 1

ASSUME TimeoutsAre == Bidir \in Nat /\ Unidir \in Nat /\ Quarter \in Nat
ASSUME UdpAre == Udp \subseteq Conns /\ None \notin Conns

VARIABLES
  conn,    \* the map: the two entries of each connection
  idle,    \* ticks since the last packet, forwarded fast or by the kernel
  enabled, \* ff_enable
  resetting, \* FF_CONTROL has set ff_enable, the timers are not reset yet
  pc,      \* "sleep", "next" or "apply"
  key, count, seen  \* of the walk: its key, its count, the entries it read

vars == <<conn, idle, enabled, resetting, pc, key, count, seen>>

Fresh(c) == [age |-> [orig |-> 0, rep |-> IF c \in Udp THEN Inf ELSE 0],
             active |-> [l \in Legs |-> FALSE]]

NotIdle == [l \in Legs |-> 0]

Init ==
  /\ conn = [c \in Conns |-> None]
  /\ idle = [c \in Conns |-> NotIdle]
  /\ enabled = TRUE /\ resetting = FALSE
  /\ pc = "sleep" /\ key = None /\ count = 0 /\ seen = None

Older(a) == IF a = Inf THEN Inf ELSE IF a < Cap THEN a + 1 ELSE Cap

Aged(e) == IF e = None THEN None
           ELSE [e EXCEPT !.age = [l \in Legs |-> Older(e.age[l])]]

(* The entry that bpf_map_get_next_key finds: the first one after the key,  *)
(* or the first of all when the key itself has been deleted.                *)
Present == {i \in DOMAIN Order : conn[Order[i]] # None}
After == {i \in Present : key \in Conns => conn[key] = None
                                          \/ \E j \in 1..(i - 1) : Order[j] = key}
NextKey == {Order[i] : i \in {i \in After : \A j \in After : i <= j}}

-----------------------------------------------------------------------------
(* A packet of connection c.  The XDP program (external) marks the entry by *)
(* which it forwards; a first reply makes a connection bidirectional.       *)
Packet(c, l) ==
  /\ conn[c] # None
  /\ idle' = [idle EXCEPT ![c][l] = 0]
  /\ IF enabled
     THEN conn' = [conn EXCEPT ![c].active[l] = TRUE,
                               ![c].age[l] = IF @ = Inf THEN 0 ELSE @]
     ELSE UNCHANGED conn
  /\ UNCHANGED <<enabled, resetting, pc, key, count, seen>>

(* cpal_IPV4_CONNTRACK in the conntrack thread: REGISTER and DEREGISTER.    *)
Register(c) ==
  /\ pc = "sleep"
  /\ conn[c] = None
  /\ conn' = [conn EXCEPT ![c] = Fresh(c)]
  /\ UNCHANGED <<idle, enabled, resetting, pc, key, count, seen>>

Deregister(c) ==
  /\ pc = "sleep"
  /\ conn[c] # None
  /\ conn' = [conn EXCEPT ![c] = None]
  /\ idle' = [idle EXCEPT ![c] = NotIdle]
  /\ UNCHANGED <<enabled, resetting, pc, key, count, seen>>

(* cpal_IPV4_FF_CONTROL in the daemon thread.  cmmFeFFControl sends it only *)
(* for a change.                                                            *)
FFDisable ==
  /\ enabled /\ ~ resetting
  /\ enabled' = FALSE
  /\ UNCHANGED <<conn, idle, resetting, pc, key, count, seen>>

FFEnable ==
  /\ ~ enabled
  /\ enabled' = TRUE /\ resetting' = TRUE
  /\ UNCHANGED <<conn, idle, pc, key, count, seen>>

(* A bug to compare with: only the originator's timer is reset.             *)
ResetOrigOnly(e) ==
  IF e = None THEN None
  ELSE [age |-> [e.age EXCEPT !["orig"] = 0], active |-> [l \in Legs |-> FALSE]]

(* reset_ipv4_timeouts, for one connection.                                 *)
ResetEntry(e) ==
  IF e = None THEN None
  ELSE [age |-> [l \in Legs |-> IF e.age[l] = Inf THEN Inf ELSE 0],
        active |-> [l \in Legs |-> e.age[l] = Inf /\ e.active[l]]]

FFReset ==
  /\ resetting
  /\ resetting' = FALSE
  /\ conn' = [c \in Conns |-> ResetEntry(conn[c])]
  /\ UNCHANGED <<idle, enabled, pc, key, count, seen>>

-----------------------------------------------------------------------------
(* cpal_catch: the timer has fired.  Without an error in the walk it is     *)
(* armed again.                                                             *)
Tick ==
  /\ pc = "sleep"
  /\ conn' = [c \in Conns |-> Aged(conn[c])]
  /\ idle' = [c \in Conns |-> IF conn[c] = None THEN idle[c]
                               ELSE [l \in Legs |-> Older(idle[c][l])]]
  /\ IF enabled THEN pc' = "next" ELSE pc' = "sleep"
  /\ key' = None /\ count' = 0 /\ seen' = None
  /\ UNCHANGED <<enabled, resetting>>

(* A bug to compare with: one connection fewer is checked.                  *)
WalkNextShort ==
  /\ pc = "next"
  /\ count + 1 < Quarter
  /\ \E c \in NextKey : key' = c /\ seen' = conn[c]
  /\ count' = count + 1
  /\ pc' = "apply"
  /\ UNCHANGED <<conn, idle, enabled, resetting>>

(* The walk reads the two entries of the next connection.                   *)
WalkNext ==
  /\ pc = "next"
  /\ count < Quarter
  /\ \E c \in NextKey : key' = c /\ seen' = conn[c]
  /\ count' = count + 1
  /\ pc' = "apply"
  /\ UNCHANGED <<conn, idle, enabled, resetting>>

WalkEnd ==
  /\ pc = "next"
  /\ count >= Quarter \/ NextKey = {}
  /\ pc' = "sleep" /\ key' = None /\ count' = 0 /\ seen' = None
  /\ UNCHANGED <<conn, idle, enabled, resetting>>

(* An entry that was active is written back as it was read, with its timer  *)
(* restarted; the reply's only if the connection is bidirectional.          *)
Restarted(e) ==
  LET bidir == seen.age["rep"] # Inf
      again == {l \in Legs : seen.active[l] /\ (l = "orig" \/ bidir)}
  IN  [age |-> [l \in Legs |-> IF l \in again THEN 0 ELSE e.age[l]],
       active |-> [l \in Legs |-> l \notin again /\ e.active[l]]]

(* current_timer - min(last_timer of either entry).                         *)
Quiet == IF seen.age["rep"] > seen.age["orig"] THEN seen.age["rep"] ELSE seen.age["orig"]

(* A bug to compare with: an active connection is timed out as well.        *)
ExpiredThoughActive == Quiet > (IF seen.age["rep"] # Inf THEN Bidir ELSE Unidir)

(* The timeout of get_timeout_value has passed since the older packet.      *)
Expired ==
  /\ \A l \in Legs : ~ seen.active[l]
  /\ Quiet > (IF seen.age["rep"] # Inf THEN Bidir ELSE Unidir)

(* The walk acts on what it has read; an expired connection is reported to  *)
(* CMM (FPP_ACTION_REMOVED) and deleted.                                    *)
WalkApply ==
  /\ pc = "apply"
  /\ conn' = [conn EXCEPT ![key] =
                 IF Expired THEN None
                 ELSE IF \E l \in Legs : seen.active[l] THEN Restarted(@) ELSE @]
  /\ pc' = "next"
  /\ idle' = IF Expired THEN [idle EXCEPT ![key] = NotIdle] ELSE idle
  /\ seen' = None
  /\ UNCHANGED <<enabled, resetting, key, count>>

Timer == Tick \/ WalkNext \/ WalkEnd \/ WalkApply

Next ==
  \/ \E c \in Conns, l \in Legs : Packet(c, l)
  \/ \E c \in Conns : Register(c) \/ Deregister(c)
  \/ FFDisable \/ FFEnable \/ FFReset
  \/ Timer

(* The timer keeps firing and the walk is not interrupted for ever.         *)
Spec == Init /\ [][Next]_vars /\ WF_vars(Timer) /\ WF_vars(FFReset)

-----------------------------------------------------------------------------
Entry == [age : [Legs -> Inf..Cap], active : [Legs -> BOOLEAN]]

(* The map and the walk hold values of their types; the walk never counts   *)
(* past its limit.                                                          *)
TypeOK ==
  /\ conn \in [Conns -> Entry \cup {None}]
  /\ idle \in [Conns -> [Legs -> 0..Cap]]
  /\ enabled \in BOOLEAN /\ resetting \in BOOLEAN
  /\ pc \in {"sleep", "next", "apply"}
  /\ key \in Conns \cup {None} /\ count \in 0..Quarter /\ seen \in Entry \cup {None}
  /\ pc = "apply" => key # None /\ seen # None /\ conn[key] # None
  /\ resetting => enabled

(* A leg's timer never claims a longer silence than there was, except for a *)
(* packet the entry is still marked with, or one forwarded by the kernel    *)
(* while fast forwarding was off, until the timers are reset.               *)
TimerHonest ==
  enabled /\ ~ resetting =>
    \A c \in Conns : conn[c] # None =>
      \A l \in Legs : \/ conn[c].age[l] <= idle[c][l]
                      \/ conn[c].active[l]

(* The walk stays within its map and its limit, and its timers are honest   *)
(* whatever it is interleaved with (cpal_catch).                            *)
WalkHonest == TypeOK /\ TimerHonest

(* check_ipv4_timeout deletes a connection only if one of its directions    *)
(* has been silent for the whole timeout, as long as the entries are still  *)
(* what the walk has read and fast forwarding is not just being switched.   *)
OnlyIdleExpire ==
  pc = "apply" /\ Expired /\ conn[key] = seen /\ enabled /\ ~ resetting
    => \E l \in Legs : idle[key][l] > (IF seen.age["rep"] # Inf THEN Bidir ELSE Unidir)

(* Without packets a connection is deleted in the end, if fast forwarding   *)
(* stays on: the timer of check_ipv4_timeout reaches every connection.      *)
IdleExpires ==
  \A c \in Conns :
     (<>[][\A l \in Legs : ~ Packet(c, l)]_vars /\ <>[]enabled)
        => []<>(conn[c] = None)

(* Every connection is checked again and again while fast forwarding is on. *)
AllChecked ==
  \A c \in Conns : <>[]enabled => []<>(conn[c] = None \/ (pc = "apply" /\ key = c))
=============================================================================
