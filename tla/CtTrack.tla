------------------------------ MODULE CtTrack ------------------------------
(***************************************************************************)
(* How the conntrack thread follows the kernel's connection tracking        *)
(* (conntrack.c: cmmCtThread, __cmmCtCatch, cmmCheckEvent, cmmCtResync).    *)
(*                                                                         *)
(* A kernel conntrack is a tuple with an identifier.  Its events may        *)
(* overtake each other and may be lost when the socket buffer is full; the  *)
(* tuple may be taken by a new conntrack before the old one's DESTROY is    *)
(* read.  CMM keeps one entry per tuple with the identifiers it has seen.   *)
(* What ____cmmCtRegister does with a tracked connection is Offload's       *)
(* subject; here it has an outcome.                                         *)
(***************************************************************************)
EXTENDS Integers, FiniteSets, Sequences, SequencesExt

CONSTANTS
  Tuples,
  Protos,       \* "udp" (and what is handled like it), "tcp"
  MaxId,        \* bound: conntracks the kernel creates
  MAX_CT_ID,    \* identifiers an entry can hold
  Room,         \* bound: events the socket buffer holds
  Lossy,        \* may the buffer overrun
  LossAtBoot,   \* ... already while CMM starts
  RacyProtos,   \* whose UPDATE may come after the DESTROY
  Outcomes,     \* of ____cmmCtRegister: "prog", "wait" (nothing sent), "fail"
  Removes,      \* may the engine give up connections: "never", "in step" (not
                \* while an entry has several identifiers) or "always"
  None

ASSUME ProtosAre == Protos \subseteq {"udp", "tcp"} /\ RacyProtos \subseteq Protos
ASSUME BoundsAre == MaxId \in Nat /\ MAX_CT_ID \in Nat /\ Room \in Nat
ASSUME OutcomesAre == Outcomes \subseteq {"prog", "wait", "fail"}

VARIABLES
  proto,    \* the protocol of the tuples, chosen once
  kct,      \* the kernel's conntracks, by tuple
  last,     \* the last identifier the kernel has given out
  q,        \* events in the socket buffer
  overrun,  \* the next read returns ENOBUFS
  table,    \* ct_table
  pc, todo, \* the resynchronisation: "idle", "query" or "dump"
  boot,     \* the first cmmCtResync has not returned yet
  need_resync,
  count     \* events were handled since the timer last expired

kernelVars == <<proto, kct, last>>
socketVars == <<q, overrun>>
resyncVars == <<pc, todo, boot, need_resync>>
vars == <<kernelVars, socketVars, table, resyncVars, count>>

(* How far a conntrack is: UDP 1 confirmed, 2 assured; TCP 1 opening,       *)
(* 2 established and assured, 3 closing.  An event without the TCP state of *)
(* an assured conntrack has stage 0.                                        *)
Stages == IF proto = "udp" THEN 1..2 ELSE 1..3

Init ==
  /\ proto \in Protos
  /\ kct \in [Tuples -> {None, [id |-> 1, stage |-> 2, perm |-> FALSE]}]
  /\ last = 1
  /\ q = <<>> /\ overrun = FALSE
  /\ table = [t \in Tuples |-> None]
  /\ pc = "flush" /\ todo = {}
  /\ boot = TRUE /\ need_resync = FALSE /\ count = FALSE

-----------------------------------------------------------------------------
(* The kernel.                                                              *)
Event(type, t, k) ==
  [type |-> type, tuple |-> t, id |-> k.id, stage |-> k.stage, perm |-> k.perm]

(* Events are put into the buffer, or lost when it is full.                 *)
Send(es) ==
  IF Len(q) + Len(es) <= Room
  THEN q' = q \o es /\ UNCHANGED overrun
  ELSE /\ Lossy /\ (boot => LossAtBoot)
       /\ overrun' = TRUE
       /\ UNCHANGED q

KernelNew(t) ==
  /\ kct[t] = None /\ last < MaxId
  /\ kct' = [kct EXCEPT ![t] = [id |-> last + 1, stage |-> 1, perm |-> FALSE]]
  /\ last' = last + 1
  /\ Send(<<Event("NEW", t, kct'[t])>>)
  /\ UNCHANGED <<proto, table, resyncVars, count>>

KernelStep(t) ==
  /\ kct[t] # None /\ kct[t].stage + 1 \in Stages
  /\ kct' = [kct EXCEPT ![t].stage = @ + 1]
  /\ Send(<<Event("UPDATE", t, kct'[t])>>)
  /\ UNCHANGED <<proto, last, table, resyncVars, count>>

(* Another attribute changes: the event does not carry the TCP state.       *)
(* (bound: only when the buffer is empty)                                   *)
KernelTouch(t) ==
  /\ proto = "tcp" /\ kct[t] # None /\ kct[t].stage > 1
  /\ q = <<>>
  /\ Send(<<[Event("UPDATE", t, kct[t]) EXCEPT !.stage = 0]>>)
  /\ UNCHANGED <<kernelVars, table, resyncVars, count>>

KernelDestroy(t) ==
  /\ kct[t] # None
  /\ kct' = [kct EXCEPT ![t] = None]
  /\ Send(<<Event("DESTROY", t, kct[t])>>)
  /\ UNCHANGED <<proto, last, table, resyncVars, count>>

Kernel == \E t \in Tuples :
            KernelNew(t) \/ KernelStep(t) \/ KernelTouch(t) \/ KernelDestroy(t)

(* What CMM's nfct_query(NFCT_Q_UPDATE) makes of the kernel's table and its *)
(* events, after event i of q was read: the conntrack that has the tuple    *)
(* now gets its permanent flag set to p, and an UPDATE is sent for it.      *)
Without(i) == RemoveAt(q, i)

QueryUpdate(t, p, rest) ==
  IF kct[t] = None
  THEN UNCHANGED kct /\ q' = rest
  ELSE /\ kct' = [kct EXCEPT ![t].perm = p]
       /\ q' = Append(rest, Event("UPDATE", t, kct'[t]))

-----------------------------------------------------------------------------
(* ____cmmCtRegister ends with outcome o for entry e: a first success is    *)
(* the moment to make the conntrack permanent (cmmCtSetPermanent), which    *)
(* needs FPP_PROGRAMMED and a status without IPS_PERMANENT.                 *)
Registered(e, o) ==
  [e EXCEPT !.prog = @ \/ o = "prog", !.sent = @ \/ o # "fail"]

MakesPermanent(e, o) ==
  ~ e.sent /\ o # "fail" /\ Registered(e, o).prog /\ ~ e.perm

CtRegister(t, e, rest) ==
  \E o \in Outcomes :
    /\ table' = [table EXCEPT ![t] = Registered(e, o)]
    /\ IF MakesPermanent(e, o) THEN QueryUpdate(t, TRUE, rest)
       ELSE q' = rest /\ UNCHANGED kct

(* The entry of event v: the one there is, or a new one (__cmmCtAdd).       *)
EntryFor(v) ==
  IF table[v.tuple] # None THEN table[v.tuple]
  ELSE [ids |-> {v.id}, id |-> v.id, both |-> FALSE, prog |-> FALSE,
        sent |-> FALSE, perm |-> v.perm]

Ignore(rest) == q' = rest /\ UNCHANGED <<kct, table>>

-----------------------------------------------------------------------------
(* UDP and the protocols handled like it: cmmCheckEvent, then the switch of *)
(* __cmmCtCatch.                                                            *)

(* __cmmCtAddId: a full array forgets the identifier.                       *)
AddId(ids, i) == IF Cardinality(ids) < MAX_CT_ID THEN ids \cup {i} ELSE ids

(* cmmCheckUpdateEvent: the conntrack of the event is still there.          *)
Exists(v) == kct[v.tuple] # None /\ kct[v.tuple].id = v.id

Known(v) == table[v.tuple] # None /\ v.id \in table[v.tuple].ids

(* A bug to compare with: an UPDATE is believed without asking the kernel.  *)
UdpNewsUnchecked(v, rest) ==
  LET e == [EntryFor(v) EXCEPT !.ids = IF v.id \in @ THEN @ ELSE AddId(@, v.id)]
  IN  IF v.type = "NEW" /\ Known(v) THEN Ignore(rest)
      ELSE IF Cardinality(e.ids) > 1
      THEN /\ table' = [table EXCEPT ![v.tuple] = e]
           /\ q' = rest /\ UNCHANGED kct
      ELSE CtRegister(v.tuple, [e EXCEPT !.both = v.stage = 2], rest)

(* NEW and UPDATE.                                                          *)
UdpNews(v, rest) ==
  LET e == [EntryFor(v) EXCEPT !.ids = IF v.id \in @ THEN @ ELSE AddId(@, v.id)]
  IN  IF \/ v.type = "UPDATE" /\ ~ Known(v) /\ ~ Exists(v)
         \/ v.type = "NEW" /\ Known(v)
      THEN Ignore(rest)
      ELSE IF Cardinality(e.ids) > 1
      THEN /\ table' = [table EXCEPT ![v.tuple] = e]
           /\ q' = rest /\ UNCHANGED kct
      ELSE CtRegister(v.tuple, [e EXCEPT !.both = v.stage = 2], rest)

(* A bug to compare with: the kernel is not asked for an update when one    *)
(* identifier is left.                                                      *)
UdpDestroyForgets(v, rest) ==
  IF ~ Known(v) THEN Ignore(rest)
  ELSE LET e == [table[v.tuple] EXCEPT !.ids = @ \ {v.id}]
       IN  /\ table' = [table EXCEPT ![v.tuple] =
                           IF Cardinality(e.ids) > 1 THEN e ELSE None]
           /\ q' = rest /\ UNCHANGED kct

(* DESTROY: with one identifier left the kernel is asked for an update      *)
(* (cmmCtForceUpdate) and the entry goes, as it does with none left.        *)
UdpDestroy(v, rest) ==
  IF ~ Known(v) THEN Ignore(rest)
  ELSE LET e == [table[v.tuple] EXCEPT !.ids = @ \ {v.id}]
       IN  IF Cardinality(e.ids) > 1
           THEN /\ table' = [table EXCEPT ![v.tuple] = e]
                /\ q' = rest /\ UNCHANGED kct
           ELSE /\ table' = [table EXCEPT ![v.tuple] = None]
                /\ IF Cardinality(e.ids) = 1 /\ kct[v.tuple] # None
                   THEN QueryUpdate(v.tuple, kct[v.tuple].perm, rest)
                   ELSE q' = rest /\ UNCHANGED kct

-----------------------------------------------------------------------------
(* TCP: the other half of __cmmCtCatch.                                     *)

(* cmmCtSetPermanent with reset, after the entry with FPP_PROGRAMMED = prog *)
(* was deregistered: the status is the event's.  Without IPS_PERMANENT in   *)
(* it the first branch is taken, which sets the flag.                       *)
ResetPermanent(v, prog, rest) ==
  IF ~ v.perm /\ prog THEN QueryUpdate(v.tuple, TRUE, rest)
  ELSE IF v.perm THEN QueryUpdate(v.tuple, FALSE, rest)
  ELSE q' = rest /\ UNCHANGED kct

(* NEW and UPDATE: an established connection is registered, whatever its    *)
(* identifier; in any other state the tuple is given up.                    *)
TcpNews(v, rest) ==
  IF v.stage \in {0, 2}
  THEN CtRegister(v.tuple, [EntryFor(v) EXCEPT !.both = TRUE], rest)
  ELSE IF table[v.tuple] = None THEN Ignore(rest)
  ELSE /\ table' = [table EXCEPT ![v.tuple] = None]
       /\ ResetPermanent(v, table[v.tuple].prog, rest)

(* __cmmCtDeregister: "make sure we're destroying the correct ctEntry".     *)
TcpDestroy(v, rest) ==
  /\ table' = IF table[v.tuple] # None /\ table[v.tuple].id = v.id
              THEN [table EXCEPT ![v.tuple] = None] ELSE table
  /\ q' = rest /\ UNCHANGED kct

-----------------------------------------------------------------------------
(* Which events can be read next.  A DESTROY may always come late, after    *)
(* events of the conntrack that has the tuple next.  With a racy protocol   *)
(* only a NEW before its DESTROY and the UPDATEs of one conntrack are in    *)
(* order.  (external: the kernel delivers events from several processors)   *)
Before(a, b) ==
  /\ a.tuple = b.tuple
  /\ IF proto \in RacyProtos
     THEN a.id = b.id /\ <<a.type, b.type>> \in {<<"NEW", "DESTROY">>, <<"UPDATE", "UPDATE">>}
     ELSE a.type # "DESTROY"

Readable == {i \in DOMAIN q : \A j \in 1..(i - 1) : ~ Before(q[j], q[i])}

(* nfct_catch: cmmCtCatch for one event.                                    *)
Catch(i) ==
  /\ pc \in {"idle", "dump"} /\ ~ overrun
  /\ LET v == q[i] IN
     CASE proto = "udp" /\ v.type # "DESTROY" -> UdpNews(v, Without(i))
       [] proto = "udp" /\ v.type = "DESTROY" -> UdpDestroy(v, Without(i))
       [] proto = "tcp" /\ v.type # "DESTROY" -> TcpNews(v, Without(i))
       [] proto = "tcp" /\ v.type = "DESTROY" -> TcpDestroy(v, Without(i))
  /\ count' = TRUE
  /\ UNCHANGED <<proto, last, overrun, resyncVars>>

(* ENOBUFS: in the main loop it is recorded in need_resync; in the dump of  *)
(* cmmCtResync it makes that fail, which leaves need_resync as it is.       *)
CatchFails ==
  /\ pc \in {"idle", "dump"} /\ overrun
  /\ overrun' = FALSE
  /\ need_resync' = (pc = "idle" \/ need_resync)
  /\ pc' = "idle" /\ todo' = {} /\ boot' = FALSE
  /\ count' = (count /\ (pc = "idle" \/ boot))
  /\ UNCHANGED <<kernelVars, q, table>>

(* A bug to compare with: the count of events is never reset.               *)
TimerKeepsCount ==
  /\ pc = "idle"
  /\ pc' = IF need_resync /\ ~ count THEN "flush" ELSE "idle"
  /\ UNCHANGED <<kernelVars, socketVars, table, todo, boot, need_resync, count>>

(* The timer: a resynchronisation starts when one is needed and no event    *)
(* was handled since the last time.  Afterwards the count starts again.     *)
Timer ==
  /\ pc = "idle"
  /\ pc' = IF need_resync /\ ~ count THEN "flush" ELSE "idle"
  /\ count' = FALSE
  /\ UNCHANGED <<kernelVars, socketVars, table, todo, boot, need_resync>>

(* cmmCtResync: the buffer is emptied, or another overrun found in it.      *)
Flush ==
  /\ pc = "flush"
  /\ overrun' = FALSE
  /\ IF overrun
     THEN pc' = "idle" /\ boot' = FALSE /\ UNCHANGED <<q, todo>>
     ELSE pc' = "query" /\ todo' = Tuples /\ q' = <<>> /\ UNCHANGED boot
  /\ UNCHANGED <<kernelVars, table, need_resync, count>>

(* Then every entry that the kernel does not have (or not with this         *)
(* identifier), and every entry with several identifiers, is destroyed.     *)
Gone(t) == \/ Cardinality(table[t].ids) > 1
           \/ kct[t] = None
           \/ kct[t].id # table[t].id

Query(t) ==
  /\ pc = "query" /\ t \in todo
  /\ table' = IF table[t] # None /\ Gone(t) THEN [table EXCEPT ![t] = None] ELSE table
  /\ todo' = IF todo = {t} THEN Tuples ELSE todo \ {t}
  /\ pc' = IF todo = {t} THEN "dump" ELSE "query"
  /\ UNCHANGED <<kernelVars, socketVars, boot, need_resync, count>>

(* At last the kernel's conntracks are dumped: each one comes as an UPDATE. *)
Dump(t) ==
  /\ pc = "dump" /\ t \in todo
  /\ Len(q) < Room
  /\ q' = IF kct[t] = None THEN q ELSE Append(q, Event("UPDATE", t, kct[t]))
  /\ todo' = todo \ {t}
  /\ UNCHANGED <<kernelVars, overrun, table, pc, boot, need_resync, count>>

DumpDone ==
  /\ pc = "dump" /\ todo = {} /\ ~ overrun
  /\ pc' = "idle" /\ boot' = FALSE /\ need_resync' = FALSE
  /\ count' = (count /\ boot)
  /\ UNCHANGED <<kernelVars, socketVars, table, todo>>

-----------------------------------------------------------------------------
(* The engine gives up an idle connection (cmmFeCtChange4/6): its conntrack *)
(* is deleted from the kernel and its entry removed.                        *)
FppRemoved(t) ==
  /\ pc = "idle"
  /\ table[t] # None /\ table[t].prog
  /\ \/ Removes = "always"
     \/ Removes = "in step" /\ Cardinality(table[t].ids) = 1
  /\ table' = [table EXCEPT ![t] = None]
  /\ IF kct[t] # None /\ kct[t].id = table[t].id
     THEN kct' = [kct EXCEPT ![t] = None] /\ Send(<<Event("DESTROY", t, kct[t])>>)
     ELSE UNCHANGED <<kct, socketVars>>
  /\ UNCHANGED <<proto, last, resyncVars, count>>

(* A route or neighbour event registers a waiting connection again.         *)
Refresh(t) ==
  /\ pc = "idle"
  /\ table[t] # None /\ ~ table[t].prog
  /\ CtRegister(t, table[t], q)
  /\ UNCHANGED <<proto, last, overrun, resyncVars, count>>

CatchSome == \E i \in Readable : Catch(i)

Resync == \/ Flush \/ DumpDone
          \/ \E t \in Tuples : Query(t) \/ Dump(t)

Thread == CatchSome \/ CatchFails \/ Resync

Next ==
  \/ Kernel
  \/ Thread
  \/ Timer
  \/ \E t \in Tuples : FppRemoved(t) \/ Refresh(t)

(* The conntrack thread runs and its timer expires again and again.         *)
Spec == Init /\ [][Next]_vars /\ WF_vars(Thread) /\ WF_vars(Timer)

-----------------------------------------------------------------------------
Ids == 1..MaxId
Conntracks == [id : Ids, stage : Stages, perm : BOOLEAN]
Entries == [ids : SUBSET Ids, id : Ids, both : BOOLEAN, prog : BOOLEAN,
            sent : BOOLEAN, perm : BOOLEAN]
Events == [type : {"NEW", "UPDATE", "DESTROY"}, tuple : Tuples, id : Ids,
           stage : 0..3, perm : BOOLEAN]

(* Everything is of its type; an entry never holds more identifiers than    *)
(* its array has room for.                                                  *)
TypeOK ==
  /\ proto \in Protos
  /\ kct \in [Tuples -> Conntracks \cup {None}]
  /\ last \in Ids
  /\ q \in Seq(Events) /\ overrun \in BOOLEAN
  /\ table \in [Tuples -> Entries \cup {None}]
  /\ \A t \in Tuples : table[t] # None => Cardinality(table[t].ids) \in 1..MAX_CT_ID
  /\ pc \in {"idle", "flush", "query", "dump"} /\ todo \subseteq Tuples
  /\ boot \in BOOLEAN /\ need_resync \in BOOLEAN /\ count \in BOOLEAN

(* Every event is handled and no resynchronisation is due.                  *)
Quiescent == pc = "idle" /\ q = <<>> /\ ~ overrun /\ ~ need_resync

(* An entry with no more events to come stands for a conntrack the kernel   *)
(* has, under the identifier the kernel has for it: whatever order events   *)
(* arrive in and whichever are lost, no dead connection stays offloaded.    *)
NoStale ==
  Quiescent => \A t \in Tuples : table[t] # None =>
    /\ kct[t] # None
    /\ table[t].ids = {kct[t].id}
    /\ table[t].id = kct[t].id

(* The table is well formed, its identifier arrays within MAX_CT_ID, and    *)
(* holds nothing stale (__cmmCtCatch).                                      *)
TableFresh == TypeOK /\ NoStale

(* Every conntrack CMM should offload is in its table once the events are   *)
(* handled: UDP as soon as it is confirmed (both directions when assured),  *)
(* TCP when it is established.                                              *)
NoneMissed ==
  Quiescent => \A t \in Tuples : kct[t] # None =>
    IF proto = "udp"
    THEN table[t] # None /\ table[t].both = (kct[t].stage = 2)
    ELSE kct[t].stage = 2 => table[t] # None

(* When the kernel's table stops changing the thread gets to the end of its *)
(* events and of every resynchronisation, with nothing stale or missed.     *)
Settles ==
  <>[][~ Kernel]_vars => <>[](Quiescent /\ NoStale /\ NoneMissed)

(* "This connection will now be deleted from PFE" (cmmCtSetPermanent): once *)
(* CMM has let go of a connection the kernel may let it time out again.     *)
PermanentTracked ==
  Quiescent => \A t \in Tuples :
    kct[t] # None /\ kct[t].perm => table[t] # None
=============================================================================
