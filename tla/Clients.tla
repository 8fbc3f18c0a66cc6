------------------------------ MODULE Clients ------------------------------
(***************************************************************************)
(* The command-line clients and the daemon's client thread (libcmm.c,      *)
(* client_daemon.c), and the listings the clients print with them.         *)
(*                                                                         *)
(* A client process opens a handle, whose identifier is the type of all    *)
(* its messages, exchanges requests and answers over two System V queues   *)
(* that every client shares, and closes it.  A listing is a loop of        *)
(* requests.  Most tables are in the engine, which keeps one cursor per    *)
(* table whoever asks: routes and connections in the XDP back end          *)
(* (cpal_bpf.c), the others in an engine outside this program; the         *)
(* interfaces and sockets that CMM lists itself are paged by the number of *)
(* entries to skip.                                                        *)
(*                                                                         *)
(* cmmSendToDaemon returns -1 on an error, and most loops compare it with  *)
(* an unsigned size: whether -1 ends a loop differs between listings.      *)
(***************************************************************************)
EXTENDS Naturals, Sequences, FiniteSets

CONSTANTS
    Clients,      \* client processes
    Ids,          \* unique identifiers: /tmp/cmm.<id>
    May,          \* client -> the listings it may ask for
    EngineLen,    \* entries in each table of the engine
    LocalTables,  \* tables in the daemon
    PageLen,      \* entries that fit in one answer
    RxMax, TxMax, \* capacity of the queues
    MaxListings,  \* bound on the clients started
    MaxFaults     \* bound on the clients killed, commands failed and tables changed

VARIABLES
    files,     \* identifiers whose file exists
    cl,        \* the clients
    rxQueue,   \* requests to the daemon
    txQueue,   \* answers to all clients
    daemon,    \* whether it runs: "up", "gone"
    reply,     \* the answer its client thread is about to send, if any
    cursor,    \* engine: next entry of each table
    local,     \* the daemon's tables
    left       \* what the bounds still allow

clVars == <<files, cl, rxQueue, txQueue, daemon, reply, cursor, local, left>>

(***************************************************************************)
(* The listings.  "first" and "rest" are the requests, "errFirst" and      *)
(* "errRest" say whether -1 ends the listing at the first request and      *)
(* later on, "then" is the listing the client goes on with.                *)
(***************************************************************************)
Listing(table, first, rest, errFirst, errRest) ==
    [table |-> table, first |-> first, rest |-> rest, errFirst |-> errFirst, errRest |-> errRest, then |-> "none"]

\* FPP_ACTION_QUERY starts at the first entry, FPP_ACTION_QUERY_CONT goes on.
Queried(table, errFirst, errRest) == Listing(table, "query", "cont", errFirst, errRest)

\* Both comparisons take -1 for a long answer.
RtQuery == Queried("route", FALSE, FALSE)

CtQuery == Queried("conntrack", FALSE, FALSE)

Ct6Query == Queried("conntrack6", FALSE, FALSE)

SAQuery == Queried("sa", FALSE, FALSE)

VlanQuery == Queried("vlan", FALSE, FALSE)

Mc4Query == Queried("mc4", FALSE, FALSE)

Mc6Query == Queried("mc6", FALSE, FALSE)

\* The first comparison casts the size to int.
MacVlanQuery == Queried("macvlan", TRUE, FALSE)

\* The loop goes on only if the size is right.
PPPoEQuery == Queried("pppoe", FALSE, TRUE)

TnlQuery == Queried("tunnel", TRUE, TRUE)

\* The interfaces are listed one after the other.
IccQuery == [Queried("icc0", TRUE, TRUE) EXCEPT !.then = "icc1"]

IccNext == Queried("icc1", TRUE, TRUE)

\* A STATUS request, answered by a return code, then ENTRY requests.
Counted(table) == Listing(table, "status", "cont", TRUE, TRUE)

StatPPPoE == Counted("stat_pppoe")

StatBridge == Counted("stat_bridge")

StatIpsec == Counted("stat_ipsec")

StatVlan == Counted("stat_vlan")

StatTunnel == Counted("stat_tunnel")

\* No request restarts the engine's cursor: the status of the interfaces,
\* then the bridge's entries.
RxQuery == [Listing("rx_status", "cont", "cont", TRUE, TRUE) EXCEPT !.then = "rx_entries"]

RxEntries == Listing("rx_bridge", "cont", "cont", TRUE, TRUE)

\* Pages of the daemon's own tables.
VlanShow == Listing("vlan_itf", "page", "page", FALSE, FALSE)

SocketShow == Listing("socket", "page", "page", TRUE, TRUE)

\* One request per port, for a number of ports the client knows.
QmQuery == Listing("qm", "port", "port", TRUE, TRUE)

\* A command that is one request: set commands and queries of one object.
Single == Listing("engine", "set", "set", TRUE, TRUE)

QmExptRateQuery == Single

RTCPQuery == Single

RTPStatsQuery == Single

NATPTQuery == Single

StatInterface == Single

Kind ==
    [route |-> RtQuery, conntrack |-> CtQuery, conntrack6 |-> Ct6Query, sa |-> SAQuery, vlan |-> VlanQuery,
     mc4 |-> Mc4Query, mc6 |-> Mc6Query, macvlan |-> MacVlanQuery, pppoe |-> PPPoEQuery, tunnel |-> TnlQuery,
     icc0 |-> IccQuery, icc1 |-> IccNext, stat_pppoe |-> StatPPPoE, stat_bridge |-> StatBridge,
     stat_ipsec |-> StatIpsec, stat_vlan |-> StatVlan, stat_tunnel |-> StatTunnel, rx |-> RxQuery,
     rx_entries |-> RxEntries, vlan_show |-> VlanShow, socket_show |-> SocketShow, qm |-> QmQuery,
     single |-> Single, qmexptrate |-> QmExptRateQuery, rtcp |-> RTCPQuery, rtpstats |-> RTPStatsQuery,
     natpt |-> NATPTQuery, stat_interface |-> StatInterface]

Tables == {Kind[k].table : k \in DOMAIN Kind}

EngineTables == Tables \ LocalTables

(***************************************************************************)
(* Types and initial state.                                                *)
(***************************************************************************)
\* A client that is not running.
Off == [pc |-> "off", id |-> 0, kind |-> "none", phase |-> "first", shown |-> <<>>, clean |-> TRUE]

Answer(what, entries, more) == [what |-> what, entries |-> entries, more |-> more]

NoAnswer == Answer("err", <<>>, FALSE)

ClInit ==
    /\ files = {}
    /\ cl = [c \in Clients |-> Off]
    /\ rxQueue = <<>>
    /\ txQueue = <<>>
    /\ daemon = "up"
    /\ reply = <<>>
    /\ cursor = [t \in EngineTables |-> 0]
    /\ local = [t \in LocalTables |-> <<1, 2>>]
    /\ left = [listings |-> MaxListings, faults |-> MaxFaults]

(***************************************************************************)
(* The client.                                                             *)
(***************************************************************************)
FreeIdsAny == Ids

\* gen_uniqueid creates the file of the identifier; one that exists is not taken.
FreeIds == Ids \ files

\* cmm_open fails when no daemon runs or after ten identifiers in use.
Open(c) ==
    /\ cl[c].pc = "off"
    /\ left.listings > 0
    /\ daemon # "gone"
    /\ \E id \in FreeIds, k \in May[c] :
        /\ files' = files \cup {id}
        /\ cl' = [cl EXCEPT ![c] = [Off EXCEPT !.pc = "ready", !.id = id, !.kind = k]]
    /\ left' = [left EXCEPT !.listings = @ - 1]
    /\ UNCHANGED <<rxQueue, txQueue, daemon, reply, cursor, local>>

Op(c) == IF cl[c].phase = "first" THEN Kind[cl[c].kind].first ELSE Kind[cl[c].kind].rest

\* cmm_send blocks while the queue is full.
Send(c) ==
    /\ cl[c].pc = "ready"
    /\ daemon # "gone"
    /\ Len(rxQueue) < RxMax
    /\ rxQueue' = Append(rxQueue, [id |-> cl[c].id, stale |-> FALSE, op |-> Op(c),
                                   table |-> Kind[cl[c].kind].table, skip |-> Len(cl[c].shown)])
    /\ cl' = [cl EXCEPT ![c].pc = "wait"]
    /\ UNCHANGED <<files, txQueue, daemon, reply, cursor, local, left>>

\* What the client does with an answer: go on, go on with the next listing, or
\* finish.  A page that says there is no more, and an answer to a single
\* request, are the last; an eof or a short answer is "end".
Ends(r, a) ==
    \/ a.what = "end"
    \/ a.what = "err" /\ IF r.phase = "first" THEN Kind[r.kind].errFirst ELSE Kind[r.kind].errRest
    \/ a.what \in {"data", "ok"} /\ Kind[r.kind].first \in {"page", "port", "set"} /\ ~a.more

After(r, a) ==
    LET k == Kind[r.kind]
        s == [r EXCEPT !.shown = @ \o a.entries, !.clean = @ /\ a.what # "err"]
    IN  IF ~Ends(r, a) THEN [s EXCEPT !.pc = "ready", !.phase = "rest"]
        ELSE IF a.what # "err" /\ k.then # "none"
             THEN [s EXCEPT !.pc = "ready", !.phase = "first", !.kind = k.then, !.shown = <<>>]
        ELSE [s EXCEPT !.pc = "shown"]

\* cmm_recv: the first answer of the client's type, wherever it is in the queue.
Receive(c) ==
    /\ cl[c].pc = "wait"
    /\ \E i \in 1 .. Len(txQueue) :
        /\ txQueue[i].id = cl[c].id
        /\ \A j \in 1 .. i - 1 : txQueue[j].id # cl[c].id
        /\ cl' = [cl EXCEPT ![c] = After(@, txQueue[i].answer)]
        /\ txQueue' = SubSeq(txQueue, 1, i - 1) \o SubSeq(txQueue, i + 1, Len(txQueue))
    /\ UNCHANGED <<files, rxQueue, daemon, reply, cursor, local, left>>

\* The queues are gone: msgsnd and msgrcv fail.
Broken(c) ==
    /\ cl[c].pc \in {"ready", "wait"}
    /\ daemon = "gone"
    /\ cl' = [cl EXCEPT ![c] = After(@, NoAnswer)]
    /\ UNCHANGED <<files, rxQueue, txQueue, daemon, reply, cursor, local, left>>

\* vlanShowProcess takes -1 for the length of an answer and reads past the end
\* of its buffer: it may go on (Broken) or die.
Overrun(c) ==
    /\ cl[c].pc \in {"ready", "wait"}
    /\ cl[c].kind = "vlan_show"
    /\ daemon = "gone"
    /\ cl' = [cl EXCEPT ![c] = Off]
    /\ UNCHANGED <<files, rxQueue, txQueue, daemon, reply, cursor, local, left>>

Close(c) ==
    /\ cl[c].pc = "shown"
    /\ cl' = [cl EXCEPT ![c] = Off]
    /\ files' = files \ {cl[c].id}
    /\ UNCHANGED <<rxQueue, txQueue, daemon, reply, cursor, local, left>>

\* Interrupted by the user: its file, its request and its answer stay.
Kill(c) ==
    /\ cl[c].pc # "off"
    /\ left.faults > 0
    /\ LET Stale(m) == [m EXCEPT !.stale = @ \/ m.id = cl[c].id]
       IN  /\ rxQueue' = [i \in 1 .. Len(rxQueue) |-> Stale(rxQueue[i])]
           /\ txQueue' = [i \in 1 .. Len(txQueue) |-> Stale(txQueue[i])]
           /\ reply' = [i \in 1 .. Len(reply) |-> Stale(reply[i])]
    /\ cl' = [cl EXCEPT ![c] = Off]
    /\ left' = [left EXCEPT !.faults = @ - 1]
    /\ UNCHANGED <<files, daemon, cursor, local>>

(***************************************************************************)
(* The daemon's client thread.                                             *)
(***************************************************************************)
\* The tables of the XDP back end.
XdpTables == {"route", "conntrack", "conntrack6"}

\* FPP_ACTION_QUERY puts the cursor at the beginning.
Start(m) == IF m.op = "query" THEN 0 ELSE cursor[m.table]

\* XDP back end: the entry at the cursor; past the end the answer is short and
\* the cursor stays.
XdpFetched(m) ==
    IF Start(m) < EngineLen[m.table]
    THEN [answer |-> Answer("data", <<Start(m) + 1>>, TRUE), cursor |-> Start(m) + 1]
    ELSE [answer |-> Answer("end", <<>>, FALSE), cursor |-> Start(m)]

\* Engine outside this program: the answer past the end leaves the cursor at
\* the beginning.
FeFetched(m) ==
    IF Start(m) < EngineLen[m.table]
    THEN [answer |-> Answer("data", <<Start(m) + 1>>, TRUE), cursor |-> Start(m) + 1]
    ELSE [answer |-> Answer("end", <<>>, FALSE), cursor |-> 0]

\* Its other commands: a status, one port, a setting.
FeServes(m) ==
    CASE m.op = "status" -> [answer |-> Answer("ok", <<>>, TRUE), cursor |-> 0]
      [] m.op = "port"   -> [answer |-> Answer("data", <<m.skip + 1>>, m.skip + 1 < EngineLen[m.table]), cursor |-> 0]
      [] m.op = "set"    -> [answer |-> Answer("ok", <<>>, FALSE), cursor |-> 0]

EngineServes(m) ==
    CASE m.op \notin {"query", "cont"} -> FeServes(m)
      [] m.op \in {"query", "cont"} /\ m.table \in XdpTables -> XdpFetched(m)
      [] OTHER -> FeFetched(m)

PageAlwaysMore(t, skip) == Answer("data", IF skip < Len(local[t]) THEN <<local[t][skip + 1]>> ELSE <<>>, TRUE)

PageStopsEarly(t, skip) ==
    LET last == IF skip + PageLen <= Len(local[t]) THEN skip + PageLen ELSE Len(local[t])
    IN  Answer("data", SubSeq(local[t], skip + 1, last), skip + PageLen + 1 < Len(local[t]))

\* A page of VLAN interfaces says "more" as soon as it is full, a page of
\* sockets only if an entry did not fit.
Page(t, skip) ==
    LET table == local[t]
        full == IF t = "vlan_itf" THEN skip + PageLen <= Len(table) ELSE skip + PageLen < Len(table)
        last == IF skip + PageLen <= Len(table) THEN skip + PageLen ELSE Len(table)
    IN  Answer("data", SubSeq(table, skip + 1, last), full)

\* A request served: the listings of the same table that others are in the
\* middle of are no longer clean, and one that starts is if the cursor is where
\* it should be.
CleanAfter(m) ==
    [c \in Clients |->
        IF cl[c].pc = "off" \/ Kind[cl[c].kind].table # m.table THEN cl[c]
        ELSE IF cl[c].id = m.id
             THEN IF cl[c].phase = "first"
                  THEN [cl[c] EXCEPT !.clean = m.op # "cont" \/ cursor[m.table] = 0]
                  ELSE cl[c]
        ELSE IF m.op \in {"query", "cont", "status"} THEN [cl[c] EXCEPT !.clean = FALSE] ELSE cl[c]]

Reply(m, a) == [id |-> m.id, stale |-> m.stale, answer |-> a]

\* cmmDaemonThread takes the oldest request of any client and cmmCommandParse
\* passes it to its handler.
Serve ==
    /\ reply = <<>>
    /\ rxQueue # <<>>
    /\ LET m == Head(rxQueue)
       IN  /\ cl' = CleanAfter(m)
           /\ IF m.table \in LocalTables
              THEN /\ reply' = <<Reply(m, Page(m.table, m.skip))>>
                   /\ UNCHANGED cursor
              ELSE /\ reply' = <<Reply(m, EngineServes(m).answer)>>
                   /\ cursor' = [cursor EXCEPT ![m.table] = EngineServes(m).cursor]
    /\ rxQueue' = Tail(rxQueue)
    /\ UNCHANGED <<files, txQueue, daemon, local, left>>

\* The handler fails: daemon_errno is set, and cmm_recv returns -1.
ServeFails ==
    /\ reply = <<>>
    /\ rxQueue # <<>>
    /\ Head(rxQueue).table \in EngineTables
    /\ left.faults > 0
    /\ reply' = <<Reply(Head(rxQueue), NoAnswer)>>
    /\ rxQueue' = Tail(rxQueue)
    /\ left' = [left EXCEPT !.faults = @ - 1]
    /\ UNCHANGED <<files, cl, txQueue, daemon, cursor, local>>

\* The XDP back end meets an error at an entry (a lookup fails, the interface of
\* a route has no name): the answer is as short as the one past the end, and the
\* cursor may have moved.
ServeShort ==
    /\ reply = <<>>
    /\ rxQueue # <<>>
    /\ left.faults > 0
    /\ LET m == Head(rxQueue)
       IN  /\ m.table \in XdpTables
           /\ Start(m) < EngineLen[m.table]
           /\ reply' = <<Reply(m, Answer("end", <<>>, FALSE))>>
           /\ \E at \in {Start(m), Start(m) + 1} : cursor' = [cursor EXCEPT ![m.table] = at]
           /\ cl' = [c \in Clients |-> [CleanAfter(m)[c] EXCEPT !.clean = @ /\ cl[c].id # m.id]]
    /\ rxQueue' = Tail(rxQueue)
    /\ left' = [left EXCEPT !.faults = @ - 1]
    /\ UNCHANGED <<files, txQueue, daemon, local>>

\* msgsnd blocks the thread, and with it all clients, while the queue is full.
AnswerClient ==
    /\ reply # <<>>
    /\ Len(txQueue) < TxMax
    /\ txQueue' = txQueue \o reply
    /\ reply' = <<>>
    /\ UNCHANGED <<files, cl, rxQueue, daemon, cursor, local, left>>

\* cmmDaemonExit removes both queues.
DaemonExit ==
    /\ daemon # "gone"
    /\ daemon' = "gone"
    /\ rxQueue' = <<>>
    /\ txQueue' = <<>>
    /\ reply' = <<>>
    /\ UNCHANGED <<files, cl, cursor, local, left>>

\* The other threads change a table between two pages.
LocalChange(t) ==
    /\ left.faults > 0
    /\ \E s \in {Append(local[t], 3), Tail(local[t])} : local' = [local EXCEPT ![t] = s]
    /\ cl' = [c \in Clients |-> IF cl[c].pc # "off" /\ Kind[cl[c].kind].table = t
                                 THEN [cl[c] EXCEPT !.clean = FALSE] ELSE cl[c]]
    /\ left' = [left EXCEPT !.faults = @ - 1]
    /\ UNCHANGED <<files, rxQueue, txQueue, daemon, reply, cursor>>

ClientStep(c) == Send(c) \/ Receive(c) \/ Broken(c) \/ Close(c)

ClNext ==
    \/ \E c \in Clients : Open(c) \/ ClientStep(c) \/ Overrun(c) \/ Kill(c)
    \/ Serve
    \/ ServeFails
    \/ ServeShort
    \/ AnswerClient
    \/ DaemonExit
    \/ \E t \in LocalTables : LocalChange(t)

\* A process that can run does, and so does the client thread.
ClFairness ==
    /\ \A c \in Clients : WF_clVars(ClientStep(c))
    /\ WF_clVars(Serve)
    /\ WF_clVars(AnswerClient)

ClSpec == ClInit /\ [][ClNext]_clVars /\ ClFairness

(***************************************************************************)
(* Properties.                                                             *)
(***************************************************************************)
\* No request or answer that a dead client left in a queue carries the
\* identifier of a living one: gen_uniqueid never takes an identifier whose
\* file a killed client left behind, so that no client takes another's answer.
AnswersOwn ==
    \A c \in Clients : cl[c].pc # "off" =>
        \A q \in {rxQueue, txQueue, reply} : \A i \in 1 .. Len(q) :
            q[i].id = cl[c].id => ~q[i].stale

\* A listing that no failure, no change of the table and no other listing of the
\* same table disturbs shows every entry once, in order, also if the last page
\* is exactly full.
CompleteListing ==
    \A c \in Clients :
        cl[c].pc = "shown" /\ cl[c].clean /\ Kind[cl[c].kind] # Single =>
            LET t == Kind[cl[c].kind].table
            IN  cl[c].shown = IF t \in LocalTables THEN local[t] ELSE [i \in 1 .. EngineLen[t] |-> i]

\* The client thread is stuck in msgsnd: the queue is full of answers to dead
\* clients, which nobody will fetch.
Clogged ==
    /\ reply # <<>>
    /\ Len(txQueue) = TxMax
    /\ \A i \in 1 .. Len(txQueue) : txQueue[i].stale

\* Every client ends, whatever commands fail and whatever clients die, with two
\* exceptions: a loop which takes -1 for a long answer goes on for ever once the
\* daemon is gone (cmmSendToDaemon), and nobody is served any more once the
\* answers to dead clients alone fill the queue (msgsnd in cmmDaemonThread).
ListingEnds ==
    \A c \in Clients :
        cl[c].pc # "off" ~>
            \/ cl[c].pc = "off"
            \/ daemon = "gone" /\ ~Kind[cl[c].kind].errRest
            \/ Clogged
=============================================================================
