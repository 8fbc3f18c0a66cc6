------------------------------- MODULE Locks -------------------------------
(***************************************************************************)
(* The threads of the CMM daemon, the mutexes they take and the signal     *)
(* handler that ends them.  A handler is abstracted to its lock program:   *)
(* the mutexes it takes and gives back, in order, and the calls in between *)
(* that talk to the engine, the kernel or a client ("io"), which are the   *)
(* points where a cancelled thread ends.  A thread runs one program at a   *)
(* time: it waits in select(), msgrcv() or accept() between two of them.   *)
(*                                                                         *)
(* The programs of each thread are a parameter: Handlers.tla gives the     *)
(* ones of the code.                                                       *)
(***************************************************************************)
EXTENDS Integers, Sequences

CONSTANTS Mutexes,     \* the mutexes of the daemon
          Programs     \* for each thread, the lock programs of its handlers

VARIABLES owner,       \* the thread that owns each mutex, or "none"
          prog, pos,   \* the program each thread runs and where it stands; 0: waiting
          cancelled,   \* the threads pthread_cancel() was called for
          ended,       \* the threads that no longer run
          joining      \* how far sig_term_hdlr is: 0 before SIGTERM, 4 after exit()

lockVars == <<owner, prog, pos, cancelled, ended, joining>>

\* conntrack.c, client_daemon.c and ffcontrol.c start one thread each.
Threads == {"ct", "daemon", "cli"}

\* The order in which sig_term_hdlr ends them.
ExitOrder == <<"cli", "daemon", "ct">>

Ops == {"lock", "unlock", "io"}
Lock(m) == [op |-> "lock", mutex |-> m]
Unlock(m) == [op |-> "unlock", mutex |-> m]
Io == [op |-> "io", mutex |-> "none"]

(***************************************************************************)
(* Lock programs.                                                          *)
(***************************************************************************)
\* The mutexes a thread that runs p holds when it is about to do p[i].
HeldAt(p, i) ==
  {m \in Mutexes : \E j \in 1..(i - 1) :
      p[j] = Lock(m) /\ \A k \in (j + 1)..(i - 1) : p[k] # Unlock(m)}

\* With the programs P, t may ask for b while it holds a.
Asks(P, t, a, b) ==
  \E p \in P[t] : \E i \in 1..Len(p) : p[i] = Lock(b) /\ a \in HeldAt(p, i)

\* A program gives back only what it holds, and gives back everything.
Balanced(p) ==
  /\ \A i \in 1..Len(p) : p[i].op = "unlock" => p[i].mutex \in HeldAt(p, i)
  /\ HeldAt(p, Len(p) + 1) = {}

\* No thread asks for a mutex it holds, and no two or three threads nest the
\* same mutexes in a circle.
Ordered(P) ==
  /\ \A t \in Threads, a \in Mutexes : ~Asks(P, t, a, a)
  /\ \A t, u \in Threads, a, b \in Mutexes :
        t # u => ~(Asks(P, t, a, b) /\ Asks(P, u, b, a))
  /\ \A t, u, v \in Threads, a, b, c \in Mutexes :
        (t # u /\ u # v /\ v # t) =>
           ~(Asks(P, t, a, b) /\ Asks(P, u, b, c) /\ Asks(P, v, c, a))

WellFormed(P) ==
  \A t \in Threads : \A p \in P[t] :
     /\ p \in Seq([op : Ops, mutex : Mutexes \cup {"none"}])
     /\ Len(p) > 0
     /\ \A i \in 1..Len(p) : p[i].op # "io" => p[i].mutex \in Mutexes
     /\ Balanced(p)

ASSUME ProgramsAssumption == "none" \notin Mutexes /\ WellFormed(Programs)

LockInit ==
  /\ owner = [m \in Mutexes |-> "none"]
  /\ prog = [t \in Threads |-> <<>>]
  /\ pos = [t \in Threads |-> 0]
  /\ cancelled = {}
  /\ ended = {}
  /\ joining = 0

(***************************************************************************)
(* The threads.                                                            *)
(***************************************************************************)
Runs(t) == t \notin ended /\ joining < 4

\* A thread leaves its blocking call for an event, a command or the timer;
\* the blocking call is a cancellation point.
Begin(t) ==
  /\ Runs(t) /\ pos[t] = 0 /\ t \notin cancelled
  /\ \E p \in Programs[t] : prog' = [prog EXCEPT ![t] = p]
  /\ pos' = [pos EXCEPT ![t] = 1]
  /\ UNCHANGED <<owner, cancelled, ended, joining>>

\* To the next operation, or back to the blocking call after the last one.
Advance(t) ==
  IF pos[t] = Len(prog[t])
  THEN /\ pos' = [pos EXCEPT ![t] = 0]
       /\ prog' = [prog EXCEPT ![t] = <<>>]
  ELSE pos' = [pos EXCEPT ![t] = pos[t] + 1] /\ UNCHANGED prog

\* pthread_mutex_lock() waits for the owner; it is no cancellation point.
Acquire(t, m) ==
  /\ Runs(t) /\ pos[t] > 0 /\ prog[t][pos[t]] = Lock(m)
  /\ owner[m] = "none"
  /\ owner' = [owner EXCEPT ![m] = t]
  /\ Advance(t)
  /\ UNCHANGED <<cancelled, ended, joining>>

\* A bug to compare with: a path that leaves without unlocking.
ReleaseForgets(t, m) ==
  /\ Runs(t) /\ pos[t] > 0 /\ prog[t][pos[t]] = Unlock(m)
  /\ Advance(t)
  /\ UNCHANGED <<owner, cancelled, ended, joining>>

Release(t, m) ==
  /\ Runs(t) /\ pos[t] > 0 /\ prog[t][pos[t]] = Unlock(m)
  /\ owner' = [owner EXCEPT ![m] = "none"]
  /\ Advance(t)
  /\ UNCHANGED <<cancelled, ended, joining>>

\* A call to the engine, the kernel or the client returns.
Call(t) ==
  /\ Runs(t) /\ pos[t] > 0 /\ prog[t][pos[t]] = Io /\ t \notin cancelled
  /\ Advance(t)
  /\ UNCHANGED <<owner, cancelled, ended, joining>>

\* A cancelled thread ends at its next cancellation point.  No cleanup handler
\* is pushed anywhere, so what it owns stays locked.
EndThread(t) ==
  /\ Runs(t) /\ t \in cancelled
  /\ pos[t] > 0 => prog[t][pos[t]] = Io
  /\ ended' = ended \cup {t}
  /\ UNCHANGED <<owner, prog, pos, cancelled, joining>>

(***************************************************************************)
(* sig_term_hdlr, in the main thread: it cancels and joins the CLI, the    *)
(* daemon and the conntrack thread, one after the other, and exits.        *)
(***************************************************************************)
SigTerm ==
  /\ joining = 0
  /\ joining' = 1
  /\ cancelled' = {ExitOrder[1]}
  /\ UNCHANGED <<owner, prog, pos, ended>>

\* A bug to compare with: only the first thread is cancelled.
JoinForgets ==
  /\ joining \in 1..3 /\ ExitOrder[joining] \in ended
  /\ joining' = joining + 1
  /\ UNCHANGED <<owner, prog, pos, cancelled, ended>>

Join ==
  /\ joining \in 1..3 /\ ExitOrder[joining] \in ended
  /\ joining' = joining + 1
  /\ cancelled' = IF joining < 3 THEN cancelled \cup {ExitOrder[joining + 1]} ELSE cancelled
  /\ UNCHANGED <<owner, prog, pos, ended>>

LockNext ==
  \/ \E t \in Threads : Begin(t) \/ Call(t) \/ EndThread(t)
  \/ \E t \in Threads, m \in Mutexes : Acquire(t, m) \/ Release(t, m)
  \/ SigTerm \/ Join

LockSpec == LockInit /\ [][LockNext]_lockVars

\* What a thread or the handler can do it does: a call to the engine, the
\* kernel or a client returns, a pending cancellation acts, and a join returns.
\* A mutex is no queue, but its takers wait in a system call between two
\* handlers (and cmmCtShow yields), so whoever keeps finding it free gets it.
LockFairness ==
  /\ \A t \in Threads : /\ WF_lockVars(Call(t) \/ EndThread(t) \/ \E m \in Mutexes : Release(t, m))
                        /\ SF_lockVars(\E m \in Mutexes : Acquire(t, m))
  /\ WF_lockVars(Join)

(***************************************************************************)
(* Properties.                                                             *)
(***************************************************************************)
WaitsFor(t, u) ==
  /\ pos[t] > 0 /\ pos[u] > 0 /\ t \notin ended /\ u \notin ended
  /\ \E m \in Mutexes : prog[t][pos[t]] = Lock(m) /\ owner[m] = u

\* The threads never wait for each other in a circle (nor one for itself: the
\* mutexes are not recursive), whatever handlers they run at the same time.
NoLockCycle ==
  \A waiting \in SUBSET Threads :
     waiting # {} => \E t \in waiting : \A u \in waiting : ~WaitsFor(t, u)

Orphaned == \E m \in Mutexes : owner[m] \in ended

\* SIGTERM ends the daemon (sig_term_hdlr joins every thread and exits), unless
\* a thread was cancelled in the middle of a handler.
TerminationEnds == joining > 0 ~> (joining = 4 \/ Orphaned)
=============================================================================
