---------------------------- MODULE LocksProofs ----------------------------
(***************************************************************************)
(* Why the order in which handlers nest mutexes is enough.  If no two or   *)
(* three threads nest the same mutexes in a circle (Ordered, a finite      *)
(* check of the lock programs that MCDaemon.tla makes for the handlers of  *)
(* the code), then the threads never wait for each other in a circle,      *)
(* whatever programs they run at the same time, however long, and wherever *)
(* SIGTERM cancels them.                                                   *)
(***************************************************************************)
EXTENDS Locks, TLAPS

(* A thread owns a mutex only in the middle of a handler that has locked it *)
(* and not unlocked it yet.  A thread that was cancelled keeps both.        *)
LockInv ==
  /\ owner \in [Mutexes -> Threads \cup {"none"}]
  /\ prog \in [Threads -> Seq([op : Ops, mutex : Mutexes \cup {"none"}])]
  /\ pos \in [Threads -> Nat]
  /\ \A t \in Threads : pos[t] > 0 => prog[t] \in Programs[t] /\ pos[t] <= Len(prog[t])
  /\ \A t \in Threads, m \in Mutexes :
        owner[m] = t => pos[t] > 0 /\ m \in HeldAt(prog[t], pos[t])

-----------------------------------------------------------------------------
(* What is held before an operation that does not unlock it is held after.  *)
LEMMA HeldKept ==
  ASSUME NEW p, NEW i \in Nat, i > 0, NEW m \in Mutexes,
         m \in HeldAt(p, i), p[i] # Unlock(m)
  PROVE  m \in HeldAt(p, i + 1)
<1>1. PICK j \in 1..(i - 1) :
        p[j] = Lock(m) /\ \A k \in (j + 1)..(i - 1) : p[k] # Unlock(m)
  BY DEF HeldAt
<1>2. j \in 1..((i + 1) - 1)
  OBVIOUS
<1>3. ASSUME NEW k \in (j + 1)..((i + 1) - 1) PROVE p[k] # Unlock(m)
  <2>1. k = i \/ k \in (j + 1)..(i - 1)
    OBVIOUS
  <2> QED BY <2>1, <1>1
<1> QED BY <1>1, <1>2, <1>3 DEF HeldAt

(* What was just locked is held.                                            *)
LEMMA HeldLocked ==
  ASSUME NEW p, NEW i \in Nat, i > 0, NEW m \in Mutexes, p[i] = Lock(m)
  PROVE  m \in HeldAt(p, i + 1)
<1>1. i \in 1..((i + 1) - 1)
  OBVIOUS
<1>2. \A k \in (i + 1)..((i + 1) - 1) : p[k] # Unlock(m)
  OBVIOUS
<1> QED BY <1>1, <1>2 DEF HeldAt

(* Locking, unlocking and calling are different operations.                 *)
LEMMA OpsDiffer ==
  ASSUME NEW m, NEW n
  PROVE  /\ Lock(m) # Unlock(n)
         /\ Io # Unlock(n)
         /\ Lock(m) = Lock(n) => m = n
         /\ Unlock(m) = Unlock(n) => m = n
BY DEF Lock, Unlock, Io

-----------------------------------------------------------------------------
(* The programs are sequences that give back everything they take.          *)
LEMMA ProgramFacts ==
  ASSUME NEW t \in Threads, NEW p \in Programs[t]
  PROVE  /\ p \in Seq([op : Ops, mutex : Mutexes \cup {"none"}])
         /\ Len(p) \in Nat /\ Len(p) > 0
         /\ HeldAt(p, Len(p) + 1) = {}
<1>1. p \in Seq([op : Ops, mutex : Mutexes \cup {"none"}]) /\ Len(p) > 0 /\ Balanced(p)
  BY ProgramsAssumption, Zenon DEF WellFormed
<1>2. Len(p) \in Nat
  BY <1>1
<1>3. HeldAt(p, Len(p) + 1) = {}
  BY <1>1, Zenon DEF Balanced
<1> QED BY <1>1, <1>2, <1>3

(* A step of thread t to its next operation.  What t owns after it must be  *)
(* held after the operation, and the others own what they did.              *)
LEMMA AdvanceKeeps ==
  ASSUME LockInv, NEW t \in Threads, pos[t] > 0, Advance(t),
         owner' \in [Mutexes -> Threads \cup {"none"}],
         \A u \in Threads \ {t}, m \in Mutexes : owner'[m] = u => owner[m] = u,
         \A m \in Mutexes : owner'[m] = t => m \in HeldAt(prog[t], pos[t] + 1)
  PROVE  LockInv'
<1> DEFINE P == Seq([op : Ops, mutex : Mutexes \cup {"none"}])
<1>1. /\ prog \in [Threads -> P] /\ pos \in [Threads -> Nat]
      /\ prog[t] \in Programs[t] /\ pos[t] \in Nat /\ pos[t] <= Len(prog[t])
  BY DEF LockInv
<1>2. Len(prog[t]) \in Nat /\ HeldAt(prog[t], Len(prog[t]) + 1) = {}
  BY <1>1, ProgramFacts
<1>3. \A u \in Threads \ {t} : prog'[u] = prog[u] /\ pos'[u] = pos[u]
  BY <1>1 DEF Advance
<1>4. CASE pos[t] = Len(prog[t])
  <2>1. pos' = [pos EXCEPT ![t] = 0] /\ prog' = [prog EXCEPT ![t] = <<>>]
    BY <1>4 DEF Advance
  <2>2. pos'[t] = 0 /\ pos' \in [Threads -> Nat]
    BY <2>1, <1>1
  <2>3. prog' \in [Threads -> P]
    <3>1. <<>> \in P
      OBVIOUS
    <3> HIDE DEF P
    <3> QED BY <2>1, <1>1, <3>1
  <2>4. \A m \in Mutexes : owner'[m] # t
    BY <1>2, <1>4
  <2>5. \A u \in Threads : pos'[u] > 0 =>
          prog'[u] \in Programs[u] /\ pos'[u] <= Len(prog'[u])
    <3> SUFFICES ASSUME NEW u \in Threads, pos'[u] > 0
                 PROVE  prog'[u] \in Programs[u] /\ pos'[u] <= Len(prog'[u])
      OBVIOUS
    <3>1. prog'[u] = prog[u] /\ pos'[u] = pos[u]
      BY <2>2, <1>3
    <3>2. pos[u] > 0
      BY <3>1
    <3> QED BY <3>1, <3>2, Zenon DEF LockInv
  <2>6. \A u \in Threads, m \in Mutexes :
          owner'[m] = u => pos'[u] > 0 /\ m \in HeldAt(prog'[u], pos'[u])
    BY <2>4, <1>3 DEF LockInv
  <2> QED BY <2>2, <2>3, <2>5, <2>6 DEF LockInv, HeldAt
<1>5. CASE pos[t] # Len(prog[t])
  <2>1. pos' = [pos EXCEPT ![t] = pos[t] + 1] /\ prog' = prog
    BY <1>5 DEF Advance
  <2>2. pos'[t] = pos[t] + 1 /\ pos' \in [Threads -> Nat]
    BY <2>1, <1>1
  <2>3. pos[t] + 1 <= Len(prog[t])
    BY <1>1, <1>2, <1>5
  <2>4. \A u \in Threads : pos'[u] > 0 =>
          prog'[u] \in Programs[u] /\ pos'[u] <= Len(prog'[u])
    BY <2>1, <2>2, <2>3, <1>1, <1>3 DEF LockInv
  <2>5. \A u \in Threads, m \in Mutexes :
          owner'[m] = u => pos'[u] > 0 /\ m \in HeldAt(prog'[u], pos'[u])
    BY <2>1, <2>2, <1>1, <1>3 DEF LockInv
  <2> QED BY <2>1, <2>2, <2>4, <2>5, <1>1 DEF LockInv, HeldAt
<1> QED BY <1>4, <1>5

-----------------------------------------------------------------------------
(* LockInv is inductive: an unlock gives back the mutex it names, and the   *)
(* last operation of a program leaves nothing held.                         *)
THEOREM OwnersHold == LockSpec => []LockInv
<1>1. LockInit => LockInv
  <2>1. <<>> \in Seq([op : Ops, mutex : Mutexes \cup {"none"}])
    OBVIOUS
  <2> QED BY <2>1 DEF LockInit, LockInv, Threads
<1>2. LockInv /\ [LockNext]_lockVars => LockInv'
  <2> SUFFICES ASSUME LockInv, [LockNext]_lockVars PROVE LockInv'
    OBVIOUS
  <2>0. /\ owner \in [Mutexes -> Threads \cup {"none"}]
        /\ pos \in [Threads -> Nat]
    BY DEF LockInv
  <2>1. ASSUME NEW t \in Threads, Begin(t) PROVE LockInv'
    <3>1. PICK p \in Programs[t] : prog' = [prog EXCEPT ![t] = p]
      BY <2>1 DEF Begin
    <3>2. /\ pos[t] = 0 /\ pos' = [pos EXCEPT ![t] = 1] /\ owner' = owner
      BY <2>1 DEF Begin
    <3>3. p \in Seq([op : Ops, mutex : Mutexes \cup {"none"}]) /\ Len(p) \in Nat /\ Len(p) > 0
      BY ProgramFacts
    <3>4. prog' \in [Threads -> Seq([op : Ops, mutex : Mutexes \cup {"none"}])]
      BY <3>1, <3>3 DEF LockInv
    <3>5. pos' \in [Threads -> Nat] /\ pos'[t] = 1 /\ prog'[t] = p
      BY <3>1, <3>2, <2>0 DEF LockInv
    <3>6. \A u \in Threads \ {t} : prog'[u] = prog[u] /\ pos'[u] = pos[u]
      BY <3>1, <3>2, <2>0 DEF LockInv
    <3>7. \A m \in Mutexes : owner'[m] # t
      BY <3>2 DEF LockInv
    <3>8. \A u \in Threads : pos'[u] > 0 =>
            prog'[u] \in Programs[u] /\ pos'[u] <= Len(prog'[u])
      <4> SUFFICES ASSUME NEW u \in Threads, pos'[u] > 0
                   PROVE  prog'[u] \in Programs[u] /\ pos'[u] <= Len(prog'[u])
        OBVIOUS
      <4>1. CASE u = t
        BY <4>1, <3>3, <3>5
      <4>2. CASE u # t
        <5>1. prog'[u] = prog[u] /\ pos'[u] = pos[u]
          BY <4>2, <3>6
        <5>2. pos[u] > 0
          BY <5>1
        <5> QED BY <5>1, <5>2, Zenon DEF LockInv
      <4> QED BY <4>1, <4>2
    <3>9. \A u \in Threads, m \in Mutexes :
            owner'[m] = u => pos'[u] > 0 /\ m \in HeldAt(prog'[u], pos'[u])
      BY <3>2, <3>6, <3>7 DEF LockInv
    <3> QED BY <3>2, <3>4, <3>5, <3>8, <3>9 DEF LockInv, HeldAt
  <2>2. ASSUME NEW t \in Threads, NEW m \in Mutexes, Acquire(t, m) PROVE LockInv'
    <3>1. /\ pos[t] > 0 /\ prog[t][pos[t]] = Lock(m) /\ Advance(t)
          /\ owner[m] = "none" /\ owner' = [owner EXCEPT ![m] = t]
      BY <2>2 DEF Acquire
    <3>2. ASSUME NEW n \in Mutexes, owner'[n] = t PROVE n \in HeldAt(prog[t], pos[t] + 1)
      <4>1. CASE n = m
        BY <4>1, <3>1, <2>0, HeldLocked
      <4>2. CASE n # m
        <5>1. owner[n] = t
          BY <4>2, <3>1, <3>2, <2>0
        <5>2. n \in HeldAt(prog[t], pos[t])
          BY <5>1 DEF LockInv
        <5>3. prog[t][pos[t]] # Unlock(n)
          BY <3>1, OpsDiffer
        <5> QED BY <5>2, <5>3, <3>1, <2>0, HeldKept
      <4> QED BY <4>1, <4>2
    <3>3. \A u \in Threads \ {t}, n \in Mutexes : owner'[n] = u => owner[n] = u
      BY <3>1, <2>0
    <3>4. owner' \in [Mutexes -> Threads \cup {"none"}]
      BY <3>1, <2>0
    <3> QED BY <3>1, <3>2, <3>3, <3>4, AdvanceKeeps
  <2>3. ASSUME NEW t \in Threads, NEW m \in Mutexes, Release(t, m) PROVE LockInv'
    <3>1. /\ pos[t] > 0 /\ prog[t][pos[t]] = Unlock(m) /\ Advance(t)
          /\ owner' = [owner EXCEPT ![m] = "none"]
      BY <2>3 DEF Release
    <3>2. ASSUME NEW n \in Mutexes, owner'[n] = t PROVE n \in HeldAt(prog[t], pos[t] + 1)
      <4>1. n # m /\ owner[n] = t
        BY <3>1, <3>2, <2>0 DEF Threads
      <4>2. n \in HeldAt(prog[t], pos[t])
        BY <4>1 DEF LockInv
      <4>3. prog[t][pos[t]] # Unlock(n)
        BY <4>1, <3>1, OpsDiffer
      <4> QED BY <4>2, <4>3, <3>1, <2>0, HeldKept
    <3>3. \A u \in Threads \ {t}, n \in Mutexes : owner'[n] = u => owner[n] = u
      BY <3>1, <2>0 DEF Threads
    <3>4. owner' \in [Mutexes -> Threads \cup {"none"}]
      BY <3>1, <2>0
    <3> QED BY <3>1, <3>2, <3>3, <3>4, AdvanceKeeps
  <2>4. ASSUME NEW t \in Threads, Call(t) PROVE LockInv'
    <3>1. /\ pos[t] > 0 /\ prog[t][pos[t]] = Io /\ Advance(t) /\ owner' = owner
      BY <2>4 DEF Call
    <3>2. ASSUME NEW n \in Mutexes, owner'[n] = t PROVE n \in HeldAt(prog[t], pos[t] + 1)
      <4>1. n \in HeldAt(prog[t], pos[t])
        BY <3>1, <3>2 DEF LockInv
      <4>2. prog[t][pos[t]] # Unlock(n)
        BY <3>1, OpsDiffer
      <4> QED BY <4>1, <4>2, <3>1, <2>0, HeldKept
    <3> QED BY <3>1, <3>2, <2>0, AdvanceKeeps
  <2>5. ASSUME UNCHANGED <<owner, prog, pos>> PROVE LockInv'
    BY <2>5 DEF LockInv
  <2>6. ASSUME NEW t \in Threads, EndThread(t) PROVE LockInv'
    BY <2>5, <2>6 DEF EndThread
  <2>7. CASE SigTerm \/ Join \/ UNCHANGED lockVars
    BY <2>5, <2>7 DEF SigTerm, Join, lockVars
  <2> QED BY <2>1, <2>2, <2>3, <2>4, <2>6, <2>7 DEF LockNext
<1> QED BY <1>1, <1>2, PTL DEF LockSpec

-----------------------------------------------------------------------------
(* A thread that waits for u asks for a mutex of u, and for that mutex      *)
(* while it holds any of those the others want from it.                     *)
LEMMA WaitingAsks ==
  ASSUME LockInv, NEW t \in Threads,
         NEW a \in Mutexes, owner[a] = t,
         NEW b \in Mutexes, pos[t] > 0, prog[t][pos[t]] = Lock(b)
  PROVE  Asks(Programs, t, a, b)
<1>1. prog[t] \in Programs[t] /\ pos[t] \in Nat /\ pos[t] <= Len(prog[t])
  BY DEF LockInv
<1>2. a \in HeldAt(prog[t], pos[t])
  BY DEF LockInv
<1>3. Len(prog[t]) \in Nat
  BY <1>1, ProgramFacts
<1>4. pos[t] \in 1..Len(prog[t])
  BY <1>1, <1>3
<1> QED BY <1>1, <1>2, <1>4 DEF Asks

(* No circle of one, two or three.                                          *)
LEMMA OrderedHasNoCircle ==
  ASSUME Ordered(Programs), LockInv
  PROVE  NoLockCycle
<1>1. ASSUME NEW t \in Threads PROVE ~ WaitsFor(t, t)
  <2> SUFFICES ASSUME WaitsFor(t, t) PROVE FALSE
    OBVIOUS
  <2>1. PICK b \in Mutexes : prog[t][pos[t]] = Lock(b) /\ owner[b] = t
    BY DEF WaitsFor
  <2>2. pos[t] > 0
    BY DEF WaitsFor
  <2>3. Asks(Programs, t, b, b)
    BY <2>1, <2>2, WaitingAsks
  <2> QED BY <2>3 DEF Ordered
<1>2. ASSUME NEW t \in Threads, NEW u \in Threads, t # u
      PROVE  ~ (WaitsFor(t, u) /\ WaitsFor(u, t))
  <2> SUFFICES ASSUME WaitsFor(t, u), WaitsFor(u, t) PROVE FALSE
    OBVIOUS
  <2>1. PICK b \in Mutexes : prog[t][pos[t]] = Lock(b) /\ owner[b] = u
    BY DEF WaitsFor
  <2>2. PICK a \in Mutexes : prog[u][pos[u]] = Lock(a) /\ owner[a] = t
    BY DEF WaitsFor
  <2>3. pos[t] > 0 /\ pos[u] > 0
    BY DEF WaitsFor
  <2>4. Asks(Programs, t, a, b)
    BY <2>1, <2>2, <2>3, WaitingAsks
  <2>5. Asks(Programs, u, b, a)
    BY <2>1, <2>2, <2>3, WaitingAsks
  <2> QED BY <2>4, <2>5, <1>2 DEF Ordered
<1>3. ASSUME NEW t \in Threads, NEW u \in Threads, NEW v \in Threads,
             t # u, u # v, v # t
      PROVE  ~ (WaitsFor(t, u) /\ WaitsFor(u, v) /\ WaitsFor(v, t))
  <2> SUFFICES ASSUME WaitsFor(t, u), WaitsFor(u, v), WaitsFor(v, t) PROVE FALSE
    OBVIOUS
  <2>1. PICK b \in Mutexes : prog[t][pos[t]] = Lock(b) /\ owner[b] = u
    BY DEF WaitsFor
  <2>2. PICK c \in Mutexes : prog[u][pos[u]] = Lock(c) /\ owner[c] = v
    BY DEF WaitsFor
  <2>3. PICK a \in Mutexes : prog[v][pos[v]] = Lock(a) /\ owner[a] = t
    BY DEF WaitsFor
  <2>4. pos[t] > 0 /\ pos[u] > 0 /\ pos[v] > 0
    BY DEF WaitsFor
  <2>5. Asks(Programs, t, a, b)
    BY <2>1, <2>3, <2>4, WaitingAsks
  <2>6. Asks(Programs, u, b, c)
    BY <2>1, <2>2, <2>4, WaitingAsks
  <2>7. Asks(Programs, v, c, a)
    BY <2>2, <2>3, <2>4, WaitingAsks
  <2> QED BY <2>5, <2>6, <2>7, <1>3 DEF Ordered
<1>4. SUFFICES ASSUME NEW W \in SUBSET Threads, W # {},
                      \A t \in W : \E u \in W : WaitsFor(t, u)
               PROVE  FALSE
  BY DEF NoLockCycle
<1>5. PICK x \in W : TRUE
  BY <1>4
<1>6. PICK y \in W : WaitsFor(x, y)
  BY <1>4
<1>7. PICK z \in W : WaitsFor(y, z)
  BY <1>4
<1>8. PICK w \in W : WaitsFor(z, w)
  BY <1>4
<1>9. x \in Threads /\ y \in Threads /\ z \in Threads /\ w \in Threads
  BY <1>4
<1>10. x # y /\ y # z /\ z # w
  BY <1>1, <1>6, <1>7, <1>8, <1>9
<1>11. x # z /\ y # w
  BY <1>2, <1>6, <1>7, <1>8, <1>9, <1>10
<1>12. w = x
  BY <1>9, <1>10, <1>11 DEF Threads
<1> QED BY <1>3, <1>6, <1>7, <1>8, <1>9, <1>10, <1>11, <1>12

(* The threads never wait for each other in a circle, provided that the     *)
(* handlers they run nest the mutexes in an order (pthread_mutex_lock in    *)
(* every handler of conntrack.c, client_daemon.c and ffcontrol.c).          *)
THEOREM OrderPreventsDeadlock ==
  ASSUME Ordered(Programs)
  PROVE  LockSpec => []NoLockCycle
<1>1. LockInv => NoLockCycle
  BY OrderedHasNoCircle
<1> QED BY <1>1, OwnersHold, PTL
=============================================================================
