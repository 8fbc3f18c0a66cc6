---------------------------- MODULE L2FlowProofs ----------------------------
(***************************************************************************)
(* The daemon, the engine and the kernel's bridge monitor agree about      *)
(* bridged flows for any number of flows, interfaces and pending notices.  *)
(***************************************************************************)
EXTENDS L2Flow, TLAPS

(* Beside the two properties: a slot of the table without an entry carries  *)
(* no flag, so that a flow that comes back starts from nothing.             *)
FlowInv ==
    /\ l2Table \in [Flows -> L2Entry]
    /\ l2Engine \subseteq Flows
    /\ l2Notices \in Seq(Flows)
    /\ l2Told \in [Flows -> {"offloaded", "denied", "deleted"}]
    /\ \A f \in Flows : l2Table[f].prog => l2Table[f].in
    /\ FlowsTracked
    /\ AbmInformed

-----------------------------------------------------------------------------
(* What a handler may make of a flow: S is the outcome, told what ABM hears.*)
Sound(f, S, told) ==
    /\ S.e \in L2Entry /\ S.fe \in BOOLEAN /\ S.rc \in BOOLEAN
    /\ S.e.prog => S.e.in
    /\ S.fe => S.e.prog
    /\ S.rc /\ S.e.prog => S.fe \/ Noticed(f) \/ f \in l2Stuck
    /\ told \in {"offloaded", "denied", "deleted"}
    /\ told = "offloaded" => S.rc /\ S.e.prog
    /\ told # "offloaded" /\ S.fe => ~ S.rc

(* A flow stays noticed while its notice is in the queue.                   *)
LEMMA NoticedKept ==
    ASSUME NEW f \in Flows, l2Notices \in Seq(Flows)
    PROVE  /\ UNCHANGED l2Notices => (Noticed(f)' <=> Noticed(f))
           /\ \A g \in Flows : l2Notices' = Append(l2Notices, g) =>
                 /\ l2Notices' \in Seq(Flows)
                 /\ Noticed(g)'
                 /\ Noticed(f) => Noticed(f)'
           /\ l2Notices # <<>> /\ l2Notices' = Tail(l2Notices) =>
                 /\ l2Notices' \in Seq(Flows)
                 /\ Head(l2Notices) \in Flows
                 /\ f # Head(l2Notices) /\ Noticed(f) => Noticed(f)'
<1>1. UNCHANGED l2Notices => (Noticed(f)' <=> Noticed(f))
  BY DEF Noticed
<1>2. ASSUME NEW g \in Flows, l2Notices' = Append(l2Notices, g)
      PROVE  /\ l2Notices' \in Seq(Flows)
             /\ Noticed(g)'
             /\ Noticed(f) => Noticed(f)'
  <2>1. /\ l2Notices' \in Seq(Flows)
        /\ Len(l2Notices') = Len(l2Notices) + 1
        /\ Len(l2Notices) \in Nat
        /\ l2Notices'[Len(l2Notices) + 1] = g
        /\ \A k \in 1..Len(l2Notices) : l2Notices'[k] = l2Notices[k]
    BY <1>2
  <2>2. DOMAIN l2Notices = 1..Len(l2Notices) /\ DOMAIN l2Notices' = 1..Len(l2Notices')
    BY <2>1
  <2>3. Noticed(g)'
    <3>1. Len(l2Notices) + 1 \in DOMAIN l2Notices'
      BY <2>1, <2>2
    <3> QED BY <3>1, <2>1 DEF Noticed
  <2>4. ASSUME Noticed(f) PROVE Noticed(f)'
    <3>1. PICK k \in DOMAIN l2Notices : l2Notices[k] = f
      BY <2>4 DEF Noticed
    <3>2. k \in DOMAIN l2Notices' /\ l2Notices'[k] = f
      BY <3>1, <2>1, <2>2
    <3> QED BY <3>2 DEF Noticed
  <2> QED BY <2>1, <2>3, <2>4
<1>3. ASSUME l2Notices # <<>>, l2Notices' = Tail(l2Notices)
      PROVE  /\ l2Notices' \in Seq(Flows)
             /\ Head(l2Notices) \in Flows
             /\ f # Head(l2Notices) /\ Noticed(f) => Noticed(f)'
  <2>1. /\ l2Notices' \in Seq(Flows) /\ Head(l2Notices) \in Flows
        /\ Head(l2Notices) = l2Notices[1]
        /\ Len(l2Notices) \in Nat /\ Len(l2Notices') = Len(l2Notices) - 1
        /\ \A k \in 1..(Len(l2Notices) - 1) : l2Notices'[k] = l2Notices[k + 1]
    BY <1>3
  <2>2. DOMAIN l2Notices = 1..Len(l2Notices) /\ DOMAIN l2Notices' = 1..Len(l2Notices')
    BY <2>1
  <2>3. ASSUME f # Head(l2Notices), Noticed(f) PROVE Noticed(f)'
    <3>1. PICK k \in DOMAIN l2Notices : l2Notices[k] = f
      BY <2>3 DEF Noticed
    <3>2. k # 1 /\ k \in 1..Len(l2Notices)
      BY <3>1, <2>1, <2>2, <2>3
    <3>3. k - 1 \in 1..(Len(l2Notices) - 1) /\ (k - 1) + 1 = k
      BY <3>2, <2>1
    <3>4. k - 1 \in DOMAIN l2Notices' /\ l2Notices'[k - 1] = f
      BY <3>1, <3>3, <2>1, <2>2
    <3> QED BY <3>4 DEF Noticed
  <2> QED BY <2>1, <2>3
<1> QED BY <1>1, <1>2, <1>3

(* A sound outcome for one flow keeps the invariant, if every other flow    *)
(* keeps its notice, and f too or it is settled.                            *)
LEMMA SoundKeeps ==
    ASSUME FlowInv, NEW f \in Flows, NEW S, NEW told, L2Becomes(f, S, told),
           Sound(f, S, told),
           l2Notices' \in Seq(Flows),
           \A g \in Flows \ {f} : Noticed(g) => Noticed(g)',
           Noticed(f) => Noticed(f)' \/ (S.rc => ~ S.e.prog)
    PROVE  FlowInv'
<1>1. /\ l2Table' = [l2Table EXCEPT ![f] = S.e]
      /\ l2Engine' = IF S.fe THEN l2Engine \cup {f} ELSE l2Engine \ {f}
      /\ l2Told' = [l2Told EXCEPT ![f] = told]
      /\ l2Forgot' = l2Forgot \ {f}
  BY DEF L2Becomes
<1>2. /\ l2Table \in [Flows -> L2Entry] /\ l2Engine \subseteq Flows
      /\ l2Told \in [Flows -> {"offloaded", "denied", "deleted"}]
      /\ S.e \in L2Entry /\ told \in {"offloaded", "denied", "deleted"}
  BY DEF FlowInv, Sound
<1>3. /\ l2Table' \in [Flows -> L2Entry] /\ l2Engine' \subseteq Flows
      /\ l2Told' \in [Flows -> {"offloaded", "denied", "deleted"}]
      /\ l2Table'[f] = S.e /\ l2Told'[f] = told
      /\ f \in l2Engine' <=> S.fe
  BY <1>1, <1>2
<1>4. \A g \in Flows \ {f} : /\ l2Table'[g] = l2Table[g] /\ l2Told'[g] = l2Told[g]
                             /\ g \in l2Engine' <=> g \in l2Engine
                             /\ g \in l2Forgot' <=> g \in l2Forgot
  BY <1>1, <1>2
<1>5. \A g \in Flows \ {f} : g \in l2Stuck' <=> g \in l2Stuck
  <2>1. l2Stuck' \in {l2Stuck \ {f}, l2Stuck \cup {f}, l2Stuck}
    BY DEF L2Becomes
  <2> QED BY <2>1
<1>6. ~ S.rc /\ S.e.prog => f \in l2Stuck'
  BY DEF L2Becomes, Sound
<1>7. S.rc /\ S.e.prog /\ ~ S.fe => (f \in l2Stuck' <=> f \in l2Stuck)
  BY DEF L2Becomes, Sound
<1>8. S.e.prog => f \in l2Engine' \/ Noticed(f)' \/ f \in l2Stuck'
  BY <1>3, <1>6, <1>7 DEF Sound
<1>9. FlowsTracked'
  <2>1. ASSUME NEW g \in Flows
        PROVE  /\ g \in l2Engine' => l2Table'[g].in /\ l2Table'[g].prog
               /\ l2Table'[g].prog => g \in l2Engine' \/ Noticed(g)' \/ g \in l2Stuck'
    <3>1. CASE g = f
      BY <3>1, <1>3, <1>8 DEF Sound
    <3>2. CASE g # f
      BY <3>2, <1>4, <1>5 DEF FlowInv, FlowsTracked
    <3> QED BY <3>1, <3>2
  <2> QED BY <2>1 DEF FlowsTracked, Noticed
<1>10. AbmInformed'
  <2>1. ASSUME NEW g \in Flows
        PROVE  /\ l2Told'[g] = "offloaded" =>
                    g \in l2Engine' \/ Noticed(g)' \/ g \in l2Stuck' \cup l2Forgot'
               /\ l2Told'[g] # "offloaded" /\ g \in l2Engine' => g \in l2Stuck'
    <3>1. CASE g = f
      BY <3>1, <1>3, <1>6, <1>8 DEF Sound
    <3>2. CASE g # f
      BY <3>2, <1>4, <1>5 DEF FlowInv, AbmInformed
    <3> QED BY <3>1, <3>2
  <2> QED BY <2>1 DEF AbmInformed, Noticed
<1>11. \A g \in Flows : l2Table'[g].prog => l2Table'[g].in
  BY <1>3, <1>4 DEF FlowInv, Sound
<1> QED BY <1>3, <1>9, <1>10, <1>11 DEF FlowInv

-----------------------------------------------------------------------------
(* What cmmFeL2FlowUpdate is given: the entry as it is before the command.  *)
Given(f, S) ==
    /\ S \in [e : L2Entry, fe : BOOLEAN, rc : {TRUE}]
    /\ S.e.prog => S.e.in
    /\ S.fe => S.e.prog
    /\ S.e.prog => S.fe \/ Noticed(f) \/ f \in l2Stuck

(* A removal that does not fail leaves nothing marked programmed.           *)
LEMMA RemoveSound ==
    ASSUME NEW f, NEW S, Given(f, S), NEW ok \in BOOLEAN, NEW told \in {"denied", "deleted"}
    PROVE  LET R == FeRemove(S, ok)
           IN  /\ Sound(f, R, told) /\ R \in [e : L2Entry, fe : BOOLEAN, rc : BOOLEAN]
               /\ R.rc => ~ R.e.prog
               /\ R.e.in = S.e.in
<1> DEFINE R == FeRemove(S, ok)
<1>1. S.e \in L2Entry /\ S.fe \in BOOLEAN /\ S.rc = TRUE
  BY DEF Given
<1>2. CASE ~ S.e.prog
  <2>1. R = [S EXCEPT !.rc = TRUE]
    BY <1>2 DEF FeRemove
  <2>2. R.e = S.e /\ R.fe = S.fe /\ R.rc = TRUE
        /\ R \in [e : L2Entry, fe : BOOLEAN, rc : BOOLEAN]
    BY <2>1, <1>1 DEF Given
  <2> QED BY <2>2, <1>1, <1>2 DEF Sound, Given
<1>3. CASE S.e.prog /\ (~Named(S.e.idev) \/ (~ok /\ S.fe))
  <2>1. R = [S EXCEPT !.rc = FALSE]
    BY <1>3 DEF FeRemove
  <2>2. R.e = S.e /\ R.fe = S.fe /\ R.rc = FALSE
        /\ R \in [e : L2Entry, fe : BOOLEAN, rc : BOOLEAN]
    BY <2>1, <1>1 DEF Given
  <2> QED BY <2>2, <1>1 DEF Sound, Given
<1>4. CASE S.e.prog /\ ~ (~Named(S.e.idev) \/ (~ok /\ S.fe))
  <2>1. R = [S EXCEPT !.rc = TRUE, !.fe = FALSE, !.e.prog = FALSE]
    BY <1>4 DEF FeRemove
  <2>2. /\ R.e = [S.e EXCEPT !.prog = FALSE] /\ R.fe = FALSE /\ R.rc = TRUE
    BY <2>1 DEF Given
  <2>3. R.e \in L2Entry /\ R.e.prog = FALSE /\ R.e.in = S.e.in
    BY <2>2, <1>1 DEF L2Entry
  <2>4. R \in [e : L2Entry, fe : BOOLEAN, rc : BOOLEAN]
    BY <2>1, <2>2, <2>3 DEF Given
  <2> QED BY <2>2, <2>3, <2>4 DEF Sound
<1> QED BY <1>2, <1>3, <1>4

(* An addition or update is reported as offloaded only if it is.            *)
LEMMA AddSound ==
    ASSUME NEW f, NEW S, Given(f, S), S.e.in, NEW ok \in BOOLEAN
    PROVE  LET A == FeAddUpdate(S, ok)
           IN  Sound(f, A, IF A.rc THEN "offloaded" ELSE "denied")
<1> DEFINE A == FeAddUpdate(S, ok)
           fails == ~Named(S.e.idev) \/ ~Named(S.e.odev) \/ ~ok \/ (S.e.prog /\ ~S.fe)
<1>1. S.e \in L2Entry /\ S.fe \in BOOLEAN /\ S.rc = TRUE
  BY DEF Given
<1>2. CASE S.e.prog /\ ~S.e.needs
  <2>1. A = [S EXCEPT !.rc = TRUE]
    BY <1>2 DEF FeAddUpdate
  <2>2. A.e = S.e /\ A.fe = S.fe /\ A.rc = TRUE
    BY <2>1, <1>1 DEF Given
  <2> QED BY <2>2, <1>1, <1>2 DEF Sound, Given
<1>3. CASE ~ (S.e.prog /\ ~S.e.needs) /\ fails
  <2>1. A = [S EXCEPT !.rc = FALSE]
    BY <1>3 DEF FeAddUpdate
  <2>2. A.e = S.e /\ A.fe = S.fe /\ A.rc = FALSE
    BY <2>1, <1>1 DEF Given
  <2> QED BY <2>2, <1>1 DEF Sound, Given
<1>4. CASE ~ (S.e.prog /\ ~S.e.needs) /\ ~ fails
  <2>1. A = [S EXCEPT !.rc = TRUE, !.fe = TRUE, !.e.prog = TRUE, !.e.needs = FALSE]
    BY <1>4 DEF FeAddUpdate
  <2>2. A.e = [S.e EXCEPT !.prog = TRUE, !.needs = FALSE] /\ A.fe = TRUE /\ A.rc = TRUE
    BY <2>1 DEF Given
  <2>3. A.e \in L2Entry /\ A.e.prog = TRUE /\ A.e.in = S.e.in
    BY <2>2, <1>1 DEF L2Entry
  <2> QED BY <2>2, <2>3 DEF Sound
<1> QED BY <1>2, <1>3, <1>4

(* The entry of a flow is what cmmFeL2FlowUpdate may be given.              *)
LEMMA StateGiven ==
    ASSUME FlowInv, NEW f \in Flows
    PROVE  Given(f, L2State(f))
<1>1. l2Table[f] \in L2Entry
  BY DEF FlowInv
<1>2. /\ L2State(f) \in [e : L2Entry, fe : BOOLEAN, rc : {TRUE}]
      /\ L2State(f).e = l2Table[f] /\ L2State(f).fe = (f \in l2Engine)
  BY <1>1 DEF L2State
<1> QED BY <1>2 DEF Given, FlowInv, FlowsTracked

(* __cmm_l2flow_deregister, from ABM or for a notice of the engine.         *)
LEMMA DeregisterSound ==
    ASSUME FlowInv, NEW f \in Flows, NEW ok \in BOOLEAN
    PROVE  /\ Sound(f, Deregistered(f, ok), "deleted")
           /\ Deregistered(f, ok).rc => ~ Deregistered(f, ok).e.prog
<1> DEFINE R == FeRemove(L2State(f), ok)
<1>1. /\ Sound(f, R, "deleted") /\ R \in [e : L2Entry, fe : BOOLEAN, rc : BOOLEAN]
      /\ R.rc => ~ R.e.prog
  BY StateGiven, RemoveSound
<1> HIDE DEF R
<1>2. CASE ~l2Table[f].in \/ ~R.rc
  <2>1. Deregistered(f, ok) = R
    BY <1>2 DEF Deregistered, R
  <2> QED BY <2>1, <1>1
<1>3. CASE ~ (~l2Table[f].in \/ ~R.rc)
  <2>1. Deregistered(f, ok) = [R EXCEPT !.e = NoFlow]
    BY <1>3 DEF Deregistered, R
  <2>2. Deregistered(f, ok).e = NoFlow /\ Deregistered(f, ok).fe = R.fe
        /\ Deregistered(f, ok).rc = R.rc
    BY <2>1, <1>1
  <2>3. ~ R.fe /\ R.rc
    BY <1>1, <1>3 DEF Sound
  <2>4. NoFlow \in L2Entry /\ NoFlow.prog = FALSE
    BY DEF NoFlow, L2Entry
  <2> QED BY <2>2, <2>3, <2>4, <1>1 DEF Sound
<1> QED BY <1>2, <1>3

(* __cmm_l2flow_register keeps the flags of the entry it finds.             *)
LEMMA RegisterGiven ==
    ASSUME FlowInv, NEW f \in Flows, NEW i \in L2Itfs, NEW o \in L2Itfs
    PROVE  Given(f, Registered(f, i, o)) /\ Registered(f, i, o).e.in
<1> DEFINE e0 == IF l2Table[f].in THEN l2Table[f] ELSE NewFlow
           needs == (e0.needs /\ L2Allowed(i) /\ L2Allowed(o)) \/ e0.idev # i \/ e0.odev # o
           e1 == [e0 EXCEPT !.needs = needs, !.idev = i, !.odev = o]
<1>1. Registered(f, i, o) = [L2State(f) EXCEPT !.e = e1]
  BY DEF Registered
<1>2. Given(f, L2State(f))
  BY StateGiven
<1>3. l2Table[f] \in L2Entry /\ (l2Table[f].prog => l2Table[f].in)
  BY DEF FlowInv
<1>4. NewFlow \in L2Entry /\ NewFlow.prog = FALSE /\ NewFlow.in = TRUE
  BY DEF NewFlow, NoFlow, L2Entry
<1>5. e0 \in L2Entry /\ e0.in = TRUE /\ e0.prog = l2Table[f].prog
  <2>1. CASE l2Table[f].in
    BY <2>1, <1>3 DEF L2Entry
  <2>2. CASE ~ l2Table[f].in
    <3>1. l2Table[f].prog = FALSE
      BY <2>2, <1>3 DEF L2Entry
    <3> QED BY <2>2, <3>1, <1>4
  <2> QED BY <2>1, <2>2
<1>6. needs \in BOOLEAN
  OBVIOUS
<1> HIDE DEF e0, needs
<1>7. e1 \in L2Entry /\ e1.in = TRUE /\ e1.prog = l2Table[f].prog
  BY <1>5, <1>6 DEF L2Entry
<1> HIDE DEF e1
<1>8. /\ Registered(f, i, o).e = e1 /\ Registered(f, i, o).fe = L2State(f).fe
      /\ Registered(f, i, o) \in [e : L2Entry, fe : BOOLEAN, rc : {TRUE}]
  BY <1>1, <1>2, <1>7 DEF Given
<1>9. L2State(f).e = l2Table[f]
  BY DEF L2State
<1> QED BY <1>2, <1>7, <1>8, <1>9 DEF Given

-----------------------------------------------------------------------------
(* FlowInv is inductive.                                                    *)
THEOREM FlowsSafe == L2Spec => []FlowInv
<1>1. L2Init => FlowInv
  <2> SUFFICES ASSUME L2Init PROVE FlowInv
    OBVIOUS
  <2>1. NoFlow \in L2Entry /\ NoFlow.prog = FALSE
    BY DEF NoFlow, L2Entry
  <2>2. /\ l2Table \in [Flows -> L2Entry] /\ \A f \in Flows : l2Table[f].prog = FALSE
        /\ l2Engine = {}
    BY <2>1 DEF L2Init
  <2>3. l2Notices \in Seq(Flows) /\ l2Told = [f \in Flows |-> "deleted"]
    BY DEF L2Init
  <2>4. FlowsTracked
    BY <2>2 DEF FlowsTracked
  <2>5. AbmInformed
    BY <2>2, <2>3 DEF AbmInformed
  <2> QED BY <2>2, <2>3, <2>4, <2>5 DEF FlowInv
<1>2. FlowInv /\ [L2Next]_l2Vars => FlowInv'
  <2> SUFFICES ASSUME FlowInv, [L2Next]_l2Vars PROVE FlowInv'
    OBVIOUS
  <2>0. l2Notices \in Seq(Flows)
    BY DEF FlowInv
  <2>1. ASSUME NEW f \in Flows, NEW i \in L2Itfs, NEW o \in L2Itfs, Register(f, i, o)
        PROVE  FlowInv'
    <3> DEFINE S == Registered(f, i, o)
    <3>1. Given(f, S) /\ S.e.in
      BY RegisterGiven
    <3>2. UNCHANGED l2Notices
      BY <2>1 DEF Register
    <3>3. PICK ok \in BOOLEAN :
            IF L2Allowed(i) /\ L2Allowed(o)
            THEN L2Becomes(f, FeAddUpdate(S, ok),
                           IF FeAddUpdate(S, ok).rc THEN "offloaded" ELSE "denied")
            ELSE L2Becomes(f, FeRemove(S, ok), "denied")
      BY <2>1 DEF Register
    <3> HIDE DEF S
    <3>4. \A g \in Flows : Noticed(g) => Noticed(g)'
      BY <3>2, <2>0, NoticedKept
    <3>5. PICK R, told : L2Becomes(f, R, told) /\ Sound(f, R, told)
      <4>1. CASE L2Allowed(i) /\ L2Allowed(o)
        BY <4>1, <3>1, <3>3, AddSound
      <4>2. CASE ~ (L2Allowed(i) /\ L2Allowed(o))
        BY <4>2, <3>1, <3>3, RemoveSound
      <4> QED BY <4>1, <4>2
    <3> QED BY <3>2, <3>4, <3>5, <2>0, SoundKeeps
  <2>2. ASSUME NEW f \in Flows, Deregister(f) PROVE FlowInv'
    <3>1. PICK ok \in BOOLEAN : L2Becomes(f, Deregistered(f, ok), "deleted")
      BY <2>2 DEF Deregister
    <3>2. UNCHANGED l2Notices
      BY <2>2 DEF Deregister
    <3>3. \A g \in Flows : Noticed(g) => Noticed(g)'
      BY <3>2, <2>0, NoticedKept
    <3> QED BY <3>1, <3>2, <3>3, <2>0, DeregisterSound, SoundKeeps
  <2>3. ASSUME NEW ok \in BOOLEAN, L2Reset(ok) PROVE FlowInv'
    <3>1. CASE ~ ok
      <4>1. UNCHANGED <<l2Table, l2Engine, l2Notices, l2Told, l2Stuck>>
        BY <2>3, <3>1 DEF L2Reset
      <4>2. l2Forgot' = l2Forgot
        BY <2>3, <3>1 DEF L2Reset
      <4> QED BY <4>1, <4>2 DEF FlowInv, FlowsTracked, AbmInformed, Noticed
    <3>2. CASE ok
      <4>1. NoFlow \in L2Entry /\ NoFlow.prog = FALSE
        BY DEF NoFlow, L2Entry
      <4>2. /\ l2Table' = [f \in Flows |-> NoFlow] /\ l2Engine' = {}
            /\ l2Told' = l2Told /\ l2Notices' = l2Notices
            /\ \A f \in Flows : l2Told[f] = "offloaded" => f \in l2Forgot'
        BY <2>3, <3>2 DEF L2Reset
      <4>3. /\ l2Table' \in [Flows -> L2Entry]
            /\ \A f \in Flows : l2Table'[f].prog = FALSE
        BY <4>1, <4>2
      <4>4. FlowsTracked'
        BY <4>2, <4>3 DEF FlowsTracked
      <4>5. AbmInformed'
        BY <4>2 DEF AbmInformed
      <4>6. l2Told' \in [Flows -> {"offloaded", "denied", "deleted"}]
        BY <4>2 DEF FlowInv
      <4> QED BY <4>2, <4>3, <4>4, <4>5, <4>6, <2>0 DEF FlowInv
    <3> QED BY <3>1, <3>2
  <2>4. ASSUME NEW f \in Flows, EngineDrops(f) PROVE FlowInv'
    <3>1. /\ f \in l2Engine /\ l2Engine' = l2Engine \ {f}
          /\ l2Notices' = Append(l2Notices, f)
          /\ UNCHANGED <<l2Table, l2Told, l2Stuck, l2Forgot>>
      BY <2>4 DEF EngineDrops
    <3>2. Noticed(f)' /\ l2Notices' \in Seq(Flows)
      BY <3>1, <2>0, NoticedKept
    <3>3. \A g \in Flows : Noticed(g) => Noticed(g)'
      BY <3>1, <2>0, NoticedKept
    <3>4. ASSUME NEW g \in Flows
          PROVE  g \in l2Engine => g \in l2Engine' \/ Noticed(g)'
      BY <3>1, <3>2
    <3>5. FlowsTracked'
      <4>1. ASSUME NEW g \in Flows
            PROVE  /\ g \in l2Engine' => l2Table'[g].in /\ l2Table'[g].prog
                   /\ l2Table'[g].prog => g \in l2Engine' \/ Noticed(g)' \/ g \in l2Stuck'
        BY <3>1, <3>3, <3>4 DEF FlowInv, FlowsTracked
      <4> QED BY <4>1 DEF FlowsTracked, Noticed
    <3>6. AbmInformed'
      <4>1. ASSUME NEW g \in Flows
            PROVE  /\ l2Told'[g] = "offloaded" =>
                        g \in l2Engine' \/ Noticed(g)' \/ g \in l2Stuck' \cup l2Forgot'
                   /\ l2Told'[g] # "offloaded" /\ g \in l2Engine' => g \in l2Stuck'
        BY <3>1, <3>3, <3>4 DEF FlowInv, AbmInformed
      <4> QED BY <4>1 DEF AbmInformed, Noticed
    <3> QED BY <3>1, <3>2, <3>5, <3>6 DEF FlowInv
  <2>5. CASE L2FlowChange
    <3> DEFINE f == Head(l2Notices)
    <3>1. l2Notices # <<>> /\ l2Notices' = Tail(l2Notices)
      BY <2>5 DEF L2FlowChange
    <3>2. f \in Flows /\ l2Notices' \in Seq(Flows)
      BY <3>1, <2>0
    <3>3. PICK ok \in BOOLEAN : L2Becomes(f, Deregistered(f, ok), "deleted")
      BY <2>5 DEF L2FlowChange
    <3>4. \A g \in Flows \ {f} : Noticed(g) => Noticed(g)'
      BY <3>1, <2>0, NoticedKept
    <3> HIDE DEF f
    <3>5. /\ Sound(f, Deregistered(f, ok), "deleted")
          /\ Deregistered(f, ok).rc => ~ Deregistered(f, ok).e.prog
      BY <3>2, DeregisterSound
    <3> QED BY <3>2, <3>3, <3>4, <3>5, SoundKeeps
  <2>6. ASSUME NEW i \in L2Itfs, NEW s \in {"prog", "down", "gone"}, L2Link(i, s)
        PROVE  FlowInv'
    BY <2>6 DEF L2Link, FlowInv, FlowsTracked, AbmInformed, Noticed
  <2>7. CASE UNCHANGED l2Vars
    BY <2>7 DEF l2Vars, FlowInv, FlowsTracked, AbmInformed, Noticed
  <2> QED BY <2>1, <2>2, <2>3, <2>4, <2>5, <2>6, <2>7 DEF L2Next, AbmMessage
<1> QED BY <1>1, <1>2, PTL DEF L2Spec

(* The daemon and the engine agree about every flow, whatever the order of  *)
(* ABM's messages, the engine's notices and the link changes, and whatever  *)
(* the engine refuses (cmmFeL2FlowUpdate, __cmm_l2flow_deregister).         *)
THEOREM FlowsAlwaysTracked == L2Spec => []FlowsTracked
<1>1. FlowInv => FlowsTracked
  BY DEF FlowInv
<1> QED BY <1>1, FlowsSafe, PTL

(* ABM's picture of every flow is right or about to be put right, except    *)
(* for the flows that the engine would not let go of and those that a reset *)
(* took away unannounced (cmmFeL2FlowChange, cmm_l2flow_netlink_rcv,        *)
(* __cmm_l2flow_reset).                                                     *)
THEOREM AbmAlwaysInformed == L2Spec => []AbmInformed
<1>1. FlowInv => AbmInformed
  BY DEF FlowInv
<1> QED BY <1>1, FlowsSafe, PTL
=============================================================================
