----------------------------- MODULE MCOffload -----------------------------
(***************************************************************************)
(* Offload on small instances.                                              *)
(***************************************************************************)
EXTENDS Offload, TLC

CONSTANTS c1, c2, k1, k2

MCCts == {c1, c2}
MCLocal == <<"stack", "rt">>
MCSlots == (MCCts \X {"orig", "rep"}) \cup {MCLocal}

(* Both connections go from one subnet to one server: their legs share      *)
(* flows.                                                                   *)
MCKeyOf == [x \in MCCts \X {"orig", "rep"} |-> IF x[2] = "orig" THEN k1 ELSE k2]

Sym == Permutations(Rts) \cup Permutations(Dsts) \cup Permutations(Gws)
       \cup Permutations(MCCts)

(* One connection, for the liveness run: symmetry is not sound there.       *)
MCOneCt == {c1}
MCOneSlots == (MCOneCt \X {"orig", "rep"}) \cup {MCLocal}
MCOneKeyOf == [x \in MCOneCt \X {"orig", "rep"} |-> IF x[2] = "orig" THEN k1 ELSE k2]
=============================================================================
