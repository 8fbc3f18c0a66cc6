--------------------------- MODULE MCOffloadReset ---------------------------
(***************************************************************************)
(* OffloadReset on a small instance.                                        *)
(***************************************************************************)
EXTENDS OffloadReset, TLC

CONSTANTS c1, c2, k1, k2

MCCts == {c1, c2}
MCLocal == <<"stack", "rt">>
MCSlots == (MCCts \X {"orig", "rep"}) \cup {MCLocal}

(* Both connections go from one subnet to one server: their legs share      *)
(* flows.                                                                   *)
MCKeyOf == [x \in MCCts \X {"orig", "rep"} |-> IF x[2] = "orig" THEN k1 ELSE k2]

Sym == Permutations(Rts) \cup Permutations(Dsts) \cup Permutations(Gws)
       \cup Permutations(MCCts)

=============================================================================
