------------------------------ MODULE MCCpalBpf ------------------------------
(* Three indices, of which a probe reaches two; the identifiers 1 and 4      *)
(* start at the same one.  One connection, whose two legs share next hops,   *)
(* part and share again.                                                     *)
EXTENDS CpalBpf, TLC

CONSTANTS c1, d1, d2

MCIds == {1, 2, 4}
MCDsts == {d1, d2}
MCCts == {c1}

\* Nothing tells the next hops apart.
Sym == Permutations(MCDsts)
=============================================================================
