---------------------------- MODULE MCCallDialog ----------------------------
(* CallDialog on a handful of calls. *)
EXTENDS CallDialog, TLC

CONSTANTS o1, o2, i1, i2

OneOut == {o1}
TwoOut == {o1, o2}
OneIn == {i1}
TwoIn == {i1, i2}

Symmetry == Permutations(OutCalls) \cup Permutations(InCalls)
=============================================================================
