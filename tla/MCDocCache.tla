----------------------------- MODULE MCDocCache -----------------------------
(* Instances of DocCache. *)
EXTENDS DocCache, TLC

CONSTANTS d1, d2, c1, c2

Symmetric == Permutations(Docs) \cup Permutations(Calls)
=============================================================================
