------------------------------ MODULE MCProgress ------------------------------
(* Progress for TLC: more requests than the ring remembers.                *)
EXTENDS Progress, TLC

CONSTANTS c1, c2, r1, r2, r3

Symmetry == Permutations(Calls) \cup Permutations(Requests)
===============================================================================
