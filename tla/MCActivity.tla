----------------------------- MODULE MCActivity -----------------------------
(* Small instances of Activity for the model checker.                      *)
EXTENDS Activity, TLC

\* Games, calls and sweeps are interchangeable.
ActivitySymmetry == Permutations(Games) \cup Permutations(Callers) \cup Permutations(Sweepers)
=============================================================================
