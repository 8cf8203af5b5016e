----------------------------- MODULE MCPlatform -----------------------------
(* Small instances of Platform for the model checker.                      *)
EXTENDS Platform, TLC

\* A time before the epoch, no time at all, and a time in the past of the clock.
SafetyPaidAts == {-1, 0, 1}

\* Order ids, callers and digests are interchangeable.
CallerSymmetry == Permutations(Callers) \cup Permutations(Digests)
=============================================================================
