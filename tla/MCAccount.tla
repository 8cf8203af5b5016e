----------------------------- MODULE MCAccount -----------------------------
EXTENDS Account, TLC

\* Creates, tokens and player ids are interchangeable: no definition tells
\* one from another.  IdleCall takes an account, a server and a name with CHOOSE,
\* so the sets of those are not permuted.
AccountSymmetry == Permutations(Callers) \cup Permutations(Tokens) \cup Permutations(PlayerIds)
=============================================================================
