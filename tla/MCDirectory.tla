---------------------------- MODULE MCDirectory ----------------------------
EXTENDS Directory, TLC

\* Clients, owners and tokens are interchangeable: no definition tells one from
\* another.
DirectorySymmetry == Permutations(Clients) \cup Permutations(Owners) \cup Permutations(Tokens)
=============================================================================
