------------------------------ MODULE MCRouting ------------------------------
EXTENDS Routing, TLC

\* No definition tells instances, operators, processes, threads or tokens apart.
RoutingSymmetry ==
  Permutations(GlobalSIDs) \cup Permutations(Operators) \cup Permutations(Processes)
    \cup Permutations(Threads) \cup Permutations(Incarnations)
=============================================================================
