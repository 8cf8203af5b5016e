------------------------------- MODULE MCChat -------------------------------
EXTENDS Chat, TLC

\* Senders and keys are only ever compared.
ChatSymmetry == Permutations(Senders) \cup Permutations(RequestIds)
=============================================================================
