-------------------------------- MODULE MCRank --------------------------------
(* Rank for TLC: three requests that add, one of them back to where the     *)
(* others started, a set and a max on one owner, and a second owner to      *)
(* rank.  The id of one add has the ids of two others in it.                *)
EXTENDS Rank, TLC

CONSTANTS c1, c2, up, down, best

Request(id, owner, mode, value, tie) ==
  [id |-> id, owner |-> owner, mode |-> mode, value |-> value, tie |-> tie]

MCOwners == {1, -1}

MCRequests ==
  {Request(<<up>>, 1, "add", 1, 1), Request(<<down>>, 1, "add", -1, 1),
   Request(<<down, best>>, 1, "add", 1, 1), Request(<<best>>, 1, "max", 0, -1),
   Request(NoId, 1, "set", 1, 1), Request(NoId, -1, "max", 0, -1)}

Symmetry == Permutations(Callers)
===============================================================================
