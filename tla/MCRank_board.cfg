CONSTANTS
  c1 = c1
  c2 = c2
  up = up
  down = down
  best = best
  Callers = {c1, c2}
  Owners <- MCOwners
  Tokens = {up, down, best}
  Requests <- MCRequests
  Half = 2
  Ring = 2
  Attempts = 2
  NoId = NoId
  NoMember = NoMember
  MaxDeliveries = 5
  MaxRemovals = 1
SPECIFICATION Spec
SYMMETRY Symmetry
INVARIANTS BoardMatchesOwners RankedAsPromised EachChangeBuildsOnTheLast AddedOncePerWindow ListedWereApplied
CHECK_DEADLOCK FALSE
