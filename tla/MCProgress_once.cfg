CONSTANTS
  c1 = c1
  c2 = c2
  r1 = r1
  r2 = r2
  r3 = r3
  Calls = {c1, c2}
  Requests = {r1, r2, r3}
  Deltas = {1, 2}
  Window = 2
  NoEntry = NoEntry
  MaxCalls = 4
SPECIFICATION Spec
SYMMETRY Symmetry
INVARIANTS CountedOncePerWindow AnsweredWasCounted LateWasUnderWay
CHECK_DEADLOCK FALSE
