SPECIFICATION Spec
CONSTANTS
  Games = {g1, g2}
  Callers = {c1}
  Sweepers = {s1}
  GraceWindow = 1
  OpeningGrace = 1
  DispatchBackoff = 1
  MaxMultiplier = 1
  MaxAttempts = 1
  MaxPending = 1
  NoActivity = NoActivity
  NoDispatch = NoDispatch
  OpenersSurvive = TRUE
  MaxTime = 2
  MaxReopens = 1
  MaxFaults = 1
  MaxOthers = 1
INVARIANTS HandoutsAreCounted TokenStays
PROPERTIES TerminalStays DueIsSettled
