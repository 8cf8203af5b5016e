SPECIFICATION Spec
CONSTANTS
  Games = {g1, g2}
  Callers = {c1, c2}
  Sweepers = {s1, s2}
  GraceWindow = 1
  OpeningGrace = 1
  DispatchBackoff = 1
  MaxMultiplier = 1
  MaxAttempts = 1
  MaxPending = 1
  NoActivity = NoActivity
  NoDispatch = NoDispatch
  OpenersSurvive = TRUE
  MaxTime = 2
  MaxReopens = 0
  MaxFaults = 1
  MaxOthers = 0
SYMMETRY ActivitySymmetry
INVARIANTS ResultsAgree UnfinishedIsListed
