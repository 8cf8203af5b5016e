CONSTANTS
  OrderIds = {o1}
  Digests = {d1}
  NoDigest = NoDigest
  PaidAts = {1}
  Callers = {c1, c2}
  Sweepers = {}
  MaxAttempts = 2
  Base = 1
  MaxMultiplier = 2
  RetryBatch = 1
  PoisonedDelay = 2
  Outcomes = {"granted", "refused"}
  Causes = {"plain"}
  Prompt = FALSE
  Orphans = {}
  MaxTime = 3
  MaxReopens = 0
  MaxFaults = 0
SPECIFICATION Spec
PROPERTIES
  SettledIsFinal
