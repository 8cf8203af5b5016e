CONSTANTS
  OrderIds = {o1}
  Digests = {d1, d2}
  NoDigest = NoDigest
  PaidAts <- SafetyPaidAts
  Callers = {c1, c2}
  Sweepers = {}
  MaxAttempts = 2
  Base = 1
  MaxMultiplier = 2
  RetryBatch = 1
  PoisonedDelay = 2
  Outcomes = {"granted", "refused", "unanswered"}
  Causes = {"plain"}
  Prompt = FALSE
  Orphans = {}
  MaxTime = 4
  MaxReopens = 1
  MaxFaults = 1
SPECIFICATION Spec
SYMMETRY CallerSymmetry
INVARIANTS ClaimsAreAccounted GrantsAreClaimed PendingIsIndexed
PROPERTIES DeliveredIsFinal FirstCallbackWins
