CONSTANTS
  OrderIds = {o1, o2}
  Digests = {d1}
  NoDigest = NoDigest
  PaidAts = {1}
  Callers = {c1}
  Sweepers = {s1}
  MaxAttempts = 2
  Base = 2
  MaxMultiplier = 2
  RetryBatch = 1
  PoisonedDelay = 2
  Outcomes = {"granted", "refused"}
  Causes = {"plain", "orderInvalid", "malformedRecord"}
  Prompt = TRUE
  Orphans = {o2}
  MaxTime = 3
  MaxReopens = 1
  MaxFaults = 1
SPECIFICATION FairSpec
INVARIANTS AtMostOneInFlight NoAttemptOutlivesItsOrder AtMostOneGrant PendingIsIndexed
PROPERTIES SettledIsFinal EveryDueEntryIsWorked
