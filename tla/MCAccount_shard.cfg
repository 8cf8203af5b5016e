SPECIFICATION Spec
CONSTANTS
  Owners = {a, b}
  Servers = {s}
  Names = {n}
  PlayerIds = {p1, p2}
  Tokens = {t1, t2, t3, t4}
  Callers = {c1, c2}
  Ttl = 2
  Prompt = TRUE
  FaultKinds = {"crash", "refuse", "refuseUndo", "lose"}
  MaxTime = 5
  MaxFaults = 2
  NoEntry = NoEntry
  NoToken = NoToken
  NoPlayer = NoPlayer
  NoSlot = NoSlot
  NoRole = NoRole
SYMMETRY AccountSymmetry
INVARIANTS HandedRolesAreWhole FailedCreateLeavesNothing
PROPERTIES RefinesRegistry
