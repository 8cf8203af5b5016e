SPECIFICATION Spec
CONSTANTS
  GlobalSIDs = {g, h}
  Operators = {o1, o2}
  Processes = {p1, p2}
  Threads = {t1, t2}
  Incarnations = {i1, i2}
  Nobody = Nobody
  NoRoute = NoRoute
  NoLease = NoLease
  NoTarget = NoTarget
  Ttl = 2
  MaxTime = 3
  MaxEpoch = 3
SYMMETRY RoutingSymmetry
INVARIANTS BelieversHold
PROPERTIES RouteChangesWereSeen
