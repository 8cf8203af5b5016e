SPECIFICATION DirectorySpec
CONSTANTS
  Owners = {a, b}
  Tokens = {t1, t2, t3}
  Ttl = 1
  NoEntry = NoEntry
  Keys = {k}
  Clients = {c1, c2}
  MaxTime = 4
SYMMETRY DirectorySymmetry
PROPERTY KeysPassThroughFree
