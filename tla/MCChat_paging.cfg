SPECIFICATION Spec
CONSTANTS
  Senders = {s1, s2}
  RequestIds = {r1, r2, r3, r4, r5}
  Retain = 3
  MinKeys = 1
  MaxKeys = 4
  MaxPage = 2
  MaxSeq = 7
SYMMETRY ChatSymmetry
INVARIANTS RingIsTheTail StoredOncePerWindow FeedHasNoHoles
PROPERTIES NoMoreMeansAll
