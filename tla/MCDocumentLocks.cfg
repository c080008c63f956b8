SPECIFICATION Spec
CONSTANTS
  s1 = s1  s2 = s2  d1 = d1  w1 = w1  w2 = w2
  Sessions = {s1, s2}
  Docs = {d1}
  Writes = {w1, w2}
  None = None
  NoSession = NoSession
  Requests = {0, 1, 3, 4}
  Millisecond = 2
  HalfRange = 8
  DefaultLeaseTTL = 1
  MaxLeaseTTL = 3
  MaxTime = 2
  MaxFence = 3
SYMMETRY MCSymmetry
INVARIANTS TypeOK TokensAreUnique FittingLeasesEnd ValidatedLeaseIsKept
  OnlyLaterLeasesAreOverwritten EndedSessionsHoldNothing
CHECK_DEADLOCK FALSE
