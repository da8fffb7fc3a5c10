SPECIFICATION Spec
CONSTANTS
  t1 = t1
  t2 = t2
  t3 = t3
  c1 = c1
  c2 = c2
  c3 = c3
  Threads = {t1, t2}
  Ids = {c1, c2, c3}
  NoId = NoId
  Capacity = 2
  PerEntry = 1
  PendingLimit = 1
  Accesses <- CreatingAccesses
  ClockReads = {TRUE}
  ByteSizes = {0, 2}
  DefaultLimits <- SmallLimits
  Limits <- BothLimits
INVARIANTS
  PinnedIdentity
  WithinQuota
SYMMETRY Alike
