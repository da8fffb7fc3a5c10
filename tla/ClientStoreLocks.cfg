SPECIFICATION Spec
CONSTANTS
  t1 = t1
  t2 = t2
  t3 = t3
  c1 = c1
  c2 = c2
  c3 = c3
  Threads = {t1, t2, t3}
  Ids = {c1, c2}
  NoId = NoId
  Capacity = 1
  PerEntry = 2
  PendingLimit = 2
  Accesses <- AllAccesses
  ClockReads = {TRUE, FALSE}
  ByteSizes = {0}
  DefaultLimits <- SmallLimits
  Limits <- OneLimit
INVARIANTS
  LeaseExclusion
  QueueAccounting
  NoLostWakeup
PROPERTIES
  WriterNotOvertaken
  PoolsAreLocks
SYMMETRY Alike
