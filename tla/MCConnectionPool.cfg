\* Two callers, two endpoints, room for one.
SPECIFICATION FairSpec
CONSTANTS
  Task = {t1, t2}
  Key = {k1, k2}
  MaxSize = 1
  MaxCalls = 2
  MaxSweeps = 1
  Monitor = Monitor
  None = None
INVARIANTS
  TypeOK
  CallersSerialized
  PoolBounded
  RetryOnFreshSession
  LocksReleased
PROPERTY
  EveryCallEnds
