\* Three callers of two endpoints, room for one.
SPECIFICATION Spec
CONSTANTS
  Task = {t1, t2, t3}
  Key = {k1, k2}
  MaxSize = 1
  MaxCalls = 1
  MaxSweeps = 1
  Monitor = Monitor
  None = None
SYMMETRY PoolSymmetry
INVARIANT
  SessionNotShared
