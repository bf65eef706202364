\* One caller after the other to one endpoint.
SPECIFICATION Spec
CONSTANTS
  Task = {t1, t2}
  Key = {k1}
  MaxSize = 1
  MaxCalls = 2
  MaxSweeps = 1
  Monitor = Monitor
  None = None
SYMMETRY PoolSymmetry
INVARIANT
  BrokenSessionReplaced
