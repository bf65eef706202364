\* Two requests at work on one server, four operations and a restart.  The bounds on
\* operations and restarts end every behaviour.
SPECIFICATION Spec
CONSTANTS
  Server = {s1}
  Request = {r1, r2}
  Client = {c1, c2, c3}
  MaxOps = 4
  MaxRestarts = 1
  None = None
CHECK_DEADLOCK FALSE
SYMMETRY LifecycleSymmetry
INVARIANTS
  TypeOK
  MapHoldsOpenClients
  ClientsAccountedFor
  QuietServersAgree
