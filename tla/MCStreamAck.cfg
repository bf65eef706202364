\* One WebSocket client, one invocation.
SPECIFICATION Spec
CONSTANTS
  Inv = {i1}
  Ws = {w1}
  Sse = {}
  MaxLogs = 1
  MaxStreams = 1
CHECK_DEADLOCK FALSE
INVARIANT
  AcknowledgedGetsResult
