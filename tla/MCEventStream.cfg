\* A WebSocket client that opens two streams, an SSE client, one invocation.
\* The producers and clients may all be finished.
SPECIFICATION FairSpec
CONSTANTS
  Inv = {i1}
  Ws = {w1}
  Sse = {s1}
  MaxLogs = 2
  MaxStreams = 2
CHECK_DEADLOCK FALSE
INVARIANTS
  TypeOK
  StreamFaithful
  ManagerExact
  HubExact
PROPERTIES
  EveryStreamEnds
  SubscriptionsReleased
