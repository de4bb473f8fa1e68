SPECIFICATION RequestsSpec
CONSTANTS
  r1 = r1
  r2 = r2
  c1 = c1
  c2 = c2
  c3 = c3
  h1 = h1
  h2 = h2
  None = None
  Request = {r1, r2}
  Counter = {c1, c2}
  Handler = {h1, h2}
  Response = {"response"}
  Protocol = {"udp", "tcp"}
  PoolSize = 1
  max_attempts = 2
  Sent = {c1, c2, c3}
  ring_size = 3
  agent_attempts = 2
INVARIANTS
  CounterIdentifiesNode
  NodesAlive
  PoolRespected
  TableMatchesRing
PROPERTIES
  Finishes
  RequestsLeave
