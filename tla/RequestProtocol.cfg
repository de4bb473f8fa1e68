SPECIFICATION MCSpec
CONSTANTS
  r1 = r1
  r2 = r2
  c1 = c1
  c2 = c2
  h1 = h1
  None = None
  Request = {r1, r2}
  Counter = {c1, c2}
  Sent = {c1, c2}
  Handler = {h1}
  Response = {"result", "refusal", "garbage"}
  Protocol = {"udp"}
  PoolSize = 1
  max_attempts = 2
  ring_size = 2
  agent_attempts = 1
SYMMETRY Symmetry
INVARIANTS
  ResultWasExecuted
  
