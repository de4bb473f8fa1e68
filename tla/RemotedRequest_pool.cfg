SPECIFICATION MCSpec
CONSTANTS
  r1 = r1
  r2 = r2
  r3 = r3
  c1 = c1
  c2 = c2
  h1 = h1
  h2 = h2
  None = None
  Request = {r1, r2}
  Counter = {c1, c2}
  Handler = {h1}
  Response = {"response"}
  Protocol = {"udp"}
  PoolSize = 1
  max_attempts = 2
SYMMETRY Symmetry
INVARIANTS
  SlotsConserved
