SPECIFICATION MCFairSpec
CONSTANTS
  a1 = a1
  a2 = a2
  w1 = w1
  w2 = w2
  gc = gc
  None = None
  Agent = {a1}
  Worker = {w1, w2}
  Limits = {1, 2}
  MaxQueries = 3
  MaxChanges = 1
  MaxFaults = 1
INVARIANTS
  TypeOK
  
  TransactionsKnown
  ClosedCommitted
PROPERTIES
  
  PoolShrinks
  QueriesAnswered
