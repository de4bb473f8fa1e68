SPECIFICATION FairSpec
CONSTANTS
  Agent = {a1, a2}
  Fd = {f1, f2}
  Worker = {w1}
  main = main
  None = none
  overtake = TRUE
  QueueSize = 1
  MaxFaults = 1
  MaxRaces = 1
INVARIANTS
  SessionsCounted
PROPERTIES
  Settles
  KeysReloaded
