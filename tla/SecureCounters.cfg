SPECIFICATION Spec
CONSTANTS
  a1 = a1
  a2 = a2
  Agent = {a1, a2}
  LocalMax = 2
  _s_recv_flush = 2
  _s_verify_counter = TRUE
  MaxGlobal = 1
SYMMETRY Symmetry
INVARIANTS
  TypeOK
  NotLockedOut
PROPERTIES
  NumbersFresh
  NoReplay
