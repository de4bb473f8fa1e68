SPECIFICATION MCFairSpec
CONSTANTS
  p1 = p1
  p2 = p2
  m1 = m1
  m2 = m2
  None = none
  Producer = {p1, p2}
  Msg = {m1, m2}
  buflength = 4
  warn_level = 50
  normal_level = 30
  tolerance = 1
  WarnTie = 0
  NormalTie = 0
INVARIANTS
  TypeOK
  LevelTracksOccupancy
  NormalNoticeKept
PROPERTIES
  HeadIsPopped
  ImplementsFifo
