SPECIFICATION FairSpec
CONSTANTS
  w1 = w1
  w2 = w2
  v1 = v1
  v2 = v2
  None = None
  NoFile = NoFile
  Other = Other
  Worker = {w1, w2}
  Version = {v1, v2}
  FirstVersion = v1
  Chunks = 2
  SendRoom = 1
  MaxEdits = 1
  MaxFaults = 1
INVARIANTS
  TypeOK
  AtMostOneTransfer
  WholeVersionInstalled
PROPERTIES
  SyncConverges
