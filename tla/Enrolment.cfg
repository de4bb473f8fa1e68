SPECIFICATION FairSpec
CONSTANTS
  n1 = n1
  n2 = n2
  manager = manager
  a1 = a1
  Any = any
  None = none
  Name = {n1, n2, manager}
  shost = manager
  Ip = {a1}
  save_removed = TRUE
  Options = {{}, {"remote", "ids"}, {"sync"}}
  MaxAdds = 2
  MaxId = 2
  MaxFaults = 1
INVARIANTS
  NoClashingAgents
  FreshIds
  
  

  
