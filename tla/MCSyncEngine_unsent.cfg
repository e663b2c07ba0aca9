SPECIFICATION Spec
CONSTANTS
  d1 = d1
  server = server
  Server = server
  Nobody = nobody
  Devices = {d1}
  NKeys = 3
  Stamps <- OneDevice
  Documents = {1}
  DocOf <- DocumentRows
  Pages = {2}
  Cascaded = {3}
  NSynced = 1
  MaxBatch = 2
  MaxEdits = 2
  MaxFaults = 1
INVARIANTS UnsentQueued CascadeComplete Converged
PROPERTY NoRegress
CHECK_DEADLOCK FALSE
