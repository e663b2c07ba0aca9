SPECIFICATION FairSpec
CONSTANTS
  d1 = d1
  server = server
  Server = server
  Nobody = nobody
  Devices = {d1}
  NKeys = 2
  Stamps <- OneDevice
  Documents = {}
  DocOf <- NoReferences
  Pages = {}
  Cascaded = {}
  NSynced = 0
  MaxBatch = 1
  MaxEdits = 3
  MaxFaults = 1
PROPERTY EventuallyConverged
CHECK_DEADLOCK FALSE
