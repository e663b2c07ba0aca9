SPECIFICATION FairSpec
CONSTANTS
  aDoc = aDoc
  aPage = aPage
  aNote = aNote
  NoDoc = NoDoc
  Rows <- MCRows
  TableOf <- MCTableOf
  PageDoc <- MCPageDoc
  NTables = 3
  Annotations = 3
  Writers = {w1, w2}
  Devices = {d1}
  MaxRows = 1
  MaxSeq = 3
  MaxFaults = 1
  MaxToggles = 1
INVARIANTS TypeOK NeverSkips
PROPERTIES ImplementsFeed EventuallyCaughtUp
CHECK_DEADLOCK FALSE
