SPECIFICATION FairRequestSpec
CONSTANTS
  a1 = a1
  w1 = w1
  w2 = w2
  c1 = c1
  AiJobs = {a1}
  PageJobs = {}
  Workers = {w1, w2}
  Calls = {c1}
  NoJob = nojob
  Nobody = nobody
  MaxAttempts = 2
  MaxClaims = 2
  MaxPosts = 1
  MaxActive = 1
INVARIANTS NothingLeftBehind AnsweredFromResult
PROPERTY EveryRequestEnds
CHECK_DEADLOCK FALSE
