SPECIFICATION FairSpec
CONSTANTS
  p1 = p1
  w1 = w1
  w2 = w2
  c1 = c1
  AiJobs = {}
  PageJobs = {p1}
  Workers = {w1, w2}
  Calls = {c1}
  NoJob = nojob
  Nobody = nobody
  MaxAttempts = 1
  MaxClaims = 2
  MaxPosts = 1
INVARIANT EffectsCounted
PROPERTIES ImplementsLife EveryJobEnds
CHECK_DEADLOCK FALSE
