CONSTANTS
  p1 = p1
  NoPage = NoPage
  Pages = {p1}
  MaxJobAttempts = 2
  MaxGen = 2
  MaxEvents = 3
SPECIFICATION FairSpec
INVARIANTS CrashLoopGuard AnsweredByOwnRun NoPageForgotten
PROPERTY EventuallyAtRest
CHECK_DEADLOCK FALSE
