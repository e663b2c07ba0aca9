CONSTANTS
  a = a
  b = b
  c = c
  none = none
  NoItem <- MCNoItem
  Queues <- MCQueues
  Silent <- MCSilent
  MaxCommands = 4
  MaxFailures = 2
SPECIFICATION FairSpec
INVARIANTS OneVoice ShownIsHeard NothingSkipped LockOnlyWhilePlaying
PROPERTIES GapRespected ReadingEnds
CHECK_DEADLOCK FALSE
