CONSTANTS
  Slots = {s1, s2}
  Texts = {}
  NChunks = 2
  Versions = {v1}
  LocalAnswer = LocalAnswer
  Nothing = Nothing
  Verdicts = {"strict"}
  Quota = 2
  Budget = 9
  CallCost = 1
  AllAsync = FALSE
  MaxRequests = 1
  MaxFaults = 1
  MaxSummaries = 1
SPECIFICATION FairSummarySpec
INVARIANTS SummaryOfAllChunks AnswersItsOwn
PROPERTIES SummaryEnds
CHECK_DEADLOCK FALSE
