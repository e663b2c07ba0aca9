CONSTANTS
  Slots = {s1, s2}
  Texts = {t1}
  NChunks = 1
  Versions = {v1}
  LocalAnswer = LocalAnswer
  Nothing = Nothing
  Verdicts = {"adult_redirect", "safety_input", "strict"}
  Quota = 1
  Budget = 5
  CallCost = 4
  AllAsync = FALSE
  MaxRequests = 3
  MaxFaults = 1
SPECIFICATION Spec
INVARIANTS LimitsHold ReportedToParent QuestionsKept
SYMMETRY Clients
CHECK_DEADLOCK FALSE
