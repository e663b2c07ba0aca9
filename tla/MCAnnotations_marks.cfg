CONSTANTS
  Ids = {1, 2}
  Texts <- MCTexts
  FirstText <- MCFirst
  Selections = {2, 4}
  Typed = {"", "t"}
  HistoryLimit = 2
  MaxWrites = 3
  MaxChanges = 2
SPECIFICATION Spec
INVARIANTS HistoryFits FollowsItsWords
PROPERTY BoxStaysRemoved
CHECK_DEADLOCK FALSE
