SPECIFICATION Spec
CONSTANTS
  d1 = d1
  d2 = d2
  r1 = r1
  r2 = r2
  Devices = {d1, d2}
  Requests = {r1, r2}
  FreeAttempts = 2
  MaxRequests = 5
  MaxGuesses = 4
SYMMETRY Symmetry
INVARIANTS GuessesBounded LinkUsedOnce ToldGone
CHECK_DEADLOCK FALSE
