SPECIFICATION Spec
CONSTANTS
  Workers = {w1}
  Requests = {r1, r2}
  Impus = {i1}
  i1 = i1
  Calls = {1, 2, 3, 4}
  MaxCallListLength = 1
  Entries <- ThreeMore
  StoredBefore <- OneAnswered
  MaxRestarts = 0
  NotifierAttached = TRUE
  NoRequest = NoRequest
  NoEntry = NoEntry
INVARIANTS TrimBringsBelowThreshold
CHECK_DEADLOCK FALSE
