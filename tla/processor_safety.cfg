SPECIFICATION Spec
CONSTANTS
  Workers = {w1, w2}
  Requests = {r1, r2, r3}
  Impus = {i1}
  i1 = i1
  Calls = {1, 2, 3}
  MaxCallListLength = 1
  Entries <- AnsweredThenRejected
  StoredBefore <- OneRejected
  MaxRestarts = 1
  NotifierAttached = TRUE
  NoRequest = NoRequest
  NoEntry = NoEntry
SYMMETRY Symm
INVARIANTS TypeOK RequestOwnership PendingTrimsSafe RecordsKept ChangesNotified
PROPERTIES ImplementsCallList
CHECK_DEADLOCK FALSE
