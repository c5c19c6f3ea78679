SPECIFICATION MementoSpec
CONSTANTS
  Workers = {w1, w2}
  Requests = {r1, r2, r3}
  Impus = {i1}
  i1 = i1
  Calls = {1, 2}
  NewCalls = {1, 2}
  MaxCallListLength = 1
  Entries <- AllEntries
  StoredBefore <- NothingStored
  MaxRestarts = 1
  NotifierAttached = TRUE
  NoRequest = NoRequest
  NoEntry = NoEntry
SYMMETRY Symm
INVARIANTS MementoTypeOK EntriesAccountedFor CallHasOneOutcome FailedCallsCountedOnce
CHECK_DEADLOCK FALSE
