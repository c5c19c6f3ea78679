SPECIFICATION SystemSpec
CONSTANTS
  Txns = {t1, t2}
  Users = {alice, bob, carol}
  alice = alice
  bob = bob
  carol = carol
  Initial <- InitialRequests
  Responses <- Finals
  MaxTime = 1
  Radix = 1
  NoUser = NoUser
  Malformed = Malformed
  NoRequest = NoRequest
  NoDialog = NoDialog
  Calls <- AllCalls
  MaxCallListLength = 1
  Workers = {w1}
  Requests = {r1, r2}
  StoredBefore <- OneOldCall
  NotifierAttached = TRUE
  MaxRestarts = 1
  NoEntry = NoEntry
  NoCallListRequest = NoCallListRequest
  CallNumber <- Numbers
SYMMETRY Symm
 
PROPERTIES ImplementsMemento
CHECK_DEADLOCK FALSE
