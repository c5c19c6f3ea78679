SPECIFICATION Spec
CONSTANTS
  Txns = {t1, t2}
  Users = {alice, bob}
  alice = alice
  bob = bob
  Initial <- OneInvite
  Responses <- OneOfEach
  MaxTime = 2
  Radix = 2
  NoUser = NoUser
  Malformed = Malformed
  NoRequest = NoRequest
  NoDialog = NoDialog
INVARIANTS StartTimesAgree
CHECK_DEADLOCK FALSE
