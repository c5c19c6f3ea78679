SPECIFICATION Spec
CONSTANTS
  Txns = {t1}
  Users = {alice, bob}
  alice = alice
  bob = bob
  Initial <- MissingIdentity
  Responses <- OneOfEach
  MaxTime = 2
  Radix = 2
  NoUser = NoUser
  Malformed = Malformed
  NoRequest = NoRequest
  NoDialog = NoDialog
INVARIANTS OutgoingCallerRecorded
CHECK_DEADLOCK FALSE
