SPECIFICATION Spec
CONSTANTS
  Txns = {t1}
  Users = {alice, bob}
  alice = alice
  bob = bob
  Initial <- OneInvite
  Responses <- PrivateAnswers
  MaxTime = 2
  Radix = 2
  NoUser = NoUser
  Malformed = Malformed
  NoRequest = NoRequest
  NoDialog = NoDialog
PROPERTIES AnswererPrivacyKept
CHECK_DEADLOCK FALSE
