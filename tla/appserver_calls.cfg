SPECIFICATION Spec
CONSTANTS
  Txns = {t1, t2, t3}
  Users = {alice, bob}
  alice = alice
  bob = bob
  Initial <- EitherInvite
  Responses <- OneOfEach
  MaxTime = 1
  Radix = 1
  NoUser = NoUser
  Malformed = Malformed
  NoRequest = NoRequest
  NoDialog = NoDialog
SYMMETRY Symm
INVARIANTS TypeOK OneFragmentPerTransaction EndMatchesOpening CallsKeptApart
PROPERTIES ImplementsCallEntries
CHECK_DEADLOCK FALSE
