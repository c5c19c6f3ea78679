SPECIFICATION Spec
CONSTANTS
  Absent = Absent
  Unreadable = Unreadable
INVARIANTS OneInSomeCallsIsChecked
CHECK_DEADLOCK FALSE
