SPECIFICATION Spec
CONSTANTS
  Calls = {1, 2, 3, 4}
  MaxCallListLength = 2
INVARIANTS TrimTakesVectorPrefix TrimLeavesMaxPlusEnds TrimKeepsNewestCalls
PROPERTIES TrimsKeepPace
CHECK_DEADLOCK FALSE
