CONSTANTS
  Tokens = 2
  MaxAdded = 2
SPECIFICATION FairSpec
INVARIANTS RocIsWatched WaiterIsNotForgotten
PROPERTIES RocEnds CallReturns
CHECK_DEADLOCK FALSE
