CONSTANTS
  Chips = {"mt7925"}
  Works = {}
  Threads = {"command"}
  MaxTries = 2
SPECIFICATION FairSpec
PROPERTY ResetEnds
CHECK_DEADLOCK FALSE
