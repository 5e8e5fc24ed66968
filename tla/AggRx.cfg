CONSTANTS
  SnMod = 15
  Size = 3
  Gap = 4
  FirstMsdu = 12
  MaxMsdu = 16
  MaxSessions = 2
  None = None
SPECIFICATION FairSpec
INVARIANTS ReleasedInOrder BufferedInWindow BufferedHasTimer StoppedIsQuiet
PROPERTIES DiscardedOnlyDuplicates BufferedFrameLeaves
CHECK_DEADLOCK FALSE
