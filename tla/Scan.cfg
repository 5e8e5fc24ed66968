CONSTANTS
  Chips = {"mt7925", "mt7927"}
  Works = {"ps_work", "coredump_work"}
  Threads = {"command"}
  MaxTries = 1
  MaxEvents = 1
SPECIFICATION FairScanSpec
INVARIANTS OperationalAtRest SuspendedIsQuiet HifIdleIsFresh ScanIsAnsweredOnce
PROPERTIES PmReturns ScanEnds
CHECK_DEADLOCK FALSE
