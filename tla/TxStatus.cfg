CONSTANTS
  Skbs = {f1, f2}
  Wcids = {w1, w2}
  Nobody = Nobody
  WtblSize = 1
  LastPid = 2
  MaxRecoveries = 1
SPECIFICATION SFairSpec
INVARIANT GivenIsGone
INVARIANT IdsAreWatched
INVARIANT ReportIsOwn
PROPERTY FrameIsGiven
CHECK_DEADLOCK FALSE
