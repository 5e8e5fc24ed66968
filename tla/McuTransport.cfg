CONSTANTS
  Chips = {"mt7925", "mt7927"}
  Ops = {op}
  Hints = {scan}
  Reset = reset
  Commands = {dev_info}
  Checked = {dev_info}
  LastSeq = 2
  MaxAttempts = 2
  MaxHeld = 2
SPECIFICATION FairSpec
INVARIANTS AcceptedIsOwn OneMessageSlips
PROPERTY OpReturns
CHECK_DEADLOCK FALSE
