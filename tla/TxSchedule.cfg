CONSTANTS
  Size = 3
  FreeThr = 2
  Handlers = {napi}
  MaxBacklog = 2
  MaxResets = 1
  Stas = {sta_a, sta_b}
  Senders = {caller}
  None = None
SPECIFICATION TFairSpec
INVARIANTS TokenHeadroom TokensHaveOneOwner UnblockedUnlessReset PendingIsListed OpenWorkHasRunner
PROPERTY BacklogDrains
CHECK_DEADLOCK FALSE
