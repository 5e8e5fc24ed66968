CONSTANTS
  NDesc = 5
  Frames = {f1, f2, f3}
  MaxDescs = 2
  Cleaners = {napi, worker}
  Resetter = resetter
  None = None
  Part = Part
SPECIFICATION FairSpec
INVARIANTS RingIsConsistent HardwareFetchesLive
PROPERTIES FifoSpec QueuedFrameCompletes
