CONSTANTS
  Rx = {main}
  McuTx = mcu_tx
  DataTx = {}
  McuCmd = {}
  Data = main
SPECIFICATION FairSpec
INVARIANT NoArrivalIsStranded
PROPERTY RingIsDrained
