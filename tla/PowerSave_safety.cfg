CONSTANTS
  x1 = x1
  x2 = x2
  be = be
  Xmitters = {x1, x2}
  TxWorker = tx_worker
  RxNapi = rx_napi
  Pollers = {tx_worker, rx_napi}
  ACs = {be}
  Tasks = {config, mac_work}
  MacTask = mac_work
  NoTask = NoTask
  MaxTokens = 1
  MayFail = TRUE
SPECIFICATION Spec
SYMMETRY XmitterSymmetry
INVARIANT FlowHasWake
PROPERTY LeaseSpec
