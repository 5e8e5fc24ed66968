CONSTANTS
  x1 = x1
  x2 = x2
  be = be
  Xmitters = {x1}
  TxWorker = tx_worker
  RxNapi = rx_napi
  Pollers = {tx_worker, rx_napi}
  ACs = {be}
  Tasks = {config}
  MacTask = NoTask
  NoTask = NoTask
  MaxTokens = 1
  MayFail = FALSE
SPECIFICATION FairSpec
PROPERTIES ParkedFrameLeaves MutexUserProceeds QuietDeviceSleeps
