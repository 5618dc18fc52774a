SPECIFICATION FairSpec
CONSTANTS
  DMA_SIZE = 1
  TxBuffCnt = 1
  RxBuffCnt = 1
  MaxTx = 2
  MaxRx = 2
  DoneThresh = 1
  Faults = {"retry", "short"}
  WriteLanes = {0, 1}
INVARIANTS TypeOK RxIntegrity
PROPERTIES WriterServed FrameSettled
CHECK_DEADLOCK FALSE
