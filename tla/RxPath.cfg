SPECIFICATION Spec
CONSTANTS
  DMA_SIZE = 2
  TxBuffCnt = 1
  RxBuffCnt = 2
  MaxTx = 0
  MaxRx = 4
  DoneThresh = 1
  Faults = {"copyCmd", "copyTo", "again", "signal"}
  WriteLanes = {0}
INVARIANTS RxConserved RxHomeLane RxFrameOnce RxIntegrity
PROPERTY RxRingSpec
CHECK_DEADLOCK FALSE
