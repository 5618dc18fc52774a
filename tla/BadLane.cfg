SPECIFICATION Spec
CONSTANTS
  DMA_SIZE = 1
  TxBuffCnt = 2
  RxBuffCnt = 1
  MaxTx = 2
  MaxRx = 0
  DoneThresh = 1
  Faults = {}
  WriteLanes = {0, 1}
INVARIANT AckedIsSubmitted
