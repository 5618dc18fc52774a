SPECIFICATION Spec
CONSTANTS
  DMA_SIZE = 2
  TxBuffCnt = 2
  RxBuffCnt = 2
  MaxTx = 4
  MaxRx = 0
  DoneThresh = 1
  Faults = {"retry", "again", "signal", "copyFrom"}
  WriteLanes = {0, 1}
INVARIANTS TxExclusive TxConserved TxIntegrity
PROPERTY TxRingSpec
