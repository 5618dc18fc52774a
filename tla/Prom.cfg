SPECIFICATION Spec
CONSTANTS
  LineMax = 16
  Files <- MCFiles
  BUF = 10
  BlockSize = 10
  PROM_SIZE = 10
  MaxFail = 1
  MaxKills = 2
INVARIANTS LoadedImage RunRecovers NoOverwrite
PROPERTIES Finishes
CHECK_DEADLOCK FALSE
