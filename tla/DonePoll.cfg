SPECIFICATION FairSpec
CONSTANTS
  DMA_SIZE = 3
  AFullThres = 2
  MaxDone = 2
INVARIANTS TypeOK DoneOnce NoOvertake FifoBound
PROPERTY DoneServed
