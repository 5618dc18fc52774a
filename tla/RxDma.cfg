SPECIFICATION Spec
CONSTANTS
  TransLen = 6
  BufWords = 12
  MaxFrame = 12
  Lengths = {1, 2, 6, 7, 11, 12, 13, 20}
  Mids = {0, 7}
  FrameCnt = 2
  Depth = 4
INVARIANTS FrameIntact WithinBuffer
PROPERTY EveryFrame
CHECK_DEADLOCK FALSE
