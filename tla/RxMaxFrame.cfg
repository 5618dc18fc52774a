SPECIFICATION Spec
CONSTANTS
  TransLen = 6
  BufWords = 12
  MaxFrame <- DriverMaxFrame
  Lengths = {1, 2, 6, 7, 11, 12, 13, 20, 48}
  Mids = {0, 7}
  FrameCnt = 2
  Depth = 4
INVARIANT WithinBuffer
CHECK_DEADLOCK FALSE
