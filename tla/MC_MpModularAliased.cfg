SPECIFICATION ModularSpec
CONSTANTS
  Ints = {x, y}
  NULL = NULL
  MP_DIGIT_BIT = 2
  MP_MUL_TOOM_CUTOFF = 3
  MP_SQR_TOOM_CUTOFF = 3
  Scraps = {0, 5}
  Frames <- ModularFrames
  Contents <- MCContents
  MaxValue = 3
  Long = {}
  Values <- MCValues
INVARIANTS Reduced
CHECK_DEADLOCK FALSE
