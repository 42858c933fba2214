SPECIFICATION ModularSpec
CONSTANTS
  Ints = {w, x, y, z}
  NULL = NULL
  MP_DIGIT_BIT = 2
  MP_MUL_TOOM_CUTOFF = 3
  MP_SQR_TOOM_CUTOFF = 3
  Scraps = {0, 5}
  Frames <- ModularFrames
  Contents <- MCContents
  MaxValue = 3
  Long = {16}
  Values <- MCValues
SYMMETRY Symmetry
INVARIANTS ReducedApart RefusedOnlyForZero
CHECK_DEADLOCK FALSE
