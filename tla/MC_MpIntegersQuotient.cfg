SPECIFICATION Spec
CONSTANTS
  i1 = i1
  i2 = i2
  i3 = i3
  NULL = NULL
  Ints <- MCInts
  Frames <- MCFrames
  Contents <- MCContents
  Spare = 7
  MP_DIGIT_BIT = 2
  MP_MUL_TOOM_CUTOFF = 3
  MP_SQR_TOOM_CUTOFF = 3
  Scraps = {0, 5}
  GcdMax = 2
  GcdNegative = 1
  GcdLong = {}
  DivMax = 4
  DivNegative = 2
  DivLong = {16}
  RootMax = 9
  RootNegative = 8
  RootPowers = {64}
  RootMaxOrder = 3
  InvMax = 5
  InvNegative = 1
  InvLong = {}
  EuclidMax = 3
  EuclidNegative = 1
  ExptMax = 1
  ExptMaxExponent = 1
  PowerBases = {2}
  PowerMaxExponent = 1
  PowerExponents = {}
  PowerModuli = {5}
  SymbolMax = 1
  SquareMax = 4
  SquareRoots = 1
  RootModuli = {3}
  ResidueMax = 1
INVARIANT Divided
CHECK_DEADLOCK FALSE
