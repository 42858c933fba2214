SPECIFICATION FairSpec
CONSTANTS
  i1 = i1
  i2 = i2
  i3 = i3
  NULL = NULL
  Ints <- MCInts
  Frames <- MCFrames
  Contents <- MCContents
  Spare = 7
  MP_DIGIT_BIT = 2
  MP_MUL_TOOM_CUTOFF = 3
  MP_SQR_TOOM_CUTOFF = 3
  Scraps = {0, 5}
  GcdMax = 12
  GcdNegative = 3
  GcdLong = {16, 18}
  DivMax = 12
  DivNegative = 2
  DivLong = {15, 16, 63, 64, 100, 255, 256, 679, 1023}
  RootMax = 28
  RootNegative = 9
  RootPowers = {64, 125, 243, 289}
  RootMaxOrder = 5
  InvMax = 15
  InvNegative = 3
  InvLong = {27, 47, 253, 777}
  EuclidMax = 9
  EuclidNegative = 3
  ExptMax = 4
  ExptMaxExponent = 7
  PowerBases = {0, 1, 2, 3, 5}
  PowerMaxExponent = 12
  PowerExponents = {127, 128, 187, 255, 341, 511}
  PowerModuli = {0, 1, 2, 5, 11, 12, 15, 21, 24, 25, 29, 34}
  SymbolMax = 17
  SquareMax = 140
  SquareRoots = 105
  RootModuli = {0, 1, 2, 3, 5, 7, 8, 9, 13, 17, 33, 41, 65, 97}
  ResidueMax = 20
INVARIANTS
  TypeOK GcdAndLcmCorrect DivCorrect RootsCorrect InversesCorrect
  PowersCorrect ResiduesCorrect
  LoopInvariant EstimateClose FailureLeaves TemporariesCleared
PROPERTIES OthersReturn
CHECK_DEADLOCK FALSE
