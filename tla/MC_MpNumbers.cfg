SPECIFICATION FairSpec
CONSTANTS
  i1 = i1
  i2 = i2
  i3 = i3
  NULL = NULL
  Ints <- MCInts
  Frames <- MCFrames
  Contents <- MCContents
  Spare = 7
  MP_DIGIT_BIT = 2
  MP_WORD_BIT = 6
  MP_MUL_KARATSUBA_CUTOFF = 2
  MP_SQR_KARATSUBA_CUTOFF = 2
  MP_MUL_TOOM_CUTOFF = 3
  MP_SQR_TOOM_CUTOFF = 3
  Scraps = {}
  Factors = {0, 7, 15, 603, 4095, 12345, 16383}
  MinusFactors = {3, 64, 1023}
  DigitsAsked = {0, 1, 3, 4, 7}
  Moduli = {0, 1, 2, 3, 7, 12, 13, 15, 16, 21, 31, 60, 61, 63, 64, 127, 252, 253, 255, 511, 1020, 1021}
  Fractions = 6
  RhoBits = {2, 5, 9, 14}
  LongDivisors = {256, 511, 515, 575, 640, 767, 1039, 1088, 1279, 4095}
  LongQuotients = {256, 1023, 1024, 4095, 5000, 16383, 16384, 65535, 65536, 100000}
  LongDividends = {67108864, 134217727, 134230073, 134348800}
  LogNumbers = {0, 1, 2, 3, 9, 10, 26, 27, 28, 99, 100, 242, 243, 244, 999, 1000, 1001, 2187, 2186, 4095,
                9999, 10000, 14641, 16383, 16806, 16807, 33554431}
  LogBases = {0, 1, 2, 3, 5, 7, 8, 9, 10, 11, 30}
  LogLimits = {4, 7, 100}
  MP_PRIME_TAB_SIZE = 4
  Deterministic <- MCDeterministic
  INT_MAX = 17
  LTM_FROBENIUS_UNDERWOOD_A = 40
  TestedMax = 130
  Tested = {169, 341, 361, 561, 751, 961, 1105, 1681, 1729, 1849, 2047, 2465, 2821, 3277, 4033, 4681, 5459, 5777, 6241, 6601}
  TestBases = {1, 2, 3, 5, 20, 200}
  FrobeniusMax = 2500
  NextMax = 80
  Next3 = {113, 523, 524, 887}
  PrimeSizes = {1, 2, 3, 4}
  TrialBits = {0, 79, 80, 81, 82, 96, 127, 1000, 10239, 10240, 20000}
  TextMax = 20
  TextNumbers = {63, 64, 65, 99, 100, 255, 256, 1000, 4095, 65535, 65536, 130000}
  Radices = {2, 10, 16, 36, 64}
  RoomMax = 6
  SizeLimits = {4, 100}
  Strings = 3
  ReadRadices = {2, 10, 16, 36, 37, 64}
  ByteValues = {0, 1, 129, 255}
  Nails = {0, 1, 7, 8, 11}
  Widths = {1, 2, 3, 5}
  MachineMax = 17
  FormatsSet <- MCFormatsSet
  FormatsGot <- MCFormatsGot
  BytesMax = 3
INVARIANTS
  TypeOK ProductCorrect ReductionCorrect RecursionCorrect LogCorrect PrimalityCorrect
  ConversionsCorrect LoopInvariant FailureLeaves
PROPERTIES EveryCallReturns
CHECK_DEADLOCK FALSE
