SPECIFICATION Spec
CONSTANTS
  Radix = 8
  DigitMod = 16
  MP_MAX_DIGIT_COUNT = 4
  MP_MIN_DIGIT_COUNT = 3
  MP_DIGIT_BIT = 3
  MaxUsed = 2
  AllocDigits = 2
  SampleDigits = {0, 1, 6, 7}
  FirstUsed = 1
  FirstDigits = {0, 6}
  MaxCalls = 2
  Ints = {x, y}
  Numbers <- MCNumbers
  FirstNumbers <- MCFirstNumbers
  BitCounts <- MCBitCounts
SYMMETRY Symmetry
INVARIANTS TypeOK Canonical
PROPERTIES CallCorrect ExcessZeroKept FailureLeaves
CHECK_DEADLOCK FALSE
