SPECIFICATION Spec
CONSTANTS
  Radix = 4
  DigitMod = 8
  MP_MAX_DIGIT_COUNT = 3
  Ints = {x, y, z}
  MaxUsed = 2
  AllocDigits = 2
  SampleDigits = {0, 1, 3}
  Numbers <- MCNumbers
INVARIANTS TypeOK ResultCorrect ResultWellFormed InBounds FailureKeepsMagnitude
CHECK_DEADLOCK FALSE
