SPECIFICATION Spec
CONSTANTS
  Radix = 4
  DigitMod = 8
  MP_MAX_DIGIT_COUNT = 4
  MP_MIN_DIGIT_COUNT = 3
  MP_DIGIT_BIT = 2
  MaxUsed = 2
  AllocDigits = 2
  SampleDigits = {0, 1}
  FirstUsed = 1
  FirstDigits = {0, 1}
  MaxCalls = 1
  Ints = {x, y}
  Numbers <- MCNumbers
  FirstNumbers <- MCFirstNumbers
  BitCounts <- MCBitCounts
PROPERTIES ComplementInPlace
CHECK_DEADLOCK FALSE
