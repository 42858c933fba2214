SPECIFICATION Spec
CONSTANTS
  Ints = {x, y, z}
  Blocks = {b1, b2, b3, b4}
  NULL = NULL
  GARBAGE = GARBAGE
  MP_DIGIT_MAX = 1
  MP_MIN_DIGIT_COUNT = 3
  MP_DEFAULT_DIGIT_COUNT = 4
  MP_MAX_DIGIT_COUNT = 4
  MaxShift = 2
SYMMETRY Symmetry
INVARIANTS TypeOK Ownership ExcessZero Canonical
PROPERTIES FailureChangesNothing ImplementsValues
