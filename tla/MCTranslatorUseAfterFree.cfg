SPECIFICATION Spec
CONSTANTS
  Songs <- OffThenTie
  PULSE_PER_QUARTER = 96
  WordSize = 65536
INVARIANT NoUseAfterFree
CHECK_DEADLOCK FALSE
