SPECIFICATION Spec
CONSTANTS
  Songs <- OddLoops
  PULSE_PER_QUARTER = 96
  WordSize = 65536
PROPERTY LoopEndsWithItsSheet
CHECK_DEADLOCK FALSE
