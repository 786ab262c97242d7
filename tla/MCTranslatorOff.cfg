SPECIFICATION Spec
CONSTANTS
  Songs <- OffTie
  PULSE_PER_QUARTER = 96
  WordSize = 65536
PROPERTY OffIsSilent
CHECK_DEADLOCK FALSE
