SPECIFICATION Spec
CONSTANTS
  Pieces <- LoopedPieces
  QueueSize = 5
  DrainSize = 3
  DefaultBpm = 120
  Horizon = 14
INVARIANT CtrlCStops
CHECK_DEADLOCK FALSE
