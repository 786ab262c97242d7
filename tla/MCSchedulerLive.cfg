SPECIFICATION FairSpec
CONSTANTS
  Pieces <- AllPieces
  QueueSize = 5
  DrainSize = 3
  DefaultBpm = 120
  Horizon = 22
PROPERTIES
  NeverStalls
  LoopGoesOn
  CtrlCReturns
CHECK_DEADLOCK FALSE
