SPECIFICATION Spec
CONSTANTS
  Pieces <- AllPieces
  QueueSize = 5
  DrainSize = 3
  DefaultBpm = 120
  Horizon = 20
INVARIANTS
  TypeOK
  RefillPending
  PoolSuffices
  LookAhead
  InTickOrder
  LoopPeriod
  TempoNotAhead
PROPERTY PerformsInOrder
CHECK_DEADLOCK FALSE
