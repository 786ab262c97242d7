SPECIFICATION FairSpec
CONSTANTS
  Songs <- AllSongsAndTests
  PULSE_PER_QUARTER = 96
  WordSize = 65536
INVARIANTS
  TypeOK
  Owned
  InTickOrder
  ToneMeetsOffset
  TopLevelUndisturbed
  NamespaceFollows
  ResultPlayable
  TestsPass
PROPERTY Terminates
CHECK_DEADLOCK FALSE
