SPECIFICATION Spec
CONSTANTS
  Pieces <- SmallPieces
  ClientNumbers = {0, 1, 2}
  PortNumbers = {0, 1}
  MaxOptions = 2
  Chars = {"a", "b"}
  BufferStep = 2
  MaxInput = 5
  Others <- TheOthers
  Own = 2
  Players = {3}
  Ports <- ThePorts
INVARIANT FreedOnce
CHECK_DEADLOCK FALSE
