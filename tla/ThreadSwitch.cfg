\* Two pipes for four samples: the last rounds reuse the second pipe.
CONSTANTS
  Pipes = 2
  EnsembleSize = 2
  LoopIter = 2
  Limit = 3
  Width = 6
  MaxDelay = 3
SPECIFICATION Spec
INVARIANTS FreshStamp
PROPERTIES AcceptSound RoundsSpec RoundEnds
\* The program ends, crashes or waits for a thread that never was.
CHECK_DEADLOCK FALSE
