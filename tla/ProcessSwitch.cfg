\* Three ensembles, so that two means can wait in the buffer while children exit.
CONSTANTS
  EnsembleSize = 2
  LoopIter = 3
  MaxDelay = 3
  MaxSeen = 2
SPECIFICATION Spec
INVARIANTS FreshStamp MeansPrinted
PROPERTIES RoundsSpec RoundEnds
\* The program ends, or waits for a child that never was.
CHECK_DEADLOCK FALSE
