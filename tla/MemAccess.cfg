CONSTANTS
  SizeList <- MCSizes
  StrideList = {0, 1, 2, 3, 4, 8, 12}
  EnsembleSize = 10
SPECIFICATION MASpec
INVARIANTS MATypeOK FullLap
\* The program ends.
CHECK_DEADLOCK FALSE
