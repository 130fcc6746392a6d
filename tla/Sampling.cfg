\* A round of three cycles no longer fits the int.
CONSTANTS
  LoopIter = 2
  EnsembleSize = 3
  Procedures = 2
  Unit = 2
  IntHalf = 3
  ULong = 64
  MaxTicks = 3
  MaxOverhead = 2
SPECIFICATION SSpec
INVARIANTS STypeOK OneAtATime ReportRoundsDown
PROPERTIES Ends
\* The programs end.
CHECK_DEADLOCK FALSE
