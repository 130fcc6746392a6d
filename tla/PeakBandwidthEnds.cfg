CONSTANTS
  Chunk = 2
  PipeCap = 3
  MaxBytes = 16
SPECIFICATION Spec
PROPERTIES TestEnds
CHECK_DEADLOCK FALSE
