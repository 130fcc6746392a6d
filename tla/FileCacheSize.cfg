CONSTANTS
  FileBlocks = 5
  Sizes <- MCSizes
  Samples = 2
  Capacity = 3
SPECIFICATION Spec
INVARIANTS TypeOK StepAtCapacity
\* The program ends.
CHECK_DEADLOCK FALSE
