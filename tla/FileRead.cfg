CONSTANTS
  FileBlocks = 6
  Sizes <- MCSizes
  Samples = 3
  Half = 5
SPECIFICATION Spec
INVARIANTS TypeOK SeqCovers HitsAreOwn RandomInTail
\* The program ends.
CHECK_DEADLOCK FALSE
