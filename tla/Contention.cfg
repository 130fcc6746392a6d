\* Two waves: reader 1 runs twice on file 1, reader 2 once.
CONSTANTS
  Waves = 2
  FileBlocks = 2
  Turns = 3
SPECIFICATION Spec
INVARIANTS TypeOK ColdAlone
PROPERTIES RunEnds
\* The run ends.
CHECK_DEADLOCK FALSE
