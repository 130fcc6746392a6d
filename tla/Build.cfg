CONSTANTS
  MemSize = 2
  FsSize = 3
  Mapped = 2
  MaxEdits = 1
SPECIFICATION Spec
INVARIANTS TypeOK FreshSinceClean EnoughFile
