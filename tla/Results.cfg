CONSTANTS
  Shells = {s1, s2}
SPECIFICATION Spec
INVARIANTS TypeOK Founded
PROPERTIES PreparedRunsReport
