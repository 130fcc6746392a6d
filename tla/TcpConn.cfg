\* The server stops more often than one run lasts.
CONSTANTS
  Runs = 4
  MaxStops = 3
SPECIFICATION TCSpec
INVARIANTS TCTypeOK OneVoidPerStop
PROPERTIES ScriptEnds
\* The script ends.
CHECK_DEADLOCK FALSE
