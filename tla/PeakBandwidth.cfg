\* One buffer does not divide a direction, so that calls block halfway.  Six
\* short rounds fill both directions, the seventh send() stands off: MaxBytes is
\* what a standoff takes, and one round more.
CONSTANTS
  Chunk = 2
  PipeCap = 3
  MaxBytes = 16
SPECIFICATION Spec
INVARIANTS TypeOK EchoBalance RecvIsOwed StandoffBacklog ServerDrains
PROPERTIES StreamSpec EndsOrStandsOff ServerFollows
\* Both programs end.
CHECK_DEADLOCK FALSE
