SPECIFICATION Spec
CONSTANTS
  Stamp = {1}
  FirstNumber <- ThreeLogs
  MaxLines = 1
CHECK_DEADLOCK FALSE
INVARIANT
  LastSourceIsRead
