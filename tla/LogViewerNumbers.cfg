SPECIFICATION Spec
CONSTANTS
  Stamp = {1}
  FirstNumber <- TwoLogs
  MaxLines = 2
CHECK_DEADLOCK FALSE
INVARIANT
  NumberedAsItsLog
