SPECIFICATION Spec
CONSTANTS
  Stamp = {1, 2, 3}
  FirstNumber <- OneLog
  MaxLines = 6
CHECK_DEADLOCK FALSE
INVARIANT
  EntryStaysTogether
