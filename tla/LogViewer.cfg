SPECIFICATION Spec
CONSTANTS
  Stamp = {1, 2, 3}
  FirstNumber <- TwoLogs
  MaxLines = 4
CHECK_DEADLOCK FALSE
INVARIANTS
  NumbersConsecutive
  SecondLineFollows
  ArrivalOrderKept
  OneStaleBatch
