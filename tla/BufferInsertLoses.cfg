SPECIFICATION InsertSpec
CONSTANTS
  Item = {1, 2, 3}
  Capacity = 4
CHECK_DEADLOCK FALSE
PROPERTY
  InsertImplements
