SPECIFICATION InsertSpec
CONSTANTS
  Item = {1, 2, 3, 4}
  Capacity = 3
CHECK_DEADLOCK FALSE
INVARIANT
  TypeOK
PROPERTIES
  AddImplements
  InsertImplements
