SPECIFICATION AppendSpec
CONSTANTS
  Item = {1, 2, 3}
  Capacity = 5
CHECK_DEADLOCK FALSE
PROPERTY
  AppendImplements
