SPECIFICATION Spec
CONSTANTS
  Item = {1, 2}
  Capacity = 3
CHECK_DEADLOCK FALSE
PROPERTY
  AddImplements
