SPECIFICATION Spec
CONSTANTS
    clientHeight = 8
    Height = {4, 12, 20, 24}
    MaxScrolls = 2
    MaxChanges = 5
    MaxClicks = 2
INVARIANTS TypeOK KnowsWhereUserIs ShownUntilTimeout BackToCopy
PROPERTY NewItemsShown
CHECK_DEADLOCK FALSE
