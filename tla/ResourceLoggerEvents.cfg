SPECIFICATION Spec
CONSTANTS
  a = a
  b = b
  s1 = s1
  s2 = s2
  Writer = {a, b}
  Watcher = {s1, s2}
  Bound <- MCBound
  Capacity = 1
  MaxClears = 1
CHECK_DEADLOCK FALSE
INVARIANT LastEventIsRight
