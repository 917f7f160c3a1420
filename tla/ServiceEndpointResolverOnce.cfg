SPECIFICATION Spec
CONSTANTS
  Caller = {c1, c2}
  Name = {n1}
  Entry = {e1, e2, e3}
  NoEntry = NoEntry
  MaxCalls = 2
  MaxTicks = 1
SYMMETRY CallerSymmetry
INVARIANT
  DisposedOnce
CHECK_DEADLOCK FALSE
