SPECIFICATION Spec
CONSTANTS
  Caller = {c1, c2}
  Name = {n1}
  Entry = {e1, e2, e3}
  NoEntry = NoEntry
  MaxCalls = 3
  MaxTicks = 2
SYMMETRY CallerSymmetry
INVARIANTS
  TypeOK
  NotDisposedWhileResolving
  OnDisposedExists
  RecentUseKept
  LeaksOnlyRaceLosers
CHECK_DEADLOCK FALSE
