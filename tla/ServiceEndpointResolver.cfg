SPECIFICATION FairSpec
CONSTANTS
  Caller = {c1, c2}
  Name = {n1}
  Entry = {e1, e2}
  NoEntry = NoEntry
  MaxCalls = 2
  MaxTicks = 1
INVARIANTS
  TypeOK
  NotDisposedWhileResolving
  OnDisposedExists
  RecentUseKept
  LeaksOnlyRaceLosers
PROPERTIES
  CallReturns
  DisposingEntryStops
  DisposeTerminates
CHECK_DEADLOCK FALSE
