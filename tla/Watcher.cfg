SPECIFICATION FairSpec
CONSTANTS
  Caller = {c1, c2}
  Refresh = {t1, t2}
  Active = {1}
  MaxChanges = 2
  MaxFailures = 1
  MaxPolls = 2
CHECK_DEADLOCK FALSE
INVARIANTS
  TypeOK
  Coherence
  QuietAfterDispose
PROPERTIES
  NotifiedInOrder
  CallReturnsOrLockBlocks
  DisposeEndsOrLockBlocks
