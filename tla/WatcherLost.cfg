SPECIFICATION FairSpec
CONSTANTS
  Caller = {c1, c2}
  Refresh = {t1, t2}
  Active = {0, 1, 2}
  MaxChanges = 2
  MaxFailures = 0
  MaxPolls = 0
CHECK_DEADLOCK FALSE
PROPERTY
  ChangeIsRefreshed
