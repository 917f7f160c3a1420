SPECIFICATION FairSpec
CONSTANTS
  w1 = w1
  w2 = w2
  r1 = r1
  r2 = r2
  NoResource = NoResource
  Resource = {r1, r2}
  Watcher = {w1, w2}
  WaitsFor <- WaiterAndWatcher
  Target = {2}
  MaxVersion = 2
CHECK_DEADLOCK FALSE
INVARIANT
  TypeOK
PROPERTIES
  SeenInOrder
  AlreadyInTargetReturns
