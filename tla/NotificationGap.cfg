SPECIFICATION FairSpec
CONSTANTS
  w1 = w1
  w2 = w2
  r1 = r1
  r2 = r2
  NoResource = NoResource
  Resource = {r1}
  Watcher = {w1}
  WaitsFor <- OneWaiter
  Target = {1}
  MaxVersion = 1
CHECK_DEADLOCK FALSE
PROPERTY
  WaitCompletes
