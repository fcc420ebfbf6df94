SPECIFICATION FairSpec
CONSTANTS
  w1 = w1
  w2 = w2
  v1 = v1
  v2 = v2
  v3 = v3
  v4 = v4
  v5 = v5
  Worker <- TwoWorkers
  Version <- FiveVersions
  Capacity = 2
  PageSize = 2
  MaxFailures = 5
CHECK_DEADLOCK FALSE
INVARIANTS
  TypeOK
  DeletesOnlyEmptied
  HeldOnce
PROPERTIES
  RemoveReturns
