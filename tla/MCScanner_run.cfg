SPECIFICATION FairSpec
CONSTANTS
  t1 = t1
  t2 = t2
  t3 = t3
  ResourceType <- ThreeTypes
  ParallelQueries = 2
  QueueSize = 3
  MaxListed = 2
INVARIANTS
  TypeOK
  AtMostParallelQueries
  ClosedAfterAll
  DroppedOnlyWhenFull
PROPERTIES
  RunReturns
