SPECIFICATION FairSpec
CONSTANTS
  Object <- Things
  Inventory <- Everything
  Cases <- Corners
  Extends <- Longer
  MaxFaults = 2
INVARIANTS
  TypeOK
  NoDanglingDelegation
PROPERTIES
  OnlyOurs
  VnicOwnersGoneFirst
  RunEnds
  SweptInTheEnd
  KeptKeepsItsChain
  CleanExit
