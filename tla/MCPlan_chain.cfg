SPECIFICATION FairSpec
CONSTANTS
  N = 6
  Type <- Types
  TypeOf <- ChainTypeOf
  DependsOn <- Dependencies
  BlockerTypes <- Blocking
  Blocks <- ChainBlocks
  Deferrers <- Deferring
INVARIANTS
  TypeOK
  PlanIsTheFixpoint
  PlanEndsClosed
  DeferralsAreSupported
PROPERTIES
  PlanTerminates
