SPECIFICATION FairSpec
CONSTANTS
  N = 3
  Type <- Types
  TypeOf <- NetTypeOf
  DependsOn <- Dependencies
  BlockerTypes <- Blocking
  Blocks <- NoBlocks
  Owner <- OneOwner
  Name <- NetName
  HookTypes <- Hooked
  HoldTypes = {"Vcn"}
  DeferTypes <- Deferring
  ScheduledTypes <- OnlyScheduled
  ImmediateTypes = {"Vcn"}
  LingeringTypes = {"Subnet"}
  Holders <- NetHolders
  MaxWaitRetries = 6
  MaxFaults = 2
  FaultsRecur = TRUE
INVARIANTS
  TypeOK
  DependencyOrder
  FinishedIsGone
  HookKeepsDependentsBack
  WaitsOnlyForTheGoing
  FailsAfterThreeAttempts
PROPERTIES
  Terminates
