SPECIFICATION Spec
CONSTANTS
  N = 3
  Type <- Types
  TypeOf <- NetTypeOf
  DependsOn <- Dependencies
  BlockerTypes <- Blocking
  Blocks <- NoBlocks
  Owner <- OneOwner
  Name <- NetName
  HookTypes <- Hooked
  HoldTypes = {}
  DeferTypes <- Deferring
  ScheduledTypes <- OnlyScheduled
  ImmediateTypes = {"Vcn"}
  LingeringTypes = {"Subnet"}
  Holders <- NetHolders
  MaxWaitRetries = 8
  MaxFaults = 2
  FaultsRecur = FALSE
INVARIANTS
  HookWaitsForTheGoing
