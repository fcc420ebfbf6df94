SPECIFICATION LiveSpec
CONSTANTS
  N = 5
  Type <- Types
  TypeOf <- MixedTypeOf
  DependsOn <- Dependencies
  BlockerTypes <- Blocking
  Blocks <- MixedBlocks
  Owner <- OneOwner
  Name <- MixedName
  HookTypes <- Hooked
  HoldTypes = {}
  DeferTypes <- Deferring
  ScheduledTypes <- OnlyScheduled
  ImmediateTypes = {}
  LingeringTypes = {"Subnet"}
  Holders <- MixedHolders
  MaxWaitRetries = 0
  MaxFaults = 1
  FaultsRecur = FALSE
INVARIANTS
  SuccessMeansSwept
PROPERTIES
  KeptUntouched
  ImplementsTeardown
  SweepsAll
  GoneIsNoticed
