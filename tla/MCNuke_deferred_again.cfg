SPECIFICATION Spec
CONSTANTS
  N = 3
  Type <- Types
  TypeOf <- CryptoTypeOf
  DependsOn <- Dependencies
  BlockerTypes <- Blocking
  Blocks <- CryptoBlocks
  Owner <- OneOwner
  Name <- CryptoName
  HookTypes <- Hooked
  HoldTypes = {}
  DeferTypes <- Deferring
  ScheduledTypes <- OnlyScheduled
  ImmediateTypes = {}
  LingeringTypes = {}
  Holders <- CryptoHolders
  MaxWaitRetries = 8
  MaxFaults = 2
  FaultsRecur = FALSE
PROPERTIES
  DeferredStays
