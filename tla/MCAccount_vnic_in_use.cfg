SPECIFICATION Spec
CONSTANTS
  Object <- Things
  Inventory <- Everything
  Cases <- JustAnnex
  Extends <- Longer
  MaxFaults = 0
PROPERTIES
  NeverInUse
