SPECIFICATION Spec
CONSTANTS
  Attempts = 6
  MaxTries = 3
  MaxPolls = 1
  MaxFaults = 0
  DatesKept = {"late"}
  SettlesInTime = {TRUE}
INVARIANTS
  LeavesScheduled
