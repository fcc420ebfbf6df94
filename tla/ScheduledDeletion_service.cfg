SPECIFICATION FairSpec
CONSTANTS
  Attempts = 6
  MaxTries = 3
  MaxPolls = 1
  MaxFaults = 3
  DatesKept = {"near", "late"}
  SettlesInTime = {TRUE, FALSE}
INVARIANTS
  TypeOK
  SuccessIsDated
  NeverActsInTransition
  FinishedIsDated
PROPERTIES
  AlwaysTakesTheDate
