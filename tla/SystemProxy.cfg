SPECIFICATION FairSpec
CONSTANTS
  c1 = c1
  Keys = 3
  Slots = {c1}
  EditsBesideBackup = FALSE
  MaxSets = 3
  MaxClears = 3
  MaxFaults = 2
  MaxCrashes = 2
  MaxEdits = 2
INVARIANT OriginalsSurvive
PROPERTY LoanSpec
PROPERTY RecoveredAtStart
CHECK_DEADLOCK FALSE
