SPECIFICATION FairSpec
CONSTANTS
  MaxToggles = 2
  MaxMenus = 2
  MaxEdits = 1
  MaxPushes = 1
INVARIANT AgreeWhenQuiet
PROPERTY FallsQuiet
CHECK_DEADLOCK FALSE
