SPECIFICATION Spec
CONSTANTS
  MaxToggles = 2
  MaxMenus = 2
  MaxEdits = 1
  MaxPushes = 1
INVARIANT ShownIsTrue
CHECK_DEADLOCK FALSE
