SPECIFICATION FairSpec
CONSTANTS
  MaxAttempts = 5
  MaxRapidAttempts = 2
  MaxTotalAttempts = 10
  BaseDelay = 1000
  MaxDelay = 12000
  StableUptime = 30
  RapidUptime = 10
  Uptimes = {9, 10, 29, 30}
  MaxCommands = 3
INVARIANT RetriesBounded
CHECK_DEADLOCK FALSE
PROPERTY ReconnectingEnds
