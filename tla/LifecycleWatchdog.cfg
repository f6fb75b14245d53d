SPECIFICATION FairSpec
CONSTANTS
  A = A
  B = B
  Profiles = {A}
  NeedsCredentials = {}
  NoProfile = NoProfile
  MaxTasks = 3
  UserCommands = {"toggle", "credentials"}
  PatientUser = TRUE
  StartFaults = FALSE
  FaultyCalls = {"set", "clear"}
  MaxCommands = 2
  MaxCrashes = 2
  MaxHealth = 0
  MaxProxyFaults = 0
INVARIANT NoStrandedProxy
PROPERTY DeadProxyRestored
CHECK_DEADLOCK FALSE
