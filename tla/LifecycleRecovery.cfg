SPECIFICATION FairSpec
CONSTANTS
  A = A
  B = B
  Profiles = {A}
  NeedsCredentials = {}
  NoProfile = NoProfile
  MaxTasks = 3
  UserCommands = {"toggle", "cancel", "import"}
  PatientUser = FALSE
  StartFaults = FALSE
  FaultyCalls = {"set", "clear"}
  MaxCommands = 2
  MaxCrashes = 1
  MaxHealth = 1
  MaxProxyFaults = 1
INVARIANT NoTimerAfterHangUp
INVARIANT ConnectsSerialized
INVARIANT IntentHonoured
PROPERTY NoRevival
PROPERTY HangUpCompletes
PROPERTY DialingEnds
CHECK_DEADLOCK FALSE
