SPECIFICATION Spec
CONSTANTS
  A = A
  B = B
  Profiles = {A, B}
  NeedsCredentials = {}
  NoProfile = NoProfile
  MaxTasks = 4
  UserCommands = {"toggle", "cancel", "switch", "remove", "credentials"}
  PatientUser = TRUE
  StartFaults = TRUE
  FaultyCalls = {"set", "clear"}
  MaxCommands = 4
  MaxCrashes = 0
  MaxHealth = 0
  MaxProxyFaults = 0
 
INVARIANT ProfileAgreement
INVARIANT NoOrphanKernel
INVARIANT DisconnectedIsClean
PROPERTY RingSpec
CHECK_DEADLOCK FALSE
