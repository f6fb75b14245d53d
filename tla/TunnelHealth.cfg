SPECIFICATION FairSpec
CONSTANTS
  ProbeInterval = 1
  WarmupWindow = 1
  UnhealthyThreshold = 2
  UnreachableThreshold = 2
  ProbesEnabled = TRUE
  MaxRestarts = 2
  Cooldown = 3
  MaxCommands = 3
  MaxChanges = 3
PROPERTY CooldownKept
PROPERTY WarmupSpared
PROPERTY LocalOutageSpared
PROPERTY SampleSparesVerdict
PROPERTY ProblemClears
