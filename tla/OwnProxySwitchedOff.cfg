SPECIFICATION Spec
CONSTANTS
  Images = {"owned"}
  UserSettings <- MCTwoUsers
  FaultyWrites = {}
  MaxFaults = 0
  LateCalls = {}
  MaxKills = 0
PROPERTY UserChoiceStands
