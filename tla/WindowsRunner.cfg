SPECIFICATION FairSpec
CONSTANTS
  Images = {"owned"}
  UserSettings <- MCTwoUsers
  FaultyWrites = {"settings"}
  MaxFaults = 1
  LateCalls = {"set"}
  MaxKills = 1
INVARIANT OriginalsKept
INVARIANT ExitIsFinal
INVARIANT HandleIsLive
PROPERTY LoanSpec
PROPERTY DeadEndEnds
