SPECIFICATION FairSpec
CONSTANT HostLeaves = FALSE
INVARIANT FinishedIsClean
INVARIANT HiddenIsReachable
PROPERTY QuitEnds
CHECK_DEADLOCK FALSE
