CONSTANTS
  IdleLimit = 3
  Period = 2
  LockDelay = 0
  Steps <- NoSteps
  MaxStep = 0
  MaxSets = 0
  U64 = 64
SPECIFICATION FairSpec
PROPERTY IdleHostGone
CHECK_DEADLOCK FALSE
