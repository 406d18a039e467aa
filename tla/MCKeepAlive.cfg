CONSTANTS
  IdleLimit = 5
  Period = 2
  LockDelay = 1
  Steps <- AnyStep
  MaxStep = 2
  MaxSets = 1
  U64 = 64
  PingPeriod = 2
  Latency = 1
  MaxMissed = 2
SPECIFICATION KeepFairSpec
INVARIANT KeepTypeOK
PROPERTIES CheckIsExact UsedHostKept IdleHostGoneOrTimerDead
CHECK_DEADLOCK FALSE
