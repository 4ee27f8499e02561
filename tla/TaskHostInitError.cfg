CONSTANTS
  NumTasks = 2
  Configs <- InitMayFail
SPECIFICATION FairSpec
PROPERTY HostReturns
CHECK_DEADLOCK FALSE
