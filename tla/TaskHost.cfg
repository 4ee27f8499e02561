CONSTANTS
  NumTasks = 3
  Configs <- MCConfigs
SPECIFICATION FairSpec
INVARIANTS
  PhasesTogether
  Lockstep
  HonestReturn
PROPERTY HealthyHostReturns
\* A failed task leaves the others in the barrier: see TaskHostInitError.cfg.
CHECK_DEADLOCK FALSE
