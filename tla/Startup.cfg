CONSTANTS
  Files <- MCFiles
  CpuSetSize = 5
  MaxTime = 3
SPECIFICATION Spec
INVARIANTS
  ReleasedInOrder
  TasksConfigured
  ClockBracketed
PROPERTY StartEnds
