CONSTANTS
  NumSms = 8
  NumTpcs = 4
  Invocations <- MCInvocations
SPECIFICATION FairSpec
INVARIANTS
  OppositePartitions
  DrainedDisjoint
  FilesComplete
PROPERTY RunCompletes
\* A process that failed leaves its peer in the barrier for good.
CHECK_DEADLOCK FALSE
