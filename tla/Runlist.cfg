CONSTANTS
  w1 = w1
  w2 = w2
  i1 = i1
  i2 = i2
  Writers <- MCWriters
  Runlists <- MCRunlists
  Insts <- MCInsts
  MAX_CHID = 2
  MAX_TSGID = 4
  OFFSETS = 2
  KeepOffset = 3
  Scenarios <- MCScenarios
  NoInst = NoInst
  NoTsg = NoTsg
  NoBase = NoBase
  Idle = Idle
SPECIFICATION Spec
INVARIANTS
  TypeOK
  NothingStale
  BindingKept
  SubmissionIntact
  SwitchThenPreempt
PROPERTY AllOrNothing
