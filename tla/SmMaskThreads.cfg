CONSTANTS
  t1 = t1
  t2 = t2
  s1 = s1
  NoMask = NoMask
  Threads <- TwoThreads
  Setters <- NoSetter
  Streams <- OneStream
  TPCs <- TwoTPCs
  WordOf <- WordOfTPC
  LongMasks <- LowMasks
  HopperTMD = FALSE
  Cuda = "cuda9_11"
  Wrapper = FALSE
  CallbackSet = FALSE
SPECIFICATION Spec
INVARIANTS
  TypeOK
  SetupOnce
  HookedPrecedence
