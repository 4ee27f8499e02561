CONSTANTS
  t1 = t1
  n1 = n1
  n2 = n2
  s1 = s1
  NoMask = NoMask
  Threads <- OneThread
  Setters <- TwoSetters
  Streams <- OneStream
  TPCs <- SixTPCs
  WordOf <- WordOfTPC
  LongMasks <- TwoMasks
  NumTPCs = 4
  GPCs <- TwoGPCs
  HopperTMD = TRUE
  Cuda = "cuda12"
  Wrapper = TRUE
  CallbackSet = TRUE
SPECIFICATION ControlSpec
INVARIANTS
  SupremeHolds
  SupremeKept
  QueryExact
