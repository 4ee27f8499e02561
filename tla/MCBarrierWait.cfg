CONSTANTS
  p1 = p1
  p2 = p2
  p3 = p3
  p4 = p4
  Procs <- MCProcs
  WeakStores = TRUE
SPECIFICATION BarrierFairSpec
INVARIANTS
  BarrierInv
PROPERTIES
  ImplementsRendezvous
  OrderedExact
  OrderedAllOut
\* On a weak memory the barrier really can stop: a late reset wipes out an arrival.
CHECK_DEADLOCK FALSE
