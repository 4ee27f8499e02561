CONSTANTS
  P1 = P1
  P2 = P2
  Readers = {P1, P2}
  Actors <- MCActors
  Runlists <- MCRunlists
  Cases <- MCCases
  WindowLen = 2
  MaxPages = 4
  LastDevice = 1
  Integrated = {0}
SPECIFICATION Spec
INVARIANTS
  
  ReportsHonest
  ReadExact
  ExitSafe
