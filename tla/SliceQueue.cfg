CONSTANTS
  NumSlices = 9
  MaxSlices = 8
  MaxInflight = 4
  SampleEvery = 3
SPECIFICATION FairSpec
INVARIANTS
  ResourcesHeld
  EverySliceRecorded
PROPERTY RunCompletes
