SPECIFICATION Spec
CONSTANTS
  Absent = Absent
  Old = Old
  NoPlan = NoPlan
  p1 = p1
  p2 = p2
  f1 = f1
  f2 = f2
  Paths <- MCPaths
  Contents <- MCContents
  Plans <- MCPlans
  Writes <- MCWrites
  MaxFaults = 3
  MaxRestarts = 1
  MaxOutside = 1
INVARIANTS
  RetryableIsUntouched
  LeftoversAreRecorded
PROPERTIES
  OneUse
  CommittedIsWhole
SYMMETRY Symmetry
CHECK_DEADLOCK FALSE
